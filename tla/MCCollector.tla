---------------------------- MODULE MCCollector ----------------------------
(* Collector with small sets for TLC. *)
EXTENDS Collector, TLC

CONSTANTS s1, s2, m1, m2

MCStreams == {s1, s2}
MCMarkets == {m1}
MCTwoMarkets == {m1, m2}
MCSlots == {1}
MCEpochs == {1, 2}
MCOneEpoch == {1}

(* Environments: everything goes wrong but no counter expires; everything  *)
(* goes well; and the two that some properties are about.                  *)
Faulty == {Events \ {"ttl"}}
Healthy == {{}}
Gentle == {{}, {"LPush", "Incr", "ttl"}}

(* The data market a deployment is configured with. *)
DataMarketAddress == m1

(* What README.md says of DATA_MARKET_ADDRESS, "The contract address of    *)
(* data market this listener is for": what is queued is of that market.    *)
QueueIsOfDataMarket ==
  \A i \in DOMAIN submissionQueue : submissionQueue[i].sub.market = DataMarketAddress

MCSymmetry == Permutations(MCStreams)

=============================================================================
