--------------------------- MODULE ContractEvents ---------------------------
(***************************************************************************)
(* The events of the protocol-state contract, as the generated binding     *)
(* knows them.  For each event the binding has an iterator, a filter, a    *)
(* watch and a parser, which differ from those of the other events in the  *)
(* name of the event and in its indexed fields alone: a caller gives       *)
(* values it wants for each, and the filter passes the rules on by their   *)
(* position, in the order of the event's "indexed" here.                   *)
(***************************************************************************)
EXTENDS Sequences

EventType(name, indexed) == [name |-> name, indexed |-> indexed]

AdminsUpdated == EventType("AdminsUpdated", <<"dataMarketAddress">>)
BatchSubmissionsCompleted ==
  EventType("BatchSubmissionsCompleted", <<"dataMarketAddress", "epochId">>)
DailyTaskCompletedEvent == EventType("DailyTaskCompletedEvent", <<"dataMarketAddress">>)
DataMarketCreated == EventType("DataMarketCreated", <<"ownerAddress">>)
DayStartedEvent == EventType("DayStartedEvent", <<"dataMarketAddress">>)
DelayedAttestationSubmitted ==
  EventType("DelayedAttestationSubmitted", <<"dataMarketAddress", "epochId", "validatorAddr">>)
DelayedBatchSubmitted == EventType("DelayedBatchSubmitted", <<"dataMarketAddress", "epochId">>)
DelayedSnapshotSubmitted ==
  EventType("DelayedSnapshotSubmitted", <<"dataMarketAddress", "snapshotterAddr", "epochId">>)
EpochReleased == EventType("EpochReleased", <<"dataMarketAddress", "epochId">>)
Initialized == EventType("Initialized", <<>>)
OwnershipTransferred == EventType("OwnershipTransferred", <<"previousOwner", "newOwner">>)
ProjectTypeUpdated == EventType("ProjectTypeUpdated", <<"dataMarketAddress">>)
ProjectsUpdated == EventType("ProjectsUpdated", <<"dataMarketAddress">>)
SequencersUpdated == EventType("SequencersUpdated", <<"dataMarketAddress">>)
SnapshotBatchAttestationSubmitted ==
  EventType("SnapshotBatchAttestationSubmitted", <<"dataMarketAddress", "epochId", "validatorAddr">>)
SnapshotBatchFinalized ==
  EventType("SnapshotBatchFinalized", <<"dataMarketAddress", "epochId", "batchId">>)
SnapshotBatchSubmitted ==
  EventType("SnapshotBatchSubmitted", <<"dataMarketAddress", "epochId">>)
SnapshotFinalized == EventType("SnapshotFinalized", <<"dataMarketAddress", "epochId">>)
TriggerBatchResubmission ==
  EventType("TriggerBatchResubmission", <<"dataMarketAddress", "epochId", "batchId">>)
Upgraded == EventType("Upgraded", <<"implementation">>)
ValidatorAttestationsInvalidated ==
  EventType("ValidatorAttestationsInvalidated", <<"dataMarketAddress", "epochId", "batchId">>)
ValidatorsUpdated == EventType("ValidatorsUpdated", <<"dataMarketAddress">>)

ContractEventTypes ==
  {AdminsUpdated, BatchSubmissionsCompleted, DailyTaskCompletedEvent,
   DataMarketCreated, DayStartedEvent, DelayedAttestationSubmitted,
   DelayedBatchSubmitted, DelayedSnapshotSubmitted, EpochReleased,
   Initialized, OwnershipTransferred, ProjectTypeUpdated, ProjectsUpdated,
   SequencersUpdated, SnapshotBatchAttestationSubmitted,
   SnapshotBatchFinalized, SnapshotBatchSubmitted, SnapshotFinalized,
   TriggerBatchResubmission, Upgraded, ValidatorAttestationsInvalidated,
   ValidatorsUpdated}

(* The fields of an event that are topics of its logs, in the order of the *)
(* contract's interface (the ABI).                                         *)
Topics(name) ==
  CASE name \in {"AdminsUpdated", "DailyTaskCompletedEvent", "DayStartedEvent",
                   "ProjectTypeUpdated", "ProjectsUpdated", "SequencersUpdated",
                   "ValidatorsUpdated"} ->
         <<"dataMarketAddress">>
    [] name \in {"BatchSubmissionsCompleted", "DelayedBatchSubmitted", "EpochReleased",
                   "SnapshotBatchSubmitted", "SnapshotFinalized"} ->
         <<"dataMarketAddress", "epochId">>
    [] name \in {"DataMarketCreated"} ->
         <<"ownerAddress">>
    [] name \in {"DelayedAttestationSubmitted", "SnapshotBatchAttestationSubmitted"} ->
         <<"dataMarketAddress", "epochId", "validatorAddr">>
    [] name \in {"DelayedSnapshotSubmitted"} ->
         <<"dataMarketAddress", "snapshotterAddr", "epochId">>
    [] name \in {"Initialized"} ->
         <<>>
    [] name \in {"OwnershipTransferred"} ->
         <<"previousOwner", "newOwner">>
    [] name \in {"SnapshotBatchFinalized", "TriggerBatchResubmission",
                   "ValidatorAttestationsInvalidated"} ->
         <<"dataMarketAddress", "epochId", "batchId">>
    [] name \in {"Upgraded"} ->
         <<"implementation">>

Fields(e) == {e.indexed[i] : i \in DOMAIN e.indexed}

(* A log is what a caller means who asks for the event with these values   *)
(* of its fields, {} being any.                                            *)
Matches(l, e, wanted) ==
  /\ l.name = e.name
  /\ \A f \in Fields(e) : wanted[f] = {} \/ l.fields[f] \in wanted[f]

=============================================================================
