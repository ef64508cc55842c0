--------------------------- MODULE MCContractUse ---------------------------
(* ContractUse with two values for every field of every event. *)
EXTENDS ContractUse, TLC

MCEvents == ContractEventTypes
MCValues == {1, 2}
MCFilters == {{}, {1}}

=============================================================================
