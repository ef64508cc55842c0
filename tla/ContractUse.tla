---------------------------- MODULE ContractUse ----------------------------
(***************************************************************************)
(* A goroutine that uses the contract: it makes queries, one at a time, or *)
(* opens a filter or a watch.  Nothing in this program does so yet:        *)
(* start-up connects the client and the bound contract, no more.           *)
(***************************************************************************)
EXTENDS ProtocolState, ContractBinding

vars == <<queryVars, bindingVars>>

Init == QueryInit /\ BindingInit

Querying == Idle /\ QueryNext /\ UNCHANGED bindingVars

Binding(A) == query = "idle" /\ result = "none" /\ A /\ UNCHANGED queryVars

Next == Querying \/ Binding(BindingNext)

(* A call of the contract is answered or breaks, the timer of the retries  *)
(* fires, and time passes; the goroutines of the binding, and a caller     *)
(* that waits for them, go on when they can.  Nothing is assumed of the    *)
(* node, of the sink's reader, or of what the caller does next.            *)
Spec == Init /\ [][Next]_vars

FairSpec ==
  /\ Spec
  /\ WF_vars(CallEnds /\ Idle /\ UNCHANGED bindingVars)
  /\ WF_vars(TimerFires /\ Idle /\ UNCHANGED bindingVars)
  /\ WF_vars(MinutePasses /\ Idle /\ UNCHANGED bindingVars)
  /\ WF_vars(Binding(SenderSends \/ SenderEnds))
  /\ WF_vars(Binding(ForwarderTakes \/ ForwarderEnds))
  /\ WF_vars(Binding(NextReturns \/ EndReturns))

(* Every variable has its type. *)
TypeOK == QueryTypeOK /\ BindingTypeOK

=============================================================================
