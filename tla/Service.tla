------------------------------- MODULE Service -------------------------------
(***************************************************************************)
(* The parts of the service that answer without memory: the consumer of a  *)
(* queue turning a message into entities, the HTTP API with the device     *)
(* models, and the computation of a position from gateways.  They share no *)
(* state, so one of them at a time is all their interleavings.             *)
(***************************************************************************)
EXTENDS Uplinks, DeviceModelsApi, Trilateration

ApiIdle == Idle /\ UNCHANGED apiVars
Init == Idling /\ Idle /\ Silence

Consume == UplinkNext /\ ApiIdle /\ Silence /\ UNCHANGED gateways
Serve == ApiNext /\ Idling /\ UNCHANGED vars /\ Silence /\ UNCHANGED gateways
Locate == (Hear \/ Forget) /\ Idling /\ UNCHANGED vars /\ ApiIdle

Next == Consume \/ Serve \/ Locate
Spec == Init /\ [][Next]_<<vars, apiVars, gateways>>
=============================================================================
