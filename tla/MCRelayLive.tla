---------------------------- MODULE MCRelayLive ----------------------------
(* What the relay owes in the end: RelayRouter and PushGate.  They share   *)
(* no state (the SEND arm calls the gate and forgets it), so a behaviour   *)
(* exercises one of them, `part', with the other at rest.  Liveness is     *)
(* checked, so there is no symmetry.                                       *)
EXTENDS MCRelayRouter, PushGate

VARIABLE part

LInit ==
    /\ part \in {"router", "gate"}
    /\ RInit /\ GateInit
    /\ part = "router" => tokens = {}

LNext ==
    /\ \/ part = "router" /\ RNext /\ UNCHANGED gateVars
       \/ part = "gate" /\ GateNext /\ UNCHANGED vars
    /\ UNCHANGED part

LFairSpec ==
    /\ LInit /\ [][LNext]_<<part, vars, gateVars>>
    /\ RFairness /\ GateFairness
=============================================================================
