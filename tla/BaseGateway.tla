---------------------------- MODULE BaseGateway ----------------------------
(* What every gateway shares (gateway/gateways/base.gateway.ts and         *)
(* gateway/connections/base.connection.ts): the state of its connection,   *)
(* and the status the service shows of it, which follows the state through *)
(* events and is also written directly.                                    *)
VARIABLES
  state,   \* BaseConnection._state
  status   \* BaseGateway._status.connectionState

baseVars == <<state, status>>

State == {"disconnected", "connecting", "connected", "reconnecting", "error"}

BaseTypeOK == state \in State /\ status \in State

BaseInit == state = "disconnected" /\ status = "disconnected"

\* A stateChanged event is emitted, and followed, only when the state changes.
SetState(new) ==
  /\ state' = new
  /\ status' = IF new = state THEN status ELSE new

\* A state change whose handlers also write the status, or that surely is one.
SetBoth(new) == state' = new /\ status' = new
=============================================================================
