----------------------------- MODULE Gateways -----------------------------
(* A gateway of the service (gateway/gateway.service.ts), made by          *)
(* gateway-factory.ts of the kind its configuration names: a physical one, *)
(* linked by a socket (GatewayLink), or one polled over HTTP               *)
(* (DevicePolling).  Both are a BaseGateway.                               *)
EXTENDS GatewayLink, DevicePolling

VARIABLE kind

vars == <<kind, baseVars, linkVars, pollVars>>

TypeOK == kind \in {"physical", "http"} /\ BaseTypeOK /\ LinkTypeOK /\ PollTypeOK

\* GatewayFactory.createFromConfig
Init == kind \in {"physical", "http"} /\ BaseInit /\ LinkInit /\ PollInit

PhysicalStep == kind = "physical" /\ LinkNext /\ UNCHANGED <<kind, pollVars>>
HttpStep == kind = "http" /\ PollNext /\ UNCHANGED <<kind, linkVars>>

Next == PhysicalStep \/ HttpStep

Http(A) == kind = "http" /\ A /\ UNCHANGED <<kind, linkVars>>

\* The interval fires: only the bound on polls can disable it.  A synchronisation
\* goes on, and a gateway asked for its locks again and again lists them some
\* time.  Nothing is asked of a physical gateway.
Fairness ==
  /\ SF_vars(Http(\E p \in Poll : PollDue(p)))
  /\ SF_vars(Http(\E p \in Poll : Listed(p)))
  /\ \A p \in Poll : WF_vars(Http(SyncStep(p)))

Spec == Init /\ [][Next]_vars /\ Fairness

-----------------------------------------------------------------------------
\* A link is never left for lost: unless it is connected, was disconnected on
\* purpose or has used up its attempts, a timer is pending or a socket has an
\* event to come that goes on (websocket.connection.ts 183-197).
NeverStranded ==
  kind = "physical" =>
    \/ state \in {"connected", "disconnected"}
    \/ reconnectAttempts >= MaxReconnectAttempts
    \/ reconnectTimer \/ timers > 0
    \/ \E s \in Socket : sockets[s] # "idle" /\ sockets[s] # "open"

\* Neither the connection nor the status shown of the gateway claims a
\* connection of which no socket is left: some socket is open, or its close
\* event is to come (base.connection.ts 71-85, base.gateway.ts 142-169).
ConnectedTrue ==
  kind = "physical" /\ "connected" \in {state, status} =>
     state = "connected" /\ \E s \in Socket : sockets[s] \in {"open", "closing"}
=============================================================================
