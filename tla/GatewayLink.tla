---------------------------- MODULE GatewayLink ----------------------------
(* The link to a physical gateway (gateway/connections/                    *)
(* websocket.connection.ts under gateway/gateways/base.gateway.ts): the    *)
(* socket, its connection timeout and reconnection timers, and the device  *)
(* commands sent over it, each waiting for the message that names its id.  *)
(*                                                                         *)
(* connect() replaces this.ws without closing the socket it held, and the  *)
(* reconnection timer without clearing the one it held: several sockets    *)
(* and timers may be there at once, and only the last ones can be reached. *)
(* The connection's URL is taken to be valid.                              *)
EXTENDS BaseGateway, Naturals, FiniteSets

CONSTANTS
  Socket,                \* sockets there may be at a time
  Command,               \* device commands
  Time,                  \* bound: the milliseconds at which commands are issued
  None,                  \* no socket, no message id
  MaxReconnectAttempts,  \* maxReconnectAttempts
  MaxTimers              \* bound: no connect() asked for beyond these timers

Undone == {"unasked", "waiting", "refused", "failed"}

ASSUME SocketAssumption == None \notin Socket
ASSUME CommandAssumption == Command \cap Undone = {}
ASSUME TimeAssumption == Time \subseteq Nat /\ None \notin Time
ASSUME AttemptsAssumption == MaxReconnectAttempts \in Nat /\ MaxTimers \in Nat

VARIABLES
  sockets,            \* per socket: where it is in its life
  ws,                 \* this.ws
  awaited,            \* sockets whose opening a BaseGateway.connect awaits
  reconnectAttempts,
  reconnectTimer,     \* is the timer this.reconnectTimer names pending?
  timers,             \* the pending timers nothing names any more
  outcome,            \* per command, its state or the command whose result it got
  messageId,          \* per command, the id of its message
  wire,               \* commands on their way to the gateway
  replies,            \* answers on their way back
  executed            \* commands the gateway has carried out

linkVars == <<sockets, ws, awaited, reconnectAttempts, reconnectTimer, timers,
              outcome, messageId, wire, replies, executed>>
socketVars == <<sockets, ws, awaited, reconnectAttempts, reconnectTimer, timers>>
commandVars == <<outcome, messageId, wire, replies, executed>>

\* "late": connecting after its connection timeout fired on another socket;
\* "failing": given up while connecting, its error event is still to come;
\* "closing": its close event is still to come.
Life == {"idle", "connecting", "late", "failing", "open", "closing"}
Message == [ws : Socket \cup {None}, id : Time, command : Command]

LinkTypeOK ==
  /\ sockets \in [Socket -> Life]
  /\ ws \in Socket \cup {None}
  /\ awaited \subseteq Socket
  /\ reconnectAttempts \in 0 .. MaxReconnectAttempts
  /\ reconnectTimer \in BOOLEAN /\ timers \in Nat
  /\ outcome \in [Command -> Undone \cup Command]
  /\ messageId \in [Command -> Time \cup {None}]
  /\ wire \subseteq Message /\ replies \subseteq Message
  /\ executed \subseteq Command

LinkInit ==
  /\ sockets = [s \in Socket |-> "idle"]
  /\ ws = None /\ awaited = {}
  /\ reconnectAttempts = 0 /\ reconnectTimer = FALSE /\ timers = 0
  /\ outcome = [c \in Command |-> "unasked"]
  /\ messageId = [c \in Command |-> None]
  /\ wire = {} /\ replies = {} /\ executed = {}

-----------------------------------------------------------------------------
(* The connection                                                          *)

\* WebSocketConnection.connect of a link that is not connected.
NewSocket(s) ==
  /\ sockets[s] = "idle"
  /\ sockets' = [sockets EXCEPT ![s] = "connecting"]
  /\ ws' = s

\* BaseGateway.connect: it shows "connecting" even of a connected gateway.
Connect ==
  \/ /\ state = "connected"
     /\ status' = "connected"
     /\ UNCHANGED <<state, linkVars>>
  \/ /\ state # "connected"
     /\ timers + (IF reconnectTimer THEN 1 ELSE 0) < MaxTimers
     /\ SetBoth("connecting")
     /\ \E s \in Socket : NewSocket(s) /\ awaited' = awaited \cup {s}
     /\ UNCHANGED <<reconnectAttempts, reconnectTimer, timers, commandVars>>

\* A socket told to close or to terminate.
Dropped(s) ==
  IF s = None THEN sockets
  ELSE [sockets EXCEPT ![s] = CASE @ \in {"connecting", "late"} -> "failing"
                                [] @ = "open" -> "closing"
                                [] OTHER -> @]

\* BaseGateway.disconnect.  The close event of the socket is still to come.
Disconnect ==
  /\ sockets' = Dropped(ws)
  /\ ws' = None
  /\ reconnectTimer' = FALSE
  /\ SetBoth("disconnected")
  /\ UNCHANGED <<awaited, reconnectAttempts, timers, commandVars>>

\* The open event.  this.ws may be another socket by now.
Open(s) ==
  /\ sockets[s] \in {"connecting", "late"}
  /\ sockets' = [sockets EXCEPT ![s] = "open"]
  /\ reconnectAttempts' = 0
  /\ IF s \in awaited THEN SetBoth("connected") ELSE SetState("connected")
  /\ awaited' = awaited \ {s}
  /\ UNCHANGED <<ws, reconnectTimer, timers, commandVars>>

\* The connection timeout of s terminates whatever this.ws is.
ConnectTimeout(s) ==
  /\ sockets[s] = "connecting"
  /\ sockets' = IF ws = s THEN Dropped(s) ELSE [Dropped(ws) EXCEPT ![s] = "late"]
  /\ status' = IF s \in awaited THEN "error" ELSE status
  /\ awaited' = awaited \ {s}
  /\ UNCHANGED <<state, ws, reconnectAttempts, reconnectTimer, timers, commandVars>>

\* handleClose and handleReconnection, on a close event.
\* Mutant: it goes on for ever.
Reconnection_Endless ==
  /\ reconnectAttempts' = reconnectAttempts + 1
  /\ reconnectTimer' = TRUE
  /\ timers' = IF reconnectTimer THEN timers + 1 ELSE timers

Reconnection ==
  IF reconnectAttempts >= MaxReconnectAttempts
  THEN UNCHANGED <<reconnectAttempts, reconnectTimer, timers>>
  ELSE /\ reconnectAttempts' = reconnectAttempts + 1
       /\ reconnectTimer' = TRUE
       /\ timers' = IF reconnectTimer THEN timers + 1 ELSE timers
StateClosed ==
  IF reconnectAttempts >= MaxReconnectAttempts THEN "error" ELSE "reconnecting"

\* What was sent over s may still be carried out; no answer comes back.
Severed(s) ==
  /\ wire' = {[m EXCEPT !.ws = IF @ = s THEN None ELSE @] : m \in wire}
  /\ replies' = {m \in replies : m.ws # s}
  /\ UNCHANGED <<outcome, messageId, executed>>

\* The close event of an open socket, whoever closed it.
\* Mutant: the close event of a socket that was replaced is ignored.
Closed_Replaced(s) ==
  /\ sockets[s] \in {"open", "closing"}
  /\ sockets' = [sockets EXCEPT ![s] = "idle"]
  /\ IF ws = s THEN Reconnection /\ SetBoth(StateClosed)
     ELSE UNCHANGED <<reconnectAttempts, reconnectTimer, timers, baseVars>>
  /\ Severed(s)
  /\ UNCHANGED <<ws, awaited>>

Closed(s) ==
  /\ sockets[s] \in {"open", "closing"}
  /\ sockets' = [sockets EXCEPT ![s] = "idle"]
  /\ Reconnection
  /\ SetBoth(StateClosed)
  /\ Severed(s)
  /\ UNCHANGED <<ws, awaited>>

\* The error and close events of a socket that did not open: a connect() that
\* awaits it is rejected after both, and shows "error".
\* Mutant: only a connection that was made is made again.
Fail_Unretried(s) ==
  /\ sockets[s] \in {"connecting", "late", "failing"}
  /\ sockets' = [sockets EXCEPT ![s] = "idle"]
  /\ SetBoth("error")
  /\ awaited' = awaited \ {s}
  /\ UNCHANGED <<ws, reconnectAttempts, reconnectTimer, timers, commandVars>>

Fail(s) ==
  /\ sockets[s] \in {"connecting", "late", "failing"}
  /\ sockets' = [sockets EXCEPT ![s] = "idle"]
  /\ Reconnection
  /\ state' = StateClosed
  /\ status' = IF s \in awaited THEN "error" ELSE StateClosed
  /\ awaited' = awaited \ {s}
  /\ UNCHANGED <<ws, commandVars>>

\* The error event of an open socket; its close event follows.
SocketError(s) ==
  /\ sockets[s] = "open"
  /\ sockets' = [sockets EXCEPT ![s] = "closing"]
  /\ SetBoth("error")
  /\ UNCHANGED <<ws, awaited, reconnectAttempts, reconnectTimer, timers, commandVars>>

\* A reconnection timer, the one that can be cleared or another.
TimerFires ==
  /\ \/ reconnectTimer /\ reconnectTimer' = FALSE /\ UNCHANGED timers
     \/ timers > 0 /\ timers' = timers - 1 /\ UNCHANGED reconnectTimer
  /\ \/ /\ state = "connected"
        /\ UNCHANGED <<sockets, ws, state, status>>
     \/ /\ state # "connected"
        /\ SetState("connecting")
        /\ \E s \in Socket : NewSocket(s)
  /\ UNCHANGED <<awaited, reconnectAttempts, commandVars>>

-----------------------------------------------------------------------------
(* Device commands                                                         *)

\* The milliseconds that have been message ids (Date.now()).
Issued == {messageId[c] : c \in Command} \ {None}

\* executeDeviceCommand, sendMessageAndWait and sendMessage up to the answer.
\* Two commands of one millisecond have one id.
ExecuteDeviceCommand(c) ==
  /\ outcome[c] = "unasked"
  /\ \E id \in Time :
       /\ \A used \in Issued : used <= id
       /\ messageId' = [messageId EXCEPT ![c] = id]
       /\ IF state = "connected" /\ ws # None /\ sockets[ws] = "open"
          THEN /\ outcome' = [outcome EXCEPT ![c] = "waiting"]
               /\ wire' = wire \cup {[ws |-> ws, id |-> id, command |-> c]}
          ELSE /\ outcome' = [outcome EXCEPT ![c] = "refused"]
               /\ UNCHANGED wire
  /\ UNCHANGED <<replies, executed, socketVars, baseVars>>

\* The gateway carries a command out and answers over the socket it came by.
\* It may never do so: the command was lost, or refused over there.
GatewayExecutes(m) ==
  /\ wire' = wire \ {m}
  /\ executed' = executed \cup {m.command}
  /\ replies' = IF m.ws = None THEN replies ELSE replies \cup {m}
  /\ UNCHANGED <<outcome, messageId, socketVars, baseVars>>

\* handleIncomingData: every command that waits for this id gets the answer.
\* Mutant: any answer will do.
Waiters_Any(r) == {c \in Command : outcome[c] = "waiting"}

Waiters(r) == {c \in Command : outcome[c] = "waiting" /\ messageId[c] = r.id}
HandleIncomingData(r) ==
  /\ sockets[r.ws] \in {"open", "closing"}
  /\ replies' = replies \ {r}
  /\ outcome' = [c \in Command |-> IF c \in Waiters(r) THEN r.command ELSE outcome[c]]
  /\ UNCHANGED <<messageId, wire, executed, socketVars, baseVars>>

\* The response timeout.
CommandTimeout(c) ==
  /\ outcome[c] = "waiting"
  /\ outcome' = [outcome EXCEPT ![c] = "failed"]
  /\ UNCHANGED <<messageId, wire, replies, executed, socketVars, baseVars>>

\* handleGatewayError: the gateway reports an error of its own.
HandleGatewayError(s) ==
  /\ sockets[s] \in {"open", "closing"}
  /\ status' = "error"
  /\ UNCHANGED <<state, linkVars>>

-----------------------------------------------------------------------------
LinkNext ==
  \/ Connect \/ Disconnect \/ TimerFires
  \/ \E s \in Socket :
       \/ Open(s) \/ ConnectTimeout(s) \/ Closed(s) \/ Fail(s) \/ SocketError(s)
       \/ HandleGatewayError(s)
  \/ \E c \in Command : ExecuteDeviceCommand(c) \/ CommandTimeout(c)
  \/ \E m \in wire : GatewayExecutes(m)
  \/ \E r \in replies : HandleIncomingData(r)

LinkSpec == LinkInit /\ BaseInit /\ [][LinkNext]_<<baseVars, linkVars>>

-----------------------------------------------------------------------------
\* What the callers of executeDeviceCommand rely on, CommandChannel: at most
\* one execution, none of a refused command, and the answer to a command issued
\* in the same millisecond, its own unless it shares it (base.gateway.ts 305-339,
\* 352-378).
Channel == INSTANCE CommandChannel WITH moment <- messageId, Moment <- Time, Never <- None
CommandsKept == Channel!ChannelSpec
=============================================================================
