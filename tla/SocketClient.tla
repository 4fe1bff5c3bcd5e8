---------------------------- MODULE SocketClient ----------------------------
(* A browser's end of the live updates (frontend/src/services/             *)
(* websocket.service.ts, contexts/WebSocketContext.tsx and AuthContext.tsx):*)
(* one connection, reopened after a loss, the subscriptions it should      *)
(* have, and the widgets that want them.  Each socket carries its messages *)
(* in order, in both directions.                                           *)
EXTENDS Sequences, SequencesExt

CONSTANTS
  Browser,
  SocketsOf,    \* the sockets each browser may open: a bound
  Type,
  Id,           \* subscription ids of the service
  NoSocket, NoId, TempId,
  MaxAttempts,  \* maxReconnectAttempts, 5 in the code
  MaxMounts     \* bound of the times a browser mounts a widget

VARIABLES
  token,                \* a login token is stored
  verifying,            \* the stored token of a reloaded page is being verified
  ws,                   \* this.ws: the current socket
  readyState,           \* of each socket; "quitting" is closing with code 1000
  subscribed,           \* the types in the subscriptions map
  subscriptionIds,      \* per type, the id known for it
  reconnectAttempts,
  timers,               \* reconnections scheduled and not yet due
  connected,            \* isConnected as last set in React
  shown,                \* isConnected as last rendered
  serverSubscriptions,  \* the types the context has asked the service for
  mounted,              \* the types some mounted widget wants
  mounts,               \* how many widgets were mounted so far
  up, down              \* messages on their way, per socket

Sockets == UNION {SocketsOf[b] : b \in Browser}
Message == [kind : {"subscription", "unsubscription"}, type : Type, id : Id \cup {NoId, TempId}]
             \cup [kind : {"close"}]
Reply == [type : Type, id : Id]

ClientTypeOK ==
  /\ token \in [Browser -> BOOLEAN] /\ verifying \in [Browser -> BOOLEAN]
  /\ ws \in [Browser -> Sockets \cup {NoSocket}]
  /\ readyState \in [Sockets -> {"unused", "connecting", "open", "closing", "quitting", "closed"}]
  /\ subscribed \in [Browser -> SUBSET Type]
  /\ subscriptionIds \in [Browser -> [Type -> Id \cup {NoId, TempId}]]
  /\ reconnectAttempts \in [Browser -> 0 .. MaxAttempts]
  /\ timers \in [Browser -> Nat]
  /\ connected \in [Browser -> BOOLEAN] /\ shown \in [Browser -> BOOLEAN]
  /\ serverSubscriptions \in [Browser -> SUBSET Type]
  /\ mounted \in [Browser -> SUBSET Type]
  /\ mounts \in [Browser -> 0 .. MaxMounts]
  /\ up \in [Sockets -> Seq(Message)]
  /\ down \in [Sockets -> Seq(Reply)]

Unused(b) == {s \in SocketsOf[b] : readyState[s] = "unused"}
First(b) == CHOOSE s \in SocketsOf[b] : TRUE

\* The page is loaded, with a stored token or without: the service connects as
\* it is constructed, and the token is verified.
ClientInit ==
  /\ token \in [Browser -> BOOLEAN]
  /\ verifying = token
  /\ ws = [b \in Browser |-> IF token[b] THEN First(b) ELSE NoSocket]
  /\ readyState = [s \in Sockets |->
       IF \E b \in Browser : token[b] /\ s = First(b) THEN "connecting" ELSE "unused"]
  /\ subscribed = [b \in Browser |-> {}]
  /\ subscriptionIds = [b \in Browser |-> [t \in Type |-> NoId]]
  /\ reconnectAttempts = [b \in Browser |-> 0]
  /\ timers = [b \in Browser |-> 0]
  /\ connected = [b \in Browser |-> FALSE]
  /\ shown = [b \in Browser |-> FALSE]
  /\ serverSubscriptions = [b \in Browser |-> {}]
  /\ mounted = [b \in Browser |-> {}]
  /\ mounts = [b \in Browser |-> 0]
  /\ up = [s \in Sockets |-> <<>>]
  /\ down = [s \in Sockets |-> <<>>]

-----------------------------------------------------------------------------
(* The service's subscribe and unsubscribe, called for some types one      *)
(* after the other, on a record of the subscriptions map, the ids and what *)
(* is sent.                                                                *)

IsOpen(b) == ws[b] # NoSocket /\ readyState[ws[b]] = "open"

Messages(kind, ids, ts) ==
  LET order == SetToSeq(ts)
  IN [i \in 1 .. Len(order) |-> [kind |-> kind, type |-> order[i], id |-> ids[order[i]]]]

\* A type already in the map is not asked for again.
Subscribe(ts, rec) ==
  LET new == ts \ rec.subs
  IN [subs |-> rec.subs \cup new,
      ids |-> [t \in Type |-> IF t \in new THEN TempId ELSE rec.ids[t]],
      sent |-> rec.sent \o Messages("subscription", [t \in new |-> NoId], new)]

\* A type without an id cannot be unsubscribed, and stays in the map.
Unsubscribe(ts, rec) ==
  LET known == {t \in ts : rec.ids[t] # NoId}
  IN [subs |-> rec.subs \ known,
      ids |-> [t \in Type |-> IF t \in known THEN NoId ELSE rec.ids[t]],
      sent |-> rec.sent \o Messages("unsubscription", rec.ids, known)]

Known(b) == [subs |-> subscribed[b], ids |-> subscriptionIds[b], sent |-> <<>>]

Adopt(b, rec) ==
  /\ subscribed' = [subscribed EXCEPT ![b] = rec.subs]
  /\ subscriptionIds' = [subscriptionIds EXCEPT ![b] = rec.ids]

\* What is sent on a socket that is not open is dropped with a warning.
Send(b, rec) ==
  up' = IF IsOpen(b) THEN [up EXCEPT ![ws[b]] = @ \o rec.sent] ELSE up

-----------------------------------------------------------------------------
(* The connection.                                                         *)

\* connect(): the present socket is closed, without a code; with a token
\* (held), a new one is opened.
Connect(b, held) ==
  LET old == ws[b]
      closed == IF old # NoSocket /\ readyState[old] \in {"connecting", "open"}
                  THEN [readyState EXCEPT ![old] = "closing"] ELSE readyState
  IN /\ up' = IF IsOpen(b) THEN [up EXCEPT ![old] = Append(@, [kind |-> "close"])] ELSE up
     /\ \/ /\ held
           /\ Unused(b) # {}
           /\ LET s == CHOOSE s \in Unused(b) : TRUE
              IN /\ ws' = [ws EXCEPT ![b] = s]
                 /\ readyState' = [closed EXCEPT ![s] = "connecting"]
        \/ /\ ~held
           /\ ws' = [ws EXCEPT ![b] = NoSocket]
           /\ readyState' = closed

RetryConnectionIfNeeded(b) ==
  IF IsOpen(b) THEN UNCHANGED <<ws, readyState, reconnectAttempts, up>>
  ELSE Connect(b, TRUE) /\ reconnectAttempts' = [reconnectAttempts EXCEPT ![b] = 0]

Login(b) ==
  /\ ~token[b]
  /\ token' = [token EXCEPT ![b] = TRUE]
  /\ RetryConnectionIfNeeded(b)
  /\ UNCHANGED <<verifying, subscribed, subscriptionIds, timers, connected, shown,
                 serverSubscriptions, mounted, mounts, down>>

\* A reloaded page: the stored token is good, or it is dropped.
TokenVerified(b) ==
  /\ verifying[b]
  /\ verifying' = [verifying EXCEPT ![b] = FALSE]
  /\ RetryConnectionIfNeeded(b)
  /\ UNCHANGED <<token, subscribed, subscriptionIds, timers, connected, shown,
                 serverSubscriptions, mounted, mounts, down>>

TokenRejected(b) ==
  /\ verifying[b]
  /\ verifying' = [verifying EXCEPT ![b] = FALSE]
  /\ token' = [token EXCEPT ![b] = FALSE]
  /\ UNCHANGED <<ws, readyState, subscribed, subscriptionIds, reconnectAttempts, timers,
                 connected, shown, serverSubscriptions, mounted, mounts, up, down>>

\* The token is removed and the socket closed with code 1000.  The pages with
\* widgets are left: their effects unsubscribe, on a socket that is gone.
Logout(b) ==
  /\ token[b] /\ ~verifying[b]
  /\ token' = [token EXCEPT ![b] = FALSE]
  /\ ws' = [ws EXCEPT ![b] = NoSocket]
  /\ readyState' = IF ws[b] = NoSocket THEN readyState
                   ELSE [readyState EXCEPT ![ws[b]] = IF @ = "open" THEN "quitting"
                           ELSE IF @ = "connecting" THEN "closing" ELSE @]
  /\ up' = IF IsOpen(b) THEN [up EXCEPT ![ws[b]] = Append(@, [kind |-> "close"])] ELSE up
  /\ Adopt(b, Unsubscribe(mounted[b] \cap serverSubscriptions[b], Known(b)))
  /\ serverSubscriptions' = [serverSubscriptions EXCEPT ![b] = @ \ mounted[b]]
  /\ mounted' = [mounted EXCEPT ![b] = {}]
  /\ UNCHANGED <<verifying, reconnectAttempts, timers, connected, shown, mounts, down>>

\* onopen: subscribe is called for every type in the map that has no id.
HandleOpen(b, s) ==
  LET missing == {t \in subscribed[b] : subscriptionIds[b][t] = NoId}
      rec == Subscribe(missing, Known(b))
  IN /\ readyState[s] = "connecting"
     /\ readyState' = [readyState EXCEPT ![s] = "open"]
     /\ up' = [up EXCEPT ![s] = @ \o rec.sent]
     /\ Adopt(b, rec)
     /\ reconnectAttempts' = [reconnectAttempts EXCEPT ![b] = 0]
     /\ connected' = [connected EXCEPT ![b] = TRUE]
     /\ UNCHANGED <<token, verifying, ws, timers, shown, serverSubscriptions, mounted,
                    mounts, down>>

\* The connection is lost or cannot be made: a close event will tell.
Break(s) ==
  /\ readyState' = [readyState EXCEPT ![s] = "closing"]
  /\ up' = [up EXCEPT ![s] = <<>>]
  /\ down' = [down EXCEPT ![s] = <<>>]
  /\ UNCHANGED <<token, verifying, ws, subscribed, subscriptionIds, reconnectAttempts,
                 timers, connected, shown, serverSubscriptions, mounted, mounts>>

\* Mutant: the number of attempts is not looked at.
HandleClose_Forever(b, s) ==
  LET again == readyState[s] = "closing"
  IN /\ readyState[s] \in {"closing", "quitting"}
     /\ readyState' = [readyState EXCEPT ![s] = "closed"]
     /\ down' = [down EXCEPT ![s] = <<>>]
     /\ subscriptionIds' = [subscriptionIds EXCEPT ![b] = [t \in Type |-> NoId]]
     /\ connected' = [connected EXCEPT ![b] = FALSE]
     /\ serverSubscriptions' = [serverSubscriptions EXCEPT ![b] = {}]
     /\ reconnectAttempts' = [reconnectAttempts EXCEPT ![b] = IF again THEN @ + 1 ELSE @]
     /\ timers' = [timers EXCEPT ![b] = IF again THEN @ + 1 ELSE @]
     /\ UNCHANGED <<token, verifying, ws, subscribed, shown, mounted, mounts, up>>

\* onclose, of whichever socket: the ids and the context's subscriptions are
\* cleared, the map is kept; unless the code is 1000 a reconnection is scheduled.
HandleClose(b, s) ==
  LET again == readyState[s] = "closing" /\ reconnectAttempts[b] < MaxAttempts
  IN /\ readyState[s] \in {"closing", "quitting"}
     /\ readyState' = [readyState EXCEPT ![s] = "closed"]
     /\ down' = [down EXCEPT ![s] = <<>>]
     /\ subscriptionIds' = [subscriptionIds EXCEPT ![b] = [t \in Type |-> NoId]]
     /\ connected' = [connected EXCEPT ![b] = FALSE]
     /\ serverSubscriptions' = [serverSubscriptions EXCEPT ![b] = {}]
     /\ reconnectAttempts' = [reconnectAttempts EXCEPT ![b] = IF again THEN @ + 1 ELSE @]
     /\ timers' = [timers EXCEPT ![b] = IF again THEN @ + 1 ELSE @]
     /\ UNCHANGED <<token, verifying, ws, subscribed, shown, mounted, mounts, up>>

TimerFires(b) ==
  /\ timers[b] > 0
  /\ timers' = [timers EXCEPT ![b] = @ - 1]
  /\ Connect(b, token[b])
  /\ UNCHANGED <<token, verifying, subscribed, subscriptionIds, reconnectAttempts,
                 connected, shown, serverSubscriptions, mounted, mounts, down>>

\* The service has confirmed a subscription: its id is kept, whether or not the
\* type is still in the map.  A closing socket delivers nothing any more.
HandleMessage(b, s) ==
  /\ down[s] # <<>>
  /\ down' = [down EXCEPT ![s] = Tail(@)]
  /\ subscriptionIds' = IF readyState[s] = "open"
       THEN [subscriptionIds EXCEPT ![b][Head(down[s]).type] = Head(down[s]).id]
       ELSE subscriptionIds
  /\ UNCHANGED <<token, verifying, ws, readyState, subscribed, reconnectAttempts, timers,
                 connected, shown, serverSubscriptions, mounted, mounts, up>>

-----------------------------------------------------------------------------
(* Widgets.                                                                *)

\* The context asks the service for a type its first widget wants.
Mount(b, t) ==
  LET rec == IF t \in serverSubscriptions[b] THEN Known(b) ELSE Subscribe({t}, Known(b))
  IN /\ token[b] /\ ~verifying[b]
     /\ t \notin mounted[b]
     /\ mounts[b] < MaxMounts
     /\ mounts' = [mounts EXCEPT ![b] = @ + 1]
     /\ mounted' = [mounted EXCEPT ![b] = @ \cup {t}]
     /\ serverSubscriptions' = [serverSubscriptions EXCEPT ![b] = @ \cup {t}]
     /\ Adopt(b, rec) /\ Send(b, rec)
     /\ UNCHANGED <<token, verifying, ws, readyState, reconnectAttempts, timers, connected,
                    shown, down>>

Unmount(b, t) ==
  LET rec == IF t \in serverSubscriptions[b] THEN Unsubscribe({t}, Known(b)) ELSE Known(b)
  IN /\ t \in mounted[b]
     /\ mounted' = [mounted EXCEPT ![b] = @ \ {t}]
     /\ serverSubscriptions' = [serverSubscriptions EXCEPT ![b] = @ \ {t}]
     /\ Adopt(b, rec) /\ Send(b, rec)
     /\ UNCHANGED <<token, verifying, ws, readyState, reconnectAttempts, timers, connected,
                    shown, mounts, down>>

\* Mutant: the widgets' effects do not depend on the connection.
Render_Quiet(b) ==
  /\ shown[b] # connected[b]
  /\ shown' = [shown EXCEPT ![b] = connected[b]]
  /\ UNCHANGED <<token, verifying, ws, readyState, subscribed, subscriptionIds,
                 reconnectAttempts, timers, connected, serverSubscriptions, mounted,
                 mounts, up, down>>

\* isConnected changed: the context's subscribe is a new function, on which every
\* widget's effect depends, so all are cleaned up and then all run again.
Render(b) ==
  LET cleaned == Unsubscribe(mounted[b] \cap serverSubscriptions[b], Known(b))
      rec == Subscribe(mounted[b], cleaned)
  IN /\ shown[b] # connected[b]
     /\ shown' = [shown EXCEPT ![b] = connected[b]]
     /\ serverSubscriptions' = [serverSubscriptions EXCEPT ![b] = @ \cup mounted[b]]
     /\ Adopt(b, rec) /\ Send(b, rec)
     /\ UNCHANGED <<token, verifying, ws, readyState, reconnectAttempts, timers, connected,
                    mounted, mounts, down>>
=============================================================================
