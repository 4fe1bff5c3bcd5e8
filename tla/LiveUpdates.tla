---------------------------- MODULE LiveUpdates ----------------------------
(* The live updates end to end: browsers (SocketClient) and the service    *)
(* they subscribe to (Subscriptions), joined by the sockets' channels.     *)
EXTENDS Subscriptions, Sequences, FiniteSets

CONSTANTS Browser, SocketsOf, NoSocket, NoId, TempId, MaxAttempts, MaxMounts

VARIABLES token, verifying, ws, readyState, subscribed, subscriptionIds,
          reconnectAttempts, timers, connected, shown, serverSubscriptions, mounted,
          mounts, up, down

INSTANCE SocketClient

ASSUME BrowserAssumption ==
  /\ Socket = Sockets
  /\ \A b \in Browser : SocketsOf[b] # {}
  /\ \A a, b \in Browser : a # b => SocketsOf[a] \cap SocketsOf[b] = {}
  /\ IsFiniteSet(Type)
  /\ MaxAttempts \in Nat /\ MaxMounts \in Nat

browserVars == <<token, verifying, ws, readyState, subscribed, subscriptionIds,
                 reconnectAttempts, timers, connected, shown, serverSubscriptions,
                 mounted, mounts, up, down>>
vars == <<serverVars, browserVars>>

TypeOK == ServerTypeOK /\ ClientTypeOK

Init == ServerInit /\ ClientInit

\* The handshake: the service has the connection when the browser learns of it.
Open(b, s) == HandleConnection(s) /\ HandleOpen(b, s)

\* The service cannot load the client's facilities: it closes the socket.
Refuse(s) ==
  /\ RefuseClient(s)
  /\ IF readyState[s] = "open" THEN Break(s) ELSE UNCHANGED browserVars

\* The network gives up a connection, or never makes it.
Lose(s) ==
  /\ readyState[s] \in {"connecting", "open"}
  /\ Break(s)
  /\ IF s \in alive THEN HangUp(s) ELSE UNCHANGED serverVars

\* The reply to a subscription, if the socket is open.
Answer(s, id) ==
  down' = IF s \in alive THEN [down EXCEPT ![s] = Append(@, [type |-> id[1], id |-> id])]
          ELSE down

Unheard == UNCHANGED <<token, verifying, ws, readyState, subscribed, subscriptionIds,
                       reconnectAttempts, timers, connected, shown, serverSubscriptions,
                       mounted, mounts>>

\* The service takes the next message.  While the client's facilities are being
\* loaded no listener is attached, and the message is gone.
Receive(s) ==
  LET message == Head(up[s])
      typed == message.kind # "close"
  IN /\ up[s] # <<>>
     /\ up' = [up EXCEPT ![s] = Tail(@)]
     /\ Unheard
     /\ \/ /\ message.kind = "close" /\ s \in alive
           /\ HangUp(s) /\ UNCHANGED down
        \/ /\ message.kind = "subscription" /\ Registered(s)
           /\ \E told, id \in {i \in Id : i[1] = message.type} :
                /\ Generated(told, id)
                /\ \/ HandleSubscription(s, told, id) /\ UNCHANGED down
                   \/ DenySubscription(s, told) /\ id = told /\ Answer(s, told)
        \/ /\ message.kind = "unsubscription" /\ Registered(s)
           /\ message.id \in subs[s]
           /\ HandleUnsubscription(s, message.id, message.type) /\ UNCHANGED down
        \/ /\ message.kind = "unsubscription" /\ Registered(s)
           /\ message.id \notin subs[s]
           /\ UNCHANGED serverVars /\ UNCHANGED down
        \/ /\ typed /\ ~Registered(s)
           /\ UNCHANGED serverVars /\ UNCHANGED down
        \/ /\ ~typed /\ s \notin alive
           /\ UNCHANGED serverVars /\ UNCHANGED down

InitialData(r) ==
  /\ InitialDataSent(r)
  /\ Answer(r.ws, r.told)
  /\ Unheard /\ UNCHANGED up

BrowserStep(b) ==
  /\ UNCHANGED serverVars
  /\ \/ Login(b) \/ TokenVerified(b) \/ TokenRejected(b) \/ Logout(b) \/ TimerFires(b)
     \/ \E s \in SocketsOf[b] : HandleClose(b, s) \/ HandleMessage(b, s)
     \/ \E t \in Type : Mount(b, t) \/ Unmount(b, t)
     \/ Render(b)

ServerStep ==
  /\ UNCHANGED browserVars
  /\ \/ \E s \in Socket : Register(s) \/ HandleDisconnection(s)
     \/ LoadFails \/ Deliver
     \/ \E id \in Id : BroadcastUpdate(id)
     \/ \E t \in Type : BroadcastLogUpdate(t)

Next ==
  \/ \E b \in Browser : BrowserStep(b) \/ \E s \in SocketsOf[b] : Open(b, s)
  \/ \E s \in Socket : Refuse(s) \/ Lose(s) \/ Receive(s)
  \/ \E r \in initial : InitialData(r)
  \/ ServerStep

\* React renders what changed, messages arrive and data is loaded; no user, timer or
\* network does anything it must.  Render is enabled while shown and connected
\* differ and makes them equal: its weak fairness is that they are equal again
\* and again.
Fairness ==
  /\ \A b \in Browser : []<>(shown[b] = connected[b])
  /\ \A s \in Socket : WF_vars(Receive(s))
  /\ WF_vars(\E r \in initial : InitialData(r))

Spec == Init /\ [][Next]_vars /\ Fairness

-----------------------------------------------------------------------------
(* Properties.                                                             *)

Listens(s, t) == \E id \in Id : id[1] = t /\ s \in watchers[id]

\* On the first connection of a page whose client's facilities need no loading,
\* as long as it lasts, what a mounted widget wants is in the end listened to:
\* whatever was mounted before the socket opened, and asked for in vain, is
\* asked for again when the connection shows (WebSocketContext.tsx:62-113).
FirstConnectionServed ==
  \A b \in Browser, t \in Type :
    (First(b) \notin Scoped /\ <<First(b), t>> \in Permitted) =>
      (<>[](/\ ws[b] = First(b) /\ readyState[First(b)] = "open"
            /\ t \in mounted[b] /\ clock <= MaxTime)
         => <>[]Listens(First(b), t))

\* websocket.service.ts:66: "Re-subscribe to all existing subscriptions (only if
\* not already subscribed)": what a widget wants on a connection that lasts, with
\* no other one scheduled, is in the end listened to, on a reconnection too.
ReconnectionServed ==
  \A b \in Browser, s \in Socket \ Scoped, t \in Type :
    <<s, t>> \in Permitted =>
      (<>[](/\ ws[b] = s /\ readyState[s] = "open" /\ connected[b] /\ timers[b] = 0
            /\ t \in mounted[b] /\ clock <= MaxTime)
         => <>[]Listens(s, t))

\* The sockets that are gone, and what they listen to and were promised, in the
\* words of UpdateFeed.
Dead == (Socket \ fresh) \ alive
Listening == {w \in Socket \X Type : Listens(w[1], w[2])}
Relies(s, t) == Registered(s) /\ \E id \in subs[s] : id[1] = t /\ Own(id)
Promised == {w \in Permitted : Relies(w[1], w[2])}

Feed == INSTANCE UpdateFeed WITH
  dead <- Dead, listening <- Listening, promised <- Promised

\* The service keeps UpdateFeed's promises: only an unsubscription, the socket's
\* end or a request of the same millisecond takes a confirmed subscription away,
\* and a socket that is gone is never listened for again.
FeedKept == Feed!FeedSpec
=============================================================================
