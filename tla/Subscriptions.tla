--------------------------- MODULE Subscriptions ---------------------------
(* The live updates of the backend (services/websocket.service.ts and      *)
(* services/subscriptions/): a browser's socket subscribes to a type of    *)
(* update, a subscription manager keeps who watches which subscription id  *)
(* and for which client the data is computed, and a broadcast sends every  *)
(* watcher the data of its client.                                         *)
(*                                                                         *)
(* A subscription id is the type and the millisecond of the request        *)
(* (Date.now()), or what the client chose; the service reads the clock to  *)
(* record and answer the subscription and the manager reads it again to    *)
(* key its watchers.  An id here is a type and a name: that a client names *)
(* subscriptions of two types alike is left out.                           *)
EXTENDS Naturals, FiniteSets

CONSTANTS
  Socket,     \* the sockets browsers open, each of one user
  Scoped,     \* those of a user whose facilities are looked up on connection
  Type,       \* subscription types
  Streaming,  \* those whose updates are the same for everybody: logs
  Permitted,  \* <<socket, type>>: the user's role passes canSubscribe
  Paced,      \* TRUE: no two subscriptions share a millisecond
  MaxTime,    \* bound of the clock
  None        \* no client context; no type

ASSUME SocketAssumption == Scoped \subseteq Socket /\ None \notin Socket
ASSUME PermittedAssumption == Permitted \subseteq Socket \X Type
ASSUME TypeAssumption == Streaming \subseteq Type /\ None \notin Type
ASSUME TimeAssumption == MaxTime \in Nat
ASSUME PacedAssumption == Paced \in BOOLEAN

VARIABLES
  fresh,          \* sockets not yet connected
  alive,          \* sockets whose readyState is OPEN
  hungUp,         \* sockets whose close event has not been handled
  checking,       \* sockets whose user's facilities are being loaded
  clients,        \* sockets in the service's clients map
  subs,           \* client.subscriptions of each socket: the ids recorded
  subscriptions,  \* the service's own map of subscriptions: its ids
  watchers,       \* per id, the sockets that watch it
  context,        \* per id, the client whose data its watchers get
  initial,        \* subscriptions whose initial data is being loaded
  cast,           \* the broadcast under way: the id it has come to, its client
  clock,          \* the first millisecond no subscription has used
  uses            \* per id, the requests told it or kept under it: a history

serverVars == <<fresh, alive, hungUp, checking, clients, subs, subscriptions,
                watchers, context, initial, cast, clock, uses>>

Time == 0 .. MaxTime
Id == Type \X Time
Request == [ws : Socket, told : Id, id : Id, nth : Nat]
Idle == [at |-> {}, client |-> None]

ServerTypeOK ==
  /\ fresh \subseteq Socket /\ alive \subseteq Socket /\ hungUp \subseteq Socket
  /\ checking \subseteq Socket /\ clients \subseteq Socket
  /\ subs \in [Socket -> SUBSET Id]
  /\ subscriptions \subseteq Id
  /\ watchers \in [Id -> SUBSET Socket]
  /\ context \in [Id -> Socket \cup {None}]
  /\ initial \subseteq Request
  /\ cast \in [at : SUBSET Id, client : Socket \cup {None}]
  /\ clock \in 0 .. MaxTime + 1
  /\ uses \in [Id -> Nat]

ServerInit ==
  /\ fresh = Socket
  /\ alive = {} /\ hungUp = {} /\ checking = {} /\ clients = {}
  /\ subs = [ws \in Socket |-> {}]
  /\ subscriptions = {}
  /\ watchers = [id \in Id |-> {}]
  /\ context = [id \in Id |-> None]
  /\ initial = {}
  /\ cast = Idle
  /\ clock = 0
  /\ uses = [id \in Id |-> 0]

-----------------------------------------------------------------------------
(* Connections.                                                            *)

\* The handshake is done.  A global role is registered at once; of the others
\* the facilities are loaded first, and until then no listener is attached.
HandleConnection(ws) ==
  /\ ws \in fresh
  /\ fresh' = fresh \ {ws}
  /\ alive' = alive \cup {ws}
  /\ checking' = IF ws \in Scoped THEN checking \cup {ws} ELSE checking
  /\ clients' = IF ws \in Scoped THEN clients ELSE clients \cup {ws}
  /\ UNCHANGED <<hungUp, subs, subscriptions, watchers, context, initial, cast,
                 clock, uses>>

\* The facilities are there: the client is registered, whether or not its
\* socket is still open.
Register(ws) ==
  /\ ws \in checking
  /\ checking' = checking \ {ws}
  /\ clients' = clients \cup {ws}
  /\ UNCHANGED <<fresh, alive, hungUp, subs, subscriptions, watchers, context,
                 initial, cast, clock, uses>>

\* They could not be loaded: the socket is closed, nothing is registered.
RefuseClient(ws) ==
  /\ ws \in checking
  /\ checking' = checking \ {ws}
  /\ alive' = alive \ {ws}
  /\ UNCHANGED <<fresh, hungUp, clients, subs, subscriptions, watchers, context,
                 initial, cast, clock, uses>>

\* The socket is no longer open.  Its close event reaches the service only if
\* the listener is attached by then.
HangUp(ws) ==
  /\ ws \in alive
  /\ alive' = alive \ {ws}
  /\ hungUp' = IF ws \in clients THEN hungUp \cup {ws} ELSE hungUp
  /\ UNCHANGED <<fresh, checking, clients, subs, subscriptions, watchers,
                 context, initial, cast, clock, uses>>

\* What watchers and context become when the sockets of gone leave the ids of
\* ids: an id nobody watches is dropped with its context.
WatchersWithout(gone, ids) ==
  [id \in Id |-> IF id \in ids THEN watchers[id] \ gone ELSE watchers[id]]
\* Mutant: the client of an id nobody watches is kept.
ContextWithout_Kept(gone, ids) == context

ContextWithout(gone, ids) ==
  [id \in Id |-> IF id \in ids /\ watchers[id] \cap gone # {} /\ watchers[id] \subseteq gone
                   THEN None ELSE context[id]]

\* Mutant: only the recorded subscriptions are cleaned up.
HandleDisconnection_Recorded(ws) ==
  /\ ws \in hungUp
  /\ hungUp' = hungUp \ {ws}
  /\ clients' = clients \ {ws}
  /\ subs' = [subs EXCEPT ![ws] = {}]
  /\ subscriptions' = subscriptions \ subs[ws]
  /\ watchers' = WatchersWithout({ws}, subs[ws])
  /\ context' = ContextWithout({ws}, subs[ws])
  /\ UNCHANGED <<fresh, alive, checking, initial, cast, clock, uses>>

HandleDisconnection(ws) ==
  /\ ws \in hungUp
  /\ hungUp' = hungUp \ {ws}
  /\ clients' = clients \ {ws}
  /\ subs' = [subs EXCEPT ![ws] = {}]
  /\ subscriptions' = subscriptions \ subs[ws]
  /\ watchers' = WatchersWithout({ws}, Id)
  /\ context' = ContextWithout({ws}, Id)
  /\ UNCHANGED <<fresh, alive, checking, initial, cast, clock, uses>>

-----------------------------------------------------------------------------
(* Subscriptions.                                                          *)

Registered(ws) == ws \in clients \cap alive

\* The milliseconds a request may arrive in: later than all before it or, unless
\* they are Paced, in the last one a subscription used.
Arrives(time) == time = clock \/ (~Paced /\ time + 1 = clock)

\* Without an id in the request the service makes one, told, and the manager
\* another, id, in the same millisecond or the next.
Generated(told, id) ==
  /\ told[1] = id[1] /\ Arrives(told[2])
  /\ id[2] \in {told[2], told[2] + 1}
  /\ clock' = id[2] + 1

\* With one, both take it.  The repository's browser sends none.
Chosen(told, id) == told = id /\ clock' = clock

Use(ids) == uses' = [id \in Id |-> IF id \in ids THEN uses[id] + 1 ELSE uses[id]]

\* The client object of a socket that left is out of everyone's reach.
Record(ws, id) ==
  /\ subs' = IF ws \in clients THEN [subs EXCEPT ![ws] = @ \cup {id}] ELSE subs
  /\ subscriptions' = subscriptions \cup {id}

\* Mutant: the client is kept under the id the service will answer with.
HandleSubscription_Told(ws, told, id) ==
  /\ Registered(ws)
  /\ <<ws, id[1]>> \in Permitted
  /\ context' = [context EXCEPT ![told] = ws]
  /\ watchers' = [watchers EXCEPT ![id] = @ \cup {ws}]
  /\ initial' = initial \cup {[ws |-> ws, told |-> told, id |-> id, nth |-> uses[told]]}
  /\ Use({told, id})
  /\ UNCHANGED <<fresh, alive, hungUp, checking, clients, subs, subscriptions, cast>>

\* A permitted request: told is the id the service will answer with, id the
\* one the manager keys its watchers by.  All of it runs without an await; then
\* the initial data is loaded.
HandleSubscription(ws, told, id) ==
  /\ Registered(ws)
  /\ <<ws, id[1]>> \in Permitted
  /\ context' = [context EXCEPT ![id] = ws]
  /\ watchers' = [watchers EXCEPT ![id] = @ \cup {ws}]
  /\ initial' = initial \cup {[ws |-> ws, told |-> told, id |-> id, nth |-> uses[told]]}
  /\ Use({told, id})
  /\ UNCHANGED <<fresh, alive, hungUp, checking, clients, subs, subscriptions, cast>>

\* A refused one: the manager sends an error and returns false, the registry
\* returns true all the same, and the subscription is recorded and confirmed.
DenySubscription(ws, told) ==
  /\ Registered(ws)
  /\ <<ws, told[1]>> \notin Permitted
  /\ Record(ws, told)
  /\ Use({told})
  /\ UNCHANGED <<fresh, alive, hungUp, checking, clients, watchers, context,
                 initial, cast>>

\* The initial data is sent, or an error in its place: the subscription is
\* recorded and confirmed, even if the client left meanwhile.
InitialDataSent(r) ==
  /\ r \in initial
  /\ initial' = initial \ {r}
  /\ Record(r.ws, r.told)
  /\ UNCHANGED <<fresh, alive, hungUp, checking, clients, watchers, context, cast,
                 clock, uses>>

\* Mutants: the record is forgotten to be removed; the socket is taken out of
\* every id of the type.
HandleUnsubscription_Recorded(ws, id, type) ==
  /\ Registered(ws)
  /\ id \in subs[ws]
  /\ subscriptions' = subscriptions \ {id}
  /\ watchers' = IF type = id[1] THEN [watchers EXCEPT ![id] = @ \ {ws}] ELSE watchers
  /\ context' = IF type = id[1] THEN [context EXCEPT ![id] = None] ELSE context
  /\ UNCHANGED <<fresh, alive, hungUp, checking, clients, subs, initial, cast, clock, uses>>

HandleUnsubscription_Type(ws, id, type) ==
  /\ Registered(ws)
  /\ id \in subs[ws]
  /\ subs' = [subs EXCEPT ![ws] = @ \ {id}]
  /\ subscriptions' = subscriptions \ {id}
  /\ watchers' = WatchersWithout({ws}, {id[1]} \X Time)
  /\ context' = ContextWithout({ws}, {id[1]} \X Time)
  /\ UNCHANGED <<fresh, alive, hungUp, checking, clients, initial, cast, clock, uses>>

\* The record is removed.  The manager of the type the message names, if it
\* names the id's own, drops the watcher and, whoever else watches the id, its
\* context; no other manager knows the id.
HandleUnsubscription(ws, id, type) ==
  /\ Registered(ws)
  /\ id \in subs[ws]
  /\ subs' = [subs EXCEPT ![ws] = @ \ {id}]
  /\ subscriptions' = subscriptions \ {id}
  /\ watchers' = IF type = id[1] THEN [watchers EXCEPT ![id] = @ \ {ws}] ELSE watchers
  /\ context' = IF type = id[1] THEN [context EXCEPT ![id] = None] ELSE context
  /\ UNCHANGED <<fresh, alive, hungUp, checking, clients, initial, cast, clock, uses>>

-----------------------------------------------------------------------------
(* Broadcasts, one at a time.  broadcastUpdate goes through the ids watched *)
(* at its start; one that is watched no more has no context either          *)
(* (ContextsWatched) and is skipped.                                        *)

\* Its next id has a context: the client's data is loaded, which is awaited.
\* An id without a context is skipped.
BroadcastUpdate(id) ==
  /\ cast = Idle /\ id[1] \notin Streaming
  /\ watchers[id] # {} /\ context[id] # None
  /\ cast' = [at |-> {id}, client |-> context[id]]
  /\ UNCHANGED <<fresh, alive, hungUp, checking, clients, subs, subscriptions,
                 watchers, context, initial, clock, uses>>

\* The data cannot be loaded: the id is skipped.
LoadFails ==
  /\ cast.at # {}
  /\ cast' = Idle
  /\ UNCHANGED <<fresh, alive, hungUp, checking, clients, subs, subscriptions,
                 watchers, context, initial, clock, uses>>

\* Everyone who watches the id now gets the data; closed sockets are dropped.
Deliver ==
  /\ cast.at # {}
  /\ cast' = Idle
  /\ watchers' = WatchersWithout(Socket \ alive, cast.at)
  /\ context' = ContextWithout(Socket \ alive, cast.at)
  /\ UNCHANGED <<fresh, alive, hungUp, checking, clients, subs, subscriptions,
                 initial, clock, uses>>

\* An entry for everyone who watches logs, at once.  Closed sockets are dropped,
\* and the client of an id nobody watches any more is kept.
BroadcastLogUpdate(type) ==
  /\ type \in Streaming
  /\ watchers' = WatchersWithout(Socket \ alive, {type} \X Time)
  /\ UNCHANGED <<fresh, alive, hungUp, checking, clients, subs, subscriptions,
                 context, initial, cast, clock, uses>>

-----------------------------------------------------------------------------
ServerNext ==
  \/ \E ws \in Socket : \/ HandleConnection(ws) \/ Register(ws) \/ RefuseClient(ws)
                        \/ HangUp(ws) \/ HandleDisconnection(ws)
  \/ \E ws \in Socket, told, id \in Id :
       /\ Generated(told, id) \/ Chosen(told, id)
       /\ HandleSubscription(ws, told, id) \/ (DenySubscription(ws, told) /\ id = told)
  \/ \E ws \in Socket, id \in Id, type \in Type \cup {None} :
       HandleUnsubscription(ws, id, type)
  \/ \E r \in initial : InitialDataSent(r)
  \/ \E id \in Id : BroadcastUpdate(id)
  \/ LoadFails \/ Deliver
  \/ \E type \in Type : BroadcastLogUpdate(type)

\* The service with clients that send any subscription, by an id of their own or
\* not, and any unsubscription, at any time.
ServerSpec == ServerInit /\ [][ServerNext]_serverVars

-----------------------------------------------------------------------------
(* Properties.                                                             *)

\* A socket that watches an id is a registered client, so that its close event
\* will take it out: whatever a client does, leaving while its initial data is
\* loaded included, no dead socket stays among the watchers
\* (base-subscription-manager.ts:126-171).
WatchersRegistered == \A id \in Id : watchers[id] \subseteq clients

\* A client is kept for an id only while someone watches it: of the managers
\* that load data for their watchers' clients, no path that removes the last
\* watcher leaves the client behind.  The logs manager, which reads no client,
\* leaves it (base-subscription-manager.ts:148-171, units-subscription-manager.
\* ts:157-184).
ContextsWatched ==
  \A id \in Id : id[1] \notin Streaming /\ context[id] # None => watchers[id] # {}

\* Two requests have been told the id or are kept under it, by the millisecond
\* they share or by their clients' choice.
Shared(id) == uses[id] > 1

\* Every watched id of one request has the context of its one watcher, whatever
\* became of shared ids: no broadcast skips the watcher for want of a context
\* (units-subscription-manager.ts:110-114).
WatchersServed ==
  \A id \in Id : ~Shared(id) /\ watchers[id] # {} => watchers[id] = {context[id]}

\* What is received under an id of one request was computed for the client that
\* receives it, though the data was awaited between reading the context and
\* reading the watchers (units-subscription-manager.ts:110-160).
OwnData ==
  \A id \in cast.at : ~Shared(id) => watchers[id] \cap alive \subseteq {cast.client}

\* The millisecond after that of an id.
Later(id) == <<id[1], id[2] + 1>>
Own(id) == ~Shared(id) /\ (Later(id) \in Id => ~Shared(Later(id)))

\* A subscription the service has confirmed to a connected socket, and did not
\* refuse before, is watched under the id it was told or the next millisecond's,
\* unless one of them is shared: an unsubscription, a broadcast, another client's
\* leaving or what becomes of shared ids never silently ends it
\* (websocket.service.ts:213-250).
ConfirmedWatched ==
  \A ws \in Socket : Registered(ws) => \A id \in subs[ws] :
     <<ws, id[1]>> \in Permitted /\ Own(id) =>
        \E kept \in {id, Later(id)} \cap Id : ws \in watchers[kept]
=============================================================================
