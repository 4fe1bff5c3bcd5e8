----------------------- MODULE Subscriptions_proofs -----------------------
(* What holds of the service of live updates for any number of sockets and *)
(* types, whatever its clients send.                                       *)
EXTENDS Subscriptions, TLAPS

USE SocketAssumption, PermittedAssumption, TypeAssumption, TimeAssumption, PacedAssumption

-----------------------------------------------------------------------------
(* Types.                                                                  *)

LEMMA InitType == ServerInit => ServerTypeOK
BY DEF ServerInit, ServerTypeOK, Idle, Id, Time

LEMMA WithoutType ==
  ASSUME ServerTypeOK, NEW gone, NEW ids
  PROVE  /\ WatchersWithout(gone, ids) \in [Id -> SUBSET Socket]
         /\ ContextWithout(gone, ids) \in [Id -> Socket \cup {None}]
BY DEF ServerTypeOK, WatchersWithout, ContextWithout

LEMMA RecordType ==
  ASSUME ServerTypeOK, NEW ws \in Socket, NEW id \in Id, Record(ws, id)
  PROVE  subs' \in [Socket -> SUBSET Id] /\ subscriptions' \subseteq Id
BY DEF ServerTypeOK, Record

LEMMA IdFacts ==
  ASSUME NEW id \in Id
  PROVE  id[1] \in Type /\ id[2] \in 0 .. MaxTime /\ id = <<id[1], id[2]>>
BY DEF Id, Time

LEMMA OriginType ==
  ASSUME ServerTypeOK, NEW told \in Id, NEW id \in Id, Generated(told, id) \/ Chosen(told, id)
  PROVE  clock' \in 0 .. MaxTime + 1 /\ told[1] = id[1]
BY IdFacts DEF Generated, Chosen, ServerTypeOK

LEMMA UseType ==
  ASSUME ServerTypeOK, NEW ids, Use(ids)
  PROVE  uses' \in [Id -> Nat]
BY DEF ServerTypeOK, Use

LEMMA StepType == ServerTypeOK /\ [ServerNext]_serverVars => ServerTypeOK'
<1> SUFFICES ASSUME ServerTypeOK, [ServerNext]_serverVars PROVE ServerTypeOK'
  OBVIOUS
<1> USE DEF ServerTypeOK
<1>1. ASSUME NEW ws \in Socket,
             HandleConnection(ws) \/ Register(ws) \/ RefuseClient(ws) \/ HangUp(ws)
      PROVE  ServerTypeOK'
  BY <1>1 DEF HandleConnection, Register, RefuseClient, HangUp
<1>2. ASSUME NEW ws \in Socket, HandleDisconnection(ws) PROVE ServerTypeOK'
  BY <1>2, WithoutType DEF HandleDisconnection
<1>3. ASSUME NEW ws \in Socket, NEW told \in Id, NEW id \in Id,
             Generated(told, id) \/ Chosen(told, id), HandleSubscription(ws, told, id)
      PROVE  ServerTypeOK'
  <2>1. [ws |-> ws, told |-> told, id |-> id, nth |-> uses[told]] \in Request
    BY DEF Request
  <2>2. clock' \in 0 .. MaxTime + 1 /\ uses' \in [Id -> Nat]
    BY <1>3, OriginType, UseType DEF HandleSubscription
  <2> QED
    BY <1>3, <2>1, <2>2 DEF HandleSubscription
<1>4. ASSUME NEW ws \in Socket, NEW told \in Id, NEW id \in Id,
             Generated(told, id) \/ Chosen(told, id), DenySubscription(ws, told)
      PROVE  ServerTypeOK'
  <2>1. clock' \in 0 .. MaxTime + 1 /\ uses' \in [Id -> Nat]
    BY <1>4, OriginType, UseType DEF DenySubscription
  <2> QED
    BY <1>4, <2>1, RecordType DEF DenySubscription
<1>5. ASSUME NEW ws \in Socket, NEW id \in Id, NEW type, HandleUnsubscription(ws, id, type)
      PROVE  ServerTypeOK'
  BY <1>5 DEF HandleUnsubscription
<1>6. ASSUME NEW r \in initial, InitialDataSent(r) PROVE ServerTypeOK'
  <2>1. r.ws \in Socket /\ r.told \in Id
    BY DEF Request
  <2> QED
    BY <1>6, <2>1, RecordType DEF InitialDataSent
<1>7. ASSUME NEW id \in Id, BroadcastUpdate(id) PROVE ServerTypeOK'
  BY <1>7 DEF BroadcastUpdate
<1>8. CASE LoadFails \/ Deliver
  BY <1>8, WithoutType DEF LoadFails, Deliver, Idle
<1>9. ASSUME NEW type, BroadcastLogUpdate(type) PROVE ServerTypeOK'
  BY <1>9, WithoutType DEF BroadcastLogUpdate
<1>10. CASE UNCHANGED serverVars
  BY <1>10 DEF serverVars
<1> QED
  BY <1>1, <1>2, <1>3, <1>4, <1>5, <1>6, <1>7, <1>8, <1>9, <1>10 DEF ServerNext

(* The service's tables keep their shape (websocket.service.ts,            *)
(* base-subscription-manager.ts).                                          *)
THEOREM ServerTypeCorrect == ServerSpec => []ServerTypeOK
BY InitType, StepType, PTL DEF ServerSpec

-----------------------------------------------------------------------------
(* Watchers and contexts.                                                  *)

LEMMA StepRegistered ==
  ServerTypeOK /\ WatchersRegistered /\ [ServerNext]_serverVars => WatchersRegistered'
<1> SUFFICES ASSUME ServerTypeOK, WatchersRegistered, [ServerNext]_serverVars
             PROVE  WatchersRegistered'
  OBVIOUS
<1> USE DEF ServerTypeOK, WatchersRegistered
<1>1. CASE watchers' = watchers /\ clients \subseteq clients'
  BY <1>1
<1>2. ASSUME NEW ws \in Socket, HandleDisconnection(ws) PROVE WatchersRegistered'
  BY <1>2 DEF HandleDisconnection, WatchersWithout
<1>3. ASSUME NEW ws \in Socket, NEW told \in Id, NEW id \in Id,
             HandleSubscription(ws, told, id)
      PROVE  WatchersRegistered'
  BY <1>3 DEF HandleSubscription, Registered
<1>4. ASSUME NEW ws \in Socket, NEW id \in Id, NEW type, HandleUnsubscription(ws, id, type)
      PROVE  WatchersRegistered'
  BY <1>4 DEF HandleUnsubscription
<1>5. ASSUME Deliver \/ \E type \in Type : BroadcastLogUpdate(type) PROVE WatchersRegistered'
  BY <1>5 DEF Deliver, BroadcastLogUpdate, WatchersWithout
<1> QED
  BY <1>1, <1>2, <1>3, <1>4, <1>5 DEF ServerNext, HandleConnection, Register, RefuseClient,
     HangUp, DenySubscription, InitialDataSent, BroadcastUpdate, LoadFails, serverVars

(* Whatever clients do, and whenever they leave, only registered clients   *)
(* are among the watchers (base-subscription-manager.ts:126-171).          *)
THEOREM WatchersAreRegistered == ServerSpec => []WatchersRegistered
<1>1. ServerInit => WatchersRegistered
  BY DEF ServerInit, WatchersRegistered
<1> QED
  BY <1>1, InitType, StepType, StepRegistered, PTL DEF ServerSpec

LEMMA WithoutContexts ==
  ASSUME ServerTypeOK, ContextsWatched, NEW gone, NEW ids,
         watchers' = WatchersWithout(gone, ids), context' = ContextWithout(gone, ids)
  PROVE  ContextsWatched'
<1> SUFFICES ASSUME NEW id \in Id, id[1] \notin Streaming, context'[id] # None
             PROVE  watchers'[id] # {}
  BY DEF ContextsWatched
<1>1. context[id] # None /\ context'[id] = context[id]
  BY DEF ContextWithout
<1>2. watchers[id] # {}
  BY <1>1 DEF ContextsWatched
<1>3. id \in ids => watchers[id] \cap gone = {} \/ ~(watchers[id] \subseteq gone)
  BY <1>1 DEF ContextWithout
<1> QED
  BY <1>2, <1>3 DEF WatchersWithout, ServerTypeOK

LEMMA StepContexts ==
  ServerTypeOK /\ ContextsWatched /\ [ServerNext]_serverVars => ContextsWatched'
<1> SUFFICES ASSUME ServerTypeOK, ContextsWatched, [ServerNext]_serverVars
             PROVE  ContextsWatched'
  OBVIOUS
<1> USE DEF ServerTypeOK, ContextsWatched
<1>1. CASE UNCHANGED <<watchers, context>>
  BY <1>1
<1>2. ASSUME NEW ws \in Socket, HandleDisconnection(ws) PROVE ContextsWatched'
  BY <1>2, WithoutContexts DEF HandleDisconnection
<1>3. ASSUME NEW ws \in Socket, NEW told \in Id, NEW id \in Id,
             HandleSubscription(ws, told, id)
      PROVE  ContextsWatched'
  BY <1>3 DEF HandleSubscription
<1>4. ASSUME NEW ws \in Socket, NEW id \in Id, NEW type, HandleUnsubscription(ws, id, type)
      PROVE  ContextsWatched'
  BY <1>4 DEF HandleUnsubscription
<1>5. CASE Deliver
  BY <1>5, WithoutContexts DEF Deliver
<1>6. ASSUME NEW type \in Type, BroadcastLogUpdate(type) PROVE ContextsWatched'
  <2> SUFFICES ASSUME NEW id \in Id, id[1] \notin Streaming, context[id] # None
               PROVE  watchers'[id] # {}
    BY <1>6 DEF BroadcastLogUpdate
  <2>1. id \notin {type} \X Time
    BY <1>6 DEF BroadcastLogUpdate
  <2> QED
    BY <1>6, <2>1 DEF BroadcastLogUpdate, WatchersWithout
<1> QED
  BY <1>1, <1>2, <1>3, <1>4, <1>5, <1>6 DEF ServerNext, HandleConnection, Register,
     RefuseClient, HangUp, DenySubscription, InitialDataSent, BroadcastUpdate, LoadFails,
     serverVars

(* The managers that load data for their watchers' clients keep no client  *)
(* for an id nobody watches any more (units-subscription-manager.ts:       *)
(* 157-184).                                                               *)
THEOREM ContextsAreWatched == ServerSpec => []ContextsWatched
<1>1. ServerInit => ContextsWatched
  BY DEF ServerInit, ContextsWatched
<1> QED
  BY <1>1, InitType, StepType, StepContexts, PTL DEF ServerSpec

-----------------------------------------------------------------------------
(* Ids of one request, whatever becomes of the others.                     *)

(* The service has told ws, or will when its initial data is loaded, that  *)
(* it is subscribed as id.                                                 *)
Told(ws, id) == id \in subs[ws] \/ \E r \in initial : r.ws = ws /\ r.told = id

(* Nobody watches an id no request has used.                               *)
UnusedUnwatched == \A id \in Id : uses[id] = 0 => watchers[id] = {}

(* An id belongs to the socket it is told to.                              *)
ToldOwn ==
  \A ws \in Socket, id \in Id :
    Told(ws, id) => uses[id] > 0 /\ (~Shared(id) => watchers[id] \subseteq {ws})

(* An id of one request is told once.                                      *)
ToldOnce ==
  /\ \A r, q \in initial : r.told = q.told /\ ~Shared(r.told) => r = q
  /\ \A r \in initial, ws \in Socket : r.told \in subs[ws] => Shared(r.told)

(* A socket that is not registered yet has asked for nothing.              *)
Newcomers ==
  /\ fresh \cap checking = {}
  /\ \A ws \in fresh \cup checking : ws \notin clients /\ \A id \in Id : ~Told(ws, id)

(* The broadcast under way computes the data of the one who watches.       *)
CastOwn ==
  \A id \in cast.at :
    uses[id] > 0 /\ (~Shared(id) => watchers[id] \subseteq {cast.client})

(* A subscription is watched under its own id, or under the one of the     *)
(* next millisecond, which is then told to nobody.                         *)
Watches(ws, id) ==
  \/ ws \in watchers[id]
  \/ /\ Later(id) \in Id
     /\ ws \in watchers[Later(id)]
     /\ \A other \in Socket : ~Told(other, Later(id))

Watched ==
  \A ws \in Socket, id \in Id :
    Registered(ws) /\ <<ws, id[1]>> \in Permitted /\ Told(ws, id) /\ Own(id)
      => Watches(ws, id)

IdInv ==
  /\ ServerTypeOK /\ UnusedUnwatched /\ ToldOwn /\ ToldOnce /\ Newcomers
  /\ WatchersServed /\ CastOwn /\ Watched

LEMMA InitIds == ServerInit => IdInv
<1> SUFFICES ASSUME ServerInit PROVE IdInv
  OBVIOUS
<1>1. \A ws \in Socket, id \in Id : ~Told(ws, id)
  BY DEF ServerInit, Told
<1>2. ServerTypeOK
  BY InitType
<1>3. UnusedUnwatched /\ WatchersServed
  BY DEF ServerInit, UnusedUnwatched, WatchersServed
<1>4. CastOwn
  BY DEF ServerInit, CastOwn, Idle
<1>5. ToldOnce
  BY DEF ServerInit, ToldOnce
<1> QED
  BY <1>1, <1>2, <1>3, <1>4, <1>5 DEF IdInv, ToldOwn, Newcomers, Watched, ServerInit

(* What becomes of what was told.                                          *)
LEMMA ToldSame ==
  ASSUME UNCHANGED <<subs, initial>>
  PROVE  \A ws, id : Told(ws, id)' <=> Told(ws, id)
BY DEF Told

LEMMA ToldSubscription ==
  ASSUME NEW ws \in Socket, NEW told \in Id, NEW id \in Id, HandleSubscription(ws, told, id)
  PROVE  \A w \in Socket, i \in Id : Told(w, i)' <=> Told(w, i) \/ (w = ws /\ i = told)
<1> DEFINE q == [ws |-> ws, told |-> told, id |-> id, nth |-> uses[told]]
<1>1. initial' = initial \cup {q} /\ subs' = subs
  BY DEF HandleSubscription
<1>2. q.ws = ws /\ q.told = told
  OBVIOUS
<1> HIDE DEF q
<1> QED
  BY <1>1, <1>2 DEF Told

LEMMA ToldDenial ==
  ASSUME ServerTypeOK, NEW ws \in Socket, NEW told \in Id, DenySubscription(ws, told)
  PROVE  \A w \in Socket, i \in Id : Told(w, i)' <=> Told(w, i) \/ (w = ws /\ i = told)
BY DEF DenySubscription, Record, Told, ServerTypeOK, Registered

LEMMA ToldInitial ==
  ASSUME ServerTypeOK, NEW r \in initial, InitialDataSent(r)
  PROVE  \A w \in Socket, i \in Id : Told(w, i)' => Told(w, i)
BY DEF InitialDataSent, Record, Told, ServerTypeOK

LEMMA ToldUnsubscription ==
  ASSUME ServerTypeOK, ToldOnce, NEW ws \in Socket, NEW id \in Id, NEW type,
         HandleUnsubscription(ws, id, type)
  PROVE  /\ \A w \in Socket, i \in Id : Told(w, i)' => Told(w, i)
         /\ ~Shared(id) => ~Told(ws, id)'
         /\ Told(ws, id)
BY DEF HandleUnsubscription, Told, ToldOnce, ServerTypeOK

LEMMA ToldDisconnection ==
  ASSUME ServerTypeOK, NEW ws \in Socket, HandleDisconnection(ws)
  PROVE  \A w \in Socket, i \in Id : Told(w, i)' => Told(w, i)
BY DEF HandleDisconnection, Told, ServerTypeOK

(* The steps that use no id, and only lose watchers.                       *)
Quiet ==
  /\ uses' = uses
  /\ \A id \in Id : watchers'[id] \subseteq watchers[id]
  /\ \A w \in Socket, i \in Id : Told(w, i)' => Told(w, i)

Silent ==
  \/ \E ws \in Socket :
       \/ HandleConnection(ws) \/ Register(ws) \/ RefuseClient(ws) \/ HangUp(ws)
       \/ HandleDisconnection(ws)
       \/ \E id \in Id, type \in Type \cup {None} : HandleUnsubscription(ws, id, type)
  \/ \E r \in initial : InitialDataSent(r)
  \/ \E id \in Id : BroadcastUpdate(id)
  \/ LoadFails \/ Deliver
  \/ \E type \in Type : BroadcastLogUpdate(type)
  \/ UNCHANGED serverVars

LEMMA SilentQuiet ==
  ASSUME IdInv, Silent
  PROVE  Quiet
<1>1. \A w \in Socket, i \in Id : Told(w, i)' => Told(w, i)
  <2>1. CASE UNCHANGED <<subs, initial>>
    BY <2>1, ToldSame
  <2>2. ASSUME NEW ws \in Socket, HandleDisconnection(ws)
        PROVE  \A w \in Socket, i \in Id : Told(w, i)' => Told(w, i)
    BY <2>2, ToldDisconnection DEF IdInv
  <2>3. ASSUME NEW ws \in Socket, NEW id \in Id, NEW type \in Type \cup {None},
               HandleUnsubscription(ws, id, type)
        PROVE  \A w \in Socket, i \in Id : Told(w, i)' => Told(w, i)
    BY <2>3, ToldUnsubscription DEF IdInv
  <2>4. ASSUME NEW r \in initial, InitialDataSent(r)
        PROVE  \A w \in Socket, i \in Id : Told(w, i)' => Told(w, i)
    BY <2>4, ToldInitial DEF IdInv
  <2> QED
    BY <2>1, <2>2, <2>3, <2>4 DEF Silent, HandleConnection, Register, RefuseClient, HangUp,
       BroadcastUpdate, LoadFails, Deliver, BroadcastLogUpdate, serverVars
<1>2. uses' = uses
  BY DEF Silent, HandleConnection, Register, RefuseClient, HangUp, HandleDisconnection,
     HandleUnsubscription, InitialDataSent, BroadcastUpdate, LoadFails, Deliver,
     BroadcastLogUpdate, serverVars
<1>3. \A id \in Id : watchers'[id] \subseteq watchers[id]
  <2>1. CASE \E ws \in Socket, id \in Id, type \in Type \cup {None} :
               HandleUnsubscription(ws, id, type)
    BY <2>1 DEF HandleUnsubscription, IdInv, ServerTypeOK
  <2>2. CASE \/ \E ws \in Socket : HandleDisconnection(ws)
             \/ Deliver
             \/ \E type \in Type : BroadcastLogUpdate(type)
    BY <2>2 DEF HandleDisconnection, Deliver, BroadcastLogUpdate, WatchersWithout
  <2>3. CASE UNCHANGED watchers
    BY <2>3
  <2> QED
    BY <2>1, <2>2, <2>3 DEF Silent, HandleConnection, Register, RefuseClient, HangUp,
       InitialDataSent, BroadcastUpdate, LoadFails, serverVars
<1> QED
  BY <1>1, <1>2, <1>3 DEF Quiet

LEMMA Steps ==
  ASSUME [ServerNext]_serverVars
  PROVE  \/ \E ws \in Socket, told, id \in Id : HandleSubscription(ws, told, id)
         \/ \E ws \in Socket, told \in Id : DenySubscription(ws, told)
         \/ Silent
BY DEF ServerNext, Silent

(* What a request does to the number of uses.                              *)
LEMMA UseCounts ==
  ASSUME ServerTypeOK, NEW ids, Use(ids)
  PROVE  \A i \in Id : /\ uses[i] \in Nat /\ uses'[i] \in Nat /\ uses'[i] >= uses[i]
                       /\ i \notin ids => uses'[i] = uses[i]
                       /\ i \in ids => uses'[i] > 0
                       /\ ~Shared(i)' => ~Shared(i)
                       /\ ~Shared(i)' /\ uses[i] > 0 => i \notin ids
                       /\ ~Shared(i)' /\ i \in ids => uses[i] = 0
BY DEF ServerTypeOK, Use, Shared

LEMMA RequestCounts ==
  ASSUME ServerTypeOK, NEW ws \in Socket, NEW told \in Id, NEW id \in Id,
         HandleSubscription(ws, told, id) \/ (DenySubscription(ws, told) /\ id = told)
  PROVE  \A i \in Id : /\ uses[i] \in Nat /\ uses'[i] \in Nat /\ uses'[i] >= uses[i]
                       /\ i \in {told, id} => uses'[i] > 0
                       /\ ~Shared(i)' => ~Shared(i)
                       /\ ~Shared(i)' /\ uses[i] > 0 => i # told /\ i # id
                       /\ ~Shared(i)' /\ i \in {told, id} => uses[i] = 0
<1>1. \/ Use({told, id})
      \/ Use({told}) /\ id = told
  BY DEF HandleSubscription, DenySubscription
<1>2. Use({told, id})
  BY <1>1
<1> QED
  BY <1>2, UseCounts

-----------------------------------------------------------------------------
(* Each part of the invariant.                                             *)

LEMMA StepUnused ==
  ASSUME IdInv, [ServerNext]_serverVars
  PROVE  UnusedUnwatched'
<1> USE DEF IdInv
<1>1. ASSUME NEW ws \in Socket, NEW told \in Id, NEW id \in Id,
             HandleSubscription(ws, told, id)
      PROVE  UnusedUnwatched'
  <2> SUFFICES ASSUME NEW i \in Id, uses'[i] = 0 PROVE watchers'[i] = {}
    BY DEF UnusedUnwatched
  <2>1. i # id /\ uses[i] = 0
    BY <1>1, RequestCounts
  <2>2. watchers'[i] = watchers[i]
    BY <1>1, <2>1 DEF HandleSubscription, ServerTypeOK
  <2> QED
    BY <2>1, <2>2 DEF UnusedUnwatched
<1>2. ASSUME NEW ws \in Socket, NEW told \in Id, DenySubscription(ws, told)
      PROVE  UnusedUnwatched'
  <2> SUFFICES ASSUME NEW i \in Id, uses'[i] = 0 PROVE watchers'[i] = {}
    BY DEF UnusedUnwatched
  <2>1. uses[i] = 0
    BY <1>2, RequestCounts
  <2> QED
    BY <1>2, <2>1 DEF UnusedUnwatched, DenySubscription
<1>3. CASE Silent
  BY <1>3, SilentQuiet DEF UnusedUnwatched, Quiet
<1> QED
  BY <1>1, <1>2, <1>3, Steps

LEMMA StepToldOwn ==
  ASSUME IdInv, [ServerNext]_serverVars
  PROVE  ToldOwn'
<1> USE DEF IdInv
<1>1. ASSUME NEW ws \in Socket, NEW told \in Id, NEW id \in Id,
             HandleSubscription(ws, told, id)
      PROVE  ToldOwn'
  <2> SUFFICES ASSUME NEW w \in Socket, NEW i \in Id, Told(w, i)'
               PROVE  uses'[i] > 0 /\ (~Shared(i)' => watchers'[i] \subseteq {w})
    BY DEF ToldOwn
  <2>1. watchers' = [watchers EXCEPT ![id] = @ \cup {ws}]
    BY <1>1 DEF HandleSubscription
  <2>2. CASE Told(w, i)
    <3>1. uses[i] > 0 /\ (~Shared(i) => watchers[i] \subseteq {w})
      BY <2>2 DEF ToldOwn
    <3>2. uses'[i] > 0
      BY <1>1, <3>1, RequestCounts
    <3>3. ASSUME ~Shared(i)' PROVE watchers'[i] \subseteq {w}
      <4>1. ~Shared(i) /\ i # id
        BY <1>1, <3>1, <3>3, RequestCounts
      <4>2. watchers'[i] = watchers[i]
        BY <2>1, <4>1 DEF ServerTypeOK
      <4> QED
        BY <3>1, <4>1, <4>2
    <3> QED
      BY <3>2, <3>3
  <2>3. CASE w = ws /\ i = told
    <3>1. uses'[i] > 0
      BY <1>1, <2>3, RequestCounts
    <3>2. ASSUME ~Shared(i)' PROVE watchers'[i] \subseteq {w}
      <4>1. uses[i] = 0
        BY <1>1, <2>3, <3>2, RequestCounts
      <4>2. watchers[i] = {}
        BY <4>1 DEF UnusedUnwatched
      <4>3. watchers'[i] \subseteq watchers[i] \cup {ws}
        BY <2>1 DEF ServerTypeOK
      <4> QED
        BY <2>3, <4>2, <4>3
    <3> QED
      BY <3>1, <3>2
  <2> QED
    BY <1>1, <2>2, <2>3, ToldSubscription
<1>2. ASSUME NEW ws \in Socket, NEW told \in Id, DenySubscription(ws, told) PROVE ToldOwn'
  <2> SUFFICES ASSUME NEW w \in Socket, NEW i \in Id, Told(w, i)'
               PROVE  uses'[i] > 0 /\ (~Shared(i)' => watchers'[i] \subseteq {w})
    BY DEF ToldOwn
  <2>0. watchers' = watchers
    BY <1>2 DEF DenySubscription
  <2>1. CASE Told(w, i)
    <3>1. uses[i] > 0 /\ (~Shared(i) => watchers[i] \subseteq {w})
      BY <2>1 DEF ToldOwn
    <3> QED
      BY <1>2, <2>0, <3>1, RequestCounts
  <2>2. CASE i = told
    <3>1. uses'[i] > 0 /\ (~Shared(i)' => uses[i] = 0)
      BY <1>2, <2>2, RequestCounts
    <3> QED
      BY <2>0, <3>1 DEF UnusedUnwatched
  <2> QED
    BY <1>2, <2>1, <2>2, ToldDenial
<1>3. CASE Silent
  BY <1>3, SilentQuiet DEF ToldOwn, Quiet, Shared
<1> QED
  BY <1>1, <1>2, <1>3, Steps

LEMMA StepToldOnce ==
  ASSUME IdInv, [ServerNext]_serverVars
  PROVE  ToldOnce'
<1> USE DEF IdInv
<1>0. \A r \in initial : r.ws \in Socket /\ r.told \in Id
  BY DEF ServerTypeOK, Request
<1>1. ASSUME NEW ws \in Socket, NEW told \in Id, NEW id \in Id,
             HandleSubscription(ws, told, id)
      PROVE  ToldOnce'
  <2> DEFINE q == [ws |-> ws, told |-> told, id |-> id, nth |-> uses[told]]
  <2>1. initial' = initial \cup {q} /\ subs' = subs
    BY <1>1 DEF HandleSubscription
  <2>2. q.told = told
    OBVIOUS
  <2>3. ASSUME ~Shared(told)' PROVE \A w \in Socket : ~Told(w, told)
    <3>1. uses[told] = 0
      BY <1>1, <2>3, RequestCounts
    <3> QED
      BY <3>1 DEF ToldOwn
  <2>4. ASSUME ~Shared(told)'
        PROVE  (\A r \in initial : r.told # told) /\ \A w \in Socket : told \notin subs[w]
    BY <1>0, <2>3, <2>4 DEF Told
  <2>5. \A r \in initial : ~Shared(r.told)' => ~Shared(r.told)
    BY <1>0, <1>1, RequestCounts
  <2> HIDE DEF q
  <2>6. ASSUME NEW r \in initial', NEW p \in initial', r.told = p.told, ~Shared(r.told)'
        PROVE  r = p
    BY <2>1, <2>2, <2>4, <2>5, <2>6 DEF ToldOnce
  <2>7. ASSUME NEW r \in initial', NEW w \in Socket, r.told \in subs'[w]
        PROVE  Shared(r.told)'
    BY <2>1, <2>2, <2>4, <2>5, <2>7 DEF ToldOnce
  <2> QED
    BY <2>6, <2>7 DEF ToldOnce
<1>2. ASSUME NEW ws \in Socket, NEW told \in Id, DenySubscription(ws, told) PROVE ToldOnce'
  <2>1. ASSUME ~Shared(told)' PROVE \A w \in Socket : ~Told(w, told)
    <3>1. uses[told] = 0
      BY <1>2, <2>1, RequestCounts
    <3> QED
      BY <3>1 DEF ToldOwn
  <2>2. ASSUME ~Shared(told)' PROVE \A r \in initial : r.told # told
    BY <1>0, <2>1, <2>2 DEF Told
  <2>3. initial' = initial /\ \A w \in Socket : subs'[w] \subseteq subs[w] \cup {told}
    BY <1>2 DEF DenySubscription, Record, ServerTypeOK
  <2>4. \A r \in initial : ~Shared(r.told)' => ~Shared(r.told)
    BY <1>0, <1>2, RequestCounts
  <2> QED
    BY <2>2, <2>3, <2>4 DEF ToldOnce
<1>3. ASSUME NEW r \in initial, InitialDataSent(r) PROVE ToldOnce'
  <2>1. /\ initial' = initial \ {r} /\ uses' = uses
        /\ \A w \in Socket : subs'[w] \subseteq subs[w] \cup {r.told}
    BY <1>3 DEF InitialDataSent, Record, ServerTypeOK
  <2> QED
    BY <2>1 DEF ToldOnce, Shared
<1>4. CASE initial' = initial /\ uses' = uses /\ \A w \in Socket : subs'[w] \subseteq subs[w]
  BY <1>4 DEF ToldOnce, Shared
<1>5. ASSUME NEW ws \in Socket, HandleDisconnection(ws) PROVE ToldOnce'
  BY <1>4, <1>5 DEF HandleDisconnection, ServerTypeOK
<1>6. ASSUME NEW ws \in Socket, NEW id \in Id, NEW type, HandleUnsubscription(ws, id, type)
      PROVE  ToldOnce'
  BY <1>4, <1>6 DEF HandleUnsubscription, ServerTypeOK
<1>7. CASE UNCHANGED <<initial, subs, uses>>
  BY <1>4, <1>7
<1> QED
  BY <1>1, <1>2, <1>3, <1>5, <1>6, <1>7, Steps DEF Silent, HandleConnection, Register,
     RefuseClient, HangUp, BroadcastUpdate, LoadFails, Deliver, BroadcastLogUpdate, serverVars

LEMMA StepNewcomers ==
  ASSUME IdInv, [ServerNext]_serverVars
  PROVE  Newcomers'
<1> USE DEF IdInv
<1>1. ASSUME NEW ws \in Socket, HandleConnection(ws) PROVE Newcomers'
  BY <1>1, ToldSame DEF HandleConnection, Newcomers, ServerTypeOK
<1>2. ASSUME NEW ws \in Socket, Register(ws) PROVE Newcomers'
  BY <1>2, ToldSame DEF Register, Newcomers, ServerTypeOK
<1>3. ASSUME NEW ws \in Socket, RefuseClient(ws) \/ HangUp(ws) PROVE Newcomers'
  BY <1>3, ToldSame DEF RefuseClient, HangUp, Newcomers, ServerTypeOK
<1>4. ASSUME UNCHANGED <<fresh, checking>>, clients' \subseteq clients,
             \A w \in Socket, i \in Id : Told(w, i)' => Told(w, i) \/ w \in clients
      PROVE  Newcomers'
  BY <1>4 DEF Newcomers, ServerTypeOK
<1>5. ASSUME NEW ws \in Socket, NEW told \in Id, NEW id \in Id,
             HandleSubscription(ws, told, id)
      PROVE  Newcomers'
  <2>1. ws \in clients /\ UNCHANGED <<fresh, checking, clients>>
    BY <1>5 DEF HandleSubscription, Registered
  <2> QED
    BY <1>4, <1>5, <2>1, ToldSubscription
<1>6. ASSUME NEW ws \in Socket, NEW told \in Id, DenySubscription(ws, told) PROVE Newcomers'
  <2>1. ws \in clients /\ UNCHANGED <<fresh, checking, clients>>
    BY <1>6 DEF DenySubscription, Registered
  <2> QED
    BY <1>4, <1>6, <2>1, ToldDenial
<1>7. CASE Silent
  <2>1. \A w \in Socket, i \in Id : Told(w, i)' => Told(w, i)
    BY <1>7, SilentQuiet DEF Quiet
  <2>2. \/ \E ws \in Socket : \/ HandleConnection(ws) \/ Register(ws)
                              \/ RefuseClient(ws) \/ HangUp(ws)
        \/ UNCHANGED <<fresh, checking>> /\ clients' \subseteq clients
    BY <1>7 DEF Silent, HandleDisconnection, HandleUnsubscription, InitialDataSent,
       BroadcastUpdate, LoadFails, Deliver, BroadcastLogUpdate, serverVars
  <2> QED
    BY <1>1, <1>2, <1>3, <1>4, <2>1, <2>2
<1> QED
  BY <1>5, <1>6, <1>7, Steps

LEMMA WithoutServed ==
  ASSUME ServerTypeOK, WatchersServed, NEW gone, NEW ids, uses' = uses,
         watchers' = WatchersWithout(gone, ids),
         context' = ContextWithout(gone, ids) \/ context' = context
  PROVE  WatchersServed'
<1> SUFFICES ASSUME NEW id \in Id, ~Shared(id), watchers'[id] # {}
             PROVE  watchers'[id] = {context'[id]}
  BY DEF WatchersServed, Shared
<1>1. watchers'[id] \subseteq watchers[id]
  BY DEF WatchersWithout
<1>2. watchers[id] = {context[id]}
  BY <1>1 DEF WatchersServed
<1>3. watchers'[id] = watchers[id]
  BY <1>1, <1>2
<1>4. id \in ids => watchers[id] \cap gone = {}
  BY <1>3 DEF WatchersWithout
<1>5. context'[id] = context[id]
  BY <1>4 DEF ContextWithout
<1> QED
  BY <1>2, <1>3, <1>5

LEMMA StepServed ==
  ASSUME IdInv, [ServerNext]_serverVars
  PROVE  WatchersServed'
<1> USE DEF IdInv
<1>1. ASSUME NEW ws \in Socket, NEW told \in Id, NEW id \in Id,
             HandleSubscription(ws, told, id)
      PROVE  WatchersServed'
  <2>1. /\ watchers' = [watchers EXCEPT ![id] = @ \cup {ws}]
        /\ context' = [context EXCEPT ![id] = ws]
    BY <1>1 DEF HandleSubscription
  <2> SUFFICES ASSUME NEW i \in Id, ~Shared(i)', watchers'[i] # {}
               PROVE  watchers'[i] = {context'[i]}
    BY DEF WatchersServed
  <2>2. CASE i = id
    <3>1. watchers[id] = {}
      BY <1>1, <2>2, RequestCounts DEF UnusedUnwatched
    <3>2. watchers'[id] = {ws} /\ context'[id] = ws
      BY <2>1, <3>1 DEF ServerTypeOK
    <3> QED
      BY <2>2, <3>2
  <2>3. CASE i # id
    <3>1. watchers'[i] = watchers[i] /\ context'[i] = context[i]
      BY <2>1, <2>3 DEF ServerTypeOK
    <3>2. ~Shared(i)
      BY <1>1, RequestCounts
    <3> QED
      BY <3>1, <3>2 DEF WatchersServed
  <2> QED
    BY <2>2, <2>3
<1>2. ASSUME NEW ws \in Socket, NEW told \in Id, DenySubscription(ws, told)
      PROVE  WatchersServed'
  <2>1. UNCHANGED <<watchers, context>> /\ \A i \in Id : ~Shared(i)' => ~Shared(i)
    BY <1>2, RequestCounts DEF DenySubscription
  <2> QED
    BY <2>1 DEF WatchersServed
<1>3. ASSUME NEW ws \in Socket, NEW id \in Id, NEW type, HandleUnsubscription(ws, id, type)
      PROVE  WatchersServed'
  <2>1. Told(ws, id) /\ uses' = uses
    BY <1>3 DEF HandleUnsubscription, Told
  <2>2. ~Shared(id) => watchers[id] \subseteq {ws}
    BY <2>1 DEF ToldOwn
  <2>3. CASE UNCHANGED <<watchers, context>>
    BY <2>1, <2>3 DEF WatchersServed, Shared
  <2>4. CASE /\ watchers' = [watchers EXCEPT ![id] = @ \ {ws}]
             /\ context' = [context EXCEPT ![id] = None]
    <3>1. ~Shared(id) => watchers'[id] = {}
      BY <2>2, <2>4 DEF ServerTypeOK
    <3>2. ASSUME NEW i \in Id, i # id
          PROVE  watchers'[i] = watchers[i] /\ context'[i] = context[i]
      BY <2>4, <3>2 DEF ServerTypeOK
    <3> QED
      BY <2>1, <3>1, <3>2 DEF WatchersServed, Shared
  <2> QED
    BY <1>3, <2>3, <2>4 DEF HandleUnsubscription
<1>4. ASSUME NEW ws \in Socket, HandleDisconnection(ws) PROVE WatchersServed'
  BY <1>4, WithoutServed DEF HandleDisconnection
<1>5. CASE Deliver
  BY <1>5, WithoutServed DEF Deliver
<1>6. ASSUME NEW type, BroadcastLogUpdate(type) PROVE WatchersServed'
  BY <1>6, WithoutServed DEF BroadcastLogUpdate
<1>7. CASE UNCHANGED <<watchers, context, uses>>
  BY <1>7 DEF WatchersServed, Shared
<1> QED
  BY <1>1, <1>2, <1>3, <1>4, <1>5, <1>6, <1>7, Steps DEF Silent, HandleConnection, Register,
     RefuseClient, HangUp, InitialDataSent, BroadcastUpdate, LoadFails, serverVars

LEMMA StepCastOwn ==
  ASSUME IdInv, [ServerNext]_serverVars
  PROVE  CastOwn'
<1> USE DEF IdInv
<1>0. cast.at \subseteq Id
  BY DEF ServerTypeOK
<1>1. ASSUME NEW ws \in Socket, NEW told \in Id, NEW id \in Id,
             HandleSubscription(ws, told, id) \/ (DenySubscription(ws, told) /\ id = told)
      PROVE  CastOwn'
  <2> SUFFICES ASSUME NEW i \in cast.at
               PROVE  uses'[i] > 0 /\ (~Shared(i)' => watchers'[i] \subseteq {cast.client})
    BY <1>1 DEF CastOwn, HandleSubscription, DenySubscription
  <2>1. i \in Id /\ uses[i] > 0 /\ (~Shared(i) => watchers[i] \subseteq {cast.client})
    BY <1>0 DEF CastOwn
  <2>2. uses'[i] > 0 /\ (~Shared(i)' => ~Shared(i) /\ i # id)
    BY <1>1, <2>1, RequestCounts
  <2>3. i # id => watchers'[i] = watchers[i]
    BY <1>1, <2>1 DEF HandleSubscription, DenySubscription, ServerTypeOK
  <2> QED
    BY <2>1, <2>2, <2>3
<1>2. ASSUME NEW id \in Id, BroadcastUpdate(id) PROVE CastOwn'
  <2>1. uses[id] > 0
    BY <1>2 DEF UnusedUnwatched, BroadcastUpdate, ServerTypeOK
  <2>2. ~Shared(id) => watchers[id] = {context[id]}
    BY <1>2 DEF BroadcastUpdate, WatchersServed
  <2>3. /\ cast' = [at |-> {id}, client |-> context[id]]
        /\ UNCHANGED <<watchers, uses>>
    BY <1>2 DEF BroadcastUpdate
  <2> QED
    BY <2>1, <2>2, <2>3 DEF CastOwn, Shared
<1>3. CASE LoadFails \/ Deliver
  BY <1>3 DEF LoadFails, Deliver, Idle, CastOwn
<1>4. CASE Quiet /\ cast' = cast
  BY <1>0, <1>4 DEF CastOwn, Quiet, Shared
<1>5. CASE Silent
  <2>1. Quiet
    BY <1>5, SilentQuiet
  <2>2. \/ \E id \in Id : BroadcastUpdate(id)
        \/ LoadFails \/ Deliver
        \/ cast' = cast
    BY <1>5 DEF Silent, HandleConnection, Register, RefuseClient, HangUp, HandleDisconnection,
       HandleUnsubscription, InitialDataSent, BroadcastLogUpdate, serverVars
  <2> QED
    BY <1>2, <1>3, <1>4, <2>1, <2>2
<1> QED
  BY <1>1, <1>5, Steps

(* A request takes no watcher away.                                        *)
LEMMA RequestWatched ==
  ASSUME IdInv, NEW ws \in Socket, NEW told \in Id, NEW id \in Id,
         HandleSubscription(ws, told, id) \/ (DenySubscription(ws, told) /\ id = told),
         NEW w \in Socket, NEW i \in Id, Told(w, i), Own(i)', Watches(w, i)
  PROVE  Watches(w, i)'
<1> USE DEF IdInv
<1>1. \A j \in Id : watchers[j] \subseteq watchers'[j]
  BY DEF HandleSubscription, DenySubscription, ServerTypeOK
<1>2. CASE w \in watchers[i]
  BY <1>1, <1>2 DEF Watches
<1>3. CASE /\ Later(i) \in Id
           /\ w \in watchers[Later(i)]
           /\ \A other \in Socket : ~Told(other, Later(i))
  <2>1. uses[Later(i)] # 0 /\ ~Shared(Later(i))'
    BY <1>3 DEF UnusedUnwatched, Own, Later
  <2>2. Later(i) # told
    BY <1>3, <2>1, RequestCounts
  <2>3. \A other \in Socket : ~Told(other, Later(i))'
    BY <1>3, <2>2, ToldSubscription, ToldDenial
  <2> QED
    BY <1>1, <1>3, <2>3 DEF Watches, Later
<1> QED
  BY <1>2, <1>3 DEF Watches

LEMMA OwnBefore ==
  ASSUME ServerTypeOK, NEW ws \in Socket, NEW told \in Id, NEW id \in Id,
         HandleSubscription(ws, told, id) \/ (DenySubscription(ws, told) /\ id = told),
         NEW i \in Id, Own(i)'
  PROVE  Own(i)
BY RequestCounts DEF Own, Later

LEMMA StepWatched ==
  ASSUME IdInv, [ServerNext]_serverVars
  PROVE  Watched'
<1> USE DEF IdInv
<1>1. ASSUME NEW ws \in Socket, NEW told \in Id, NEW id \in Id,
             Generated(told, id) \/ Chosen(told, id), HandleSubscription(ws, told, id)
      PROVE  Watched'
  <2> SUFFICES ASSUME NEW w \in Socket, NEW i \in Id, Registered(w),
                      <<w, i[1]>> \in Permitted, Told(w, i)', Own(i)'
               PROVE  Watches(w, i)'
    BY <1>1 DEF Watched, Registered, HandleSubscription
  <2>1. watchers' = [watchers EXCEPT ![id] = @ \cup {ws}]
    BY <1>1 DEF HandleSubscription
  <2>2. CASE Told(w, i)
    BY <1>1, <2>2, OwnBefore, RequestWatched DEF Watched
  <2>3. CASE w = ws /\ i = told
    <3>1. ws \in watchers'[id]
      BY <2>1 DEF ServerTypeOK
    <3>2. CASE id = told
      BY <2>3, <3>1, <3>2 DEF Watches
    <3>3. CASE id # told
      <4>1. id = Later(told)
        BY <1>1, <3>3, IdFacts DEF Generated, Chosen, Later
      <4>2. ~Shared(id)'
        BY <2>3, <4>1 DEF Own, Later
      <4>3. uses[id] = 0
        BY <1>1, <4>2, RequestCounts
      <4>4. \A other \in Socket : ~Told(other, id)
        BY <4>3 DEF ToldOwn
      <4>5. \A other \in Socket : ~Told(other, id)'
        BY <1>1, <3>3, <4>4, ToldSubscription
      <4> QED
        BY <2>3, <3>1, <4>1, <4>5 DEF Watches, Later
    <3> QED
      BY <3>2, <3>3
  <2> QED
    BY <1>1, <2>2, <2>3, ToldSubscription
<1>2. ASSUME NEW ws \in Socket, NEW told \in Id, DenySubscription(ws, told) PROVE Watched'
  <2> SUFFICES ASSUME NEW w \in Socket, NEW i \in Id, Registered(w),
                      <<w, i[1]>> \in Permitted, Told(w, i)', Own(i)'
               PROVE  Watches(w, i)'
    BY <1>2 DEF Watched, Registered, DenySubscription
  <2>1. Told(w, i)
    BY <1>2, ToldDenial DEF DenySubscription
  <2> QED
    BY <1>2, <2>1, OwnBefore, RequestWatched DEF Watched
<1>3. ASSUME NEW ws \in Socket, NEW id \in Id, NEW type, HandleUnsubscription(ws, id, type)
      PROVE  Watched'
  <2> SUFFICES ASSUME NEW w \in Socket, NEW i \in Id, Registered(w),
                      <<w, i[1]>> \in Permitted, Told(w, i)', Own(i)
               PROVE  Watches(w, i)'
    BY <1>3 DEF Watched, Registered, HandleUnsubscription, Own, Shared, Later
  <2>1. /\ \A v \in Socket, j \in Id : Told(v, j)' => Told(v, j)
        /\ ~Shared(id) => ~Told(ws, id)'
        /\ Told(ws, id)
    BY <1>3, ToldUnsubscription
  <2>2. \A v \in Socket, j \in Id :
          v \in watchers[j] /\ (v # ws \/ j # id) => v \in watchers'[j]
    BY <1>3 DEF HandleUnsubscription, ServerTypeOK
  <2>3. Told(w, i) /\ (w # ws \/ i # id)
    BY <2>1 DEF Own
  <2>4. CASE w \in watchers[i]
    BY <2>2, <2>3, <2>4 DEF Watches
  <2>5. CASE /\ Later(i) \in Id
             /\ w \in watchers[Later(i)]
             /\ \A other \in Socket : ~Told(other, Later(i))
    <3>1. Later(i) # id
      BY <2>1, <2>5
    <3>2. w \in watchers'[Later(i)]
      BY <2>2, <2>5, <3>1
    <3> QED
      BY <2>1, <2>5, <3>2 DEF Watches, Later
  <2> QED
    BY <2>3, <2>4, <2>5 DEF Watched, Watches
<1>4. ASSUME \A w \in Socket : Registered(w)' => Registered(w) \/ w \in fresh \cup checking,
             \A w \in Socket, i \in Id : Told(w, i)' => Told(w, i), uses' = uses,
             \A w \in Socket, i \in Id : Registered(w)' /\ w \in watchers[i] => w \in watchers'[i]
      PROVE  Watched'
  <2> SUFFICES ASSUME NEW w \in Socket, NEW i \in Id, Registered(w)',
                      <<w, i[1]>> \in Permitted, Told(w, i)', Own(i)
               PROVE  Watches(w, i)'
    BY <1>4 DEF Watched, Own, Shared, Later
  <2>1. Told(w, i) /\ Registered(w)
    BY <1>4 DEF Newcomers
  <2> QED
    BY <1>4, <2>1 DEF Watched, Watches, Later
<1>5. CASE Silent
  <2>1. Quiet
    BY <1>5, SilentQuiet
  <2>2. CASE \E ws \in Socket : HandleDisconnection(ws)
    BY <1>4, <2>1, <2>2 DEF HandleDisconnection, Registered, WatchersWithout, Quiet
  <2>3. CASE Deliver \/ \E type \in Type : BroadcastLogUpdate(type)
    BY <1>4, <2>1, <2>3 DEF Deliver, BroadcastLogUpdate, Registered, WatchersWithout, Quiet
  <2>4. CASE \E ws \in Socket : \/ HandleConnection(ws) \/ Register(ws)
                                \/ RefuseClient(ws) \/ HangUp(ws)
    BY <1>4, <2>1, <2>4 DEF HandleConnection, Register, RefuseClient, HangUp, Registered, Quiet
  <2>5. CASE UNCHANGED <<clients, alive, watchers>>
    BY <1>4, <2>1, <2>5 DEF Registered, Quiet
  <2> QED
    BY <1>3, <1>5, <2>2, <2>3, <2>4, <2>5 DEF Silent, InitialDataSent, BroadcastUpdate,
       LoadFails, serverVars
<1> QED
  BY <1>1, <1>2, <1>5 DEF ServerNext, Silent

-----------------------------------------------------------------------------
(* The invariant, and what it says.                                        *)

LEMMA StepIds == IdInv /\ [ServerNext]_serverVars => IdInv'
<1> SUFFICES ASSUME IdInv, [ServerNext]_serverVars PROVE IdInv'
  OBVIOUS
<1>1. ServerTypeOK'
  BY StepType DEF IdInv
<1>2. UnusedUnwatched' /\ ToldOwn' /\ ToldOnce' /\ Newcomers'
  BY StepUnused, StepToldOwn, StepToldOnce, StepNewcomers
<1>3. WatchersServed' /\ CastOwn' /\ Watched'
  BY StepServed, StepCastOwn, StepWatched
<1> QED
  BY <1>1, <1>2, <1>3 DEF IdInv

LEMMA IdInvariant == ServerSpec => []IdInv
BY InitIds, StepIds, PTL DEF ServerSpec

(* No broadcast skips the watcher of an id of one request for want of a    *)
(* client, whatever ids other requests share or choose                     *)
(* (units-subscription-manager.ts:110-114).                                *)
THEOREM WatchersAreServed == ServerSpec => []WatchersServed
<1>1. IdInv => WatchersServed
  BY DEF IdInv
<1> QED
  BY <1>1, IdInvariant, PTL

(* Under an id of one request nobody receives data computed for someone    *)
(* else, though the data is awaited between reading the client and reading *)
(* the watchers, whatever ids other requests share or choose               *)
(* (units-subscription-manager.ts:110-160).                                *)
THEOREM DataIsOwn == ServerSpec => []OwnData
<1>1. IdInv => OwnData
  BY DEF IdInv, CastOwn, OwnData
<1> QED
  BY <1>1, IdInvariant, PTL

(* A confirmed subscription that was not refused, of a connected client,   *)
(* is watched, unless another request shares its id                        *)
(* (websocket.service.ts:213-280).                                         *)
THEOREM ConfirmedAreWatched == ServerSpec => []ConfirmedWatched
<1>1. IdInv => ConfirmedWatched
  <2> SUFFICES ASSUME IdInv, NEW ws \in Socket, Registered(ws), NEW id \in subs[ws],
                      <<ws, id[1]>> \in Permitted, Own(id)
               PROVE  \E kept \in {id, Later(id)} \cap Id : ws \in watchers[kept]
    BY DEF ConfirmedWatched
  <2>1. id \in Id /\ Told(ws, id)
    BY DEF IdInv, ServerTypeOK, Told
  <2>2. Watches(ws, id)
    BY <2>1 DEF IdInv, Watched
  <2> QED
    BY <2>1, <2>2 DEF Watches
<1> QED
  BY <1>1, IdInvariant, PTL
=============================================================================
