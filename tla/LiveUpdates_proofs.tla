------------------------ MODULE LiveUpdates_proofs ------------------------
(* The service between its browsers does what the service alone does, and  *)
(* keeps the promises of UpdateFeed.                                       *)
EXTENDS LiveUpdates, Subscriptions_proofs, FiniteSetTheorems, SequenceTheorems

-----------------------------------------------------------------------------
(* Every step of the composition is one of the service's, or none.         *)

LEMMA StepServes == ServerTypeOK /\ [Next]_vars => [ServerNext]_serverVars
<1> SUFFICES ASSUME ServerTypeOK, Next PROVE [ServerNext]_serverVars
  BY DEF vars
<1>1. ASSUME NEW b \in Browser, BrowserStep(b) PROVE [ServerNext]_serverVars
  BY <1>1 DEF BrowserStep
<1>2. ASSUME NEW b \in Browser, NEW s \in SocketsOf[b], Open(b, s)
      PROVE  [ServerNext]_serverVars
  <2>1. s \in Socket
    BY BrowserAssumption DEF Sockets
  <2> QED
    BY <1>2, <2>1 DEF Open, ServerNext
<1>3. ASSUME NEW s \in Socket, Refuse(s) \/ Lose(s) PROVE [ServerNext]_serverVars
  BY <1>3 DEF Refuse, Lose, ServerNext
<1>4. ASSUME NEW s \in Socket, Receive(s) PROVE [ServerNext]_serverVars
  <2>1. CASE HangUp(s)
    BY <2>1 DEF ServerNext
  <2>2. ASSUME NEW told \in Id, NEW id \in Id, Generated(told, id),
               HandleSubscription(s, told, id) \/ (DenySubscription(s, told) /\ id = told)
        PROVE  ServerNext
    BY <2>2 DEF ServerNext
  <2>3. ASSUME NEW id \in subs[s], NEW type, HandleUnsubscription(s, id, type)
        PROVE  [ServerNext]_serverVars
    <3>1. id \in Id
      BY DEF ServerTypeOK
    <3>2. CASE type \in Type
      BY <2>3, <3>1, <3>2 DEF ServerNext
    <3>3. CASE type \notin Type
      <4>1. id[1] # type /\ id[1] # None
        BY <3>1, <3>3, IdFacts, TypeAssumption
      <4>2. HandleUnsubscription(s, id, None)
        BY <2>3, <4>1 DEF HandleUnsubscription
      <4> QED
        BY <3>1, <4>2 DEF ServerNext
    <3> QED
      BY <3>2, <3>3
  <2> QED
    BY <1>4, <2>1, <2>2, <2>3 DEF Receive
<1>5. ASSUME NEW r \in initial, InitialData(r) PROVE [ServerNext]_serverVars
  BY <1>5 DEF InitialData, ServerNext
<1>6. CASE ServerStep
  BY <1>6 DEF ServerStep, ServerNext
<1> QED
  BY <1>1, <1>2, <1>3, <1>4, <1>5, <1>6 DEF Next

(* The service is used as it is specified to be: what is proved of it      *)
(* alone holds of it among its browsers.                                   *)
THEOREM Serves == Spec => ServerSpec
<1>1. ServerTypeOK /\ [Next]_vars => ServerTypeOK'
  BY StepServes, StepType
<1>2. Init => ServerInit
  BY DEF Init
<1> QED
  BY <1>1, <1>2, InitType, StepServes, PTL DEF Spec, ServerSpec

(* Among its browsers too, no dead socket stays among the watchers         *)
(* (base-subscription-manager.ts:126-171).                                 *)
THEOREM WatchersStayRegistered == Spec => []WatchersRegistered
BY Serves, WatchersAreRegistered, PTL

(* Among its browsers too, no manager that loads data for its watchers'    *)
(* clients keeps one for an id nobody watches                              *)
(* (base-subscription-manager.ts:148-171).                                 *)
THEOREM ContextsStayWatched == Spec => []ContextsWatched
BY Serves, ContextsAreWatched, PTL

(* Among its browsers too, no broadcast skips the watcher of an id of one  *)
(* request, whatever requests of one millisecond do to the others          *)
(* (units-subscription-manager.ts:110-114).                                *)
THEOREM WatchersStayServed == Spec => []WatchersServed
BY Serves, WatchersAreServed, PTL

(* Among its browsers too, a confirmed subscription that was not refused   *)
(* is watched, unless its id is shared by requests of one millisecond      *)
(* (websocket.service.ts:213-280).                                         *)
THEOREM ConfirmedStayWatched == Spec => []ConfirmedWatched
BY Serves, ConfirmedAreWatched, PTL

-----------------------------------------------------------------------------
(* The promises of UpdateFeed.                                             *)

(* A socket connects once, and is gone when its close event is handled.    *)
Ended == fresh \cap alive = {} /\ hungUp \cap (fresh \cup alive) = {}

LEMMA StepEnded == ServerTypeOK /\ Ended /\ [ServerNext]_serverVars => Ended'
BY DEF Ended, ServerNext, serverVars, HandleConnection, Register, RefuseClient, HangUp,
   HandleDisconnection, HandleSubscription, DenySubscription, InitialDataSent,
   HandleUnsubscription, BroadcastUpdate, LoadFails, Deliver, BroadcastLogUpdate

LEMMA EndedAlways == ServerSpec => []Ended
<1>1. ServerInit => Ended
  BY DEF ServerInit, Ended
<1> QED
  BY <1>1, StepEnded, ServerTypeCorrect, PTL DEF ServerSpec

(* What is listened to changes with the watchers alone, and what is        *)
(* promised with the clients and their subscriptions.                      *)
LEMMA SameListening == watchers' = watchers => Listening' = Listening
BY DEF Listening, Listens

LEMMA SameOwn ==
  ASSUME uses' = uses
  PROVE  \A id : Own(id)' <=> Own(id)
BY DEF Own, Shared, Later

LEMMA SamePromised ==
  ASSUME \A s \in Socket, t \in Type : <<s, t>> \in Permitted => (Relies(s, t)' <=> Relies(s, t))
  PROVE  Promised' = Promised
BY PermittedAssumption DEF Promised

LEMMA Stutters ==
  ASSUME Dead' = Dead, Listening' = Listening, Promised' = Promised
  PROVE  [Feed!FeedNext]_Feed!feedVars
BY DEF Feed!feedVars

(* The steps of a connection.                                              *)
LEMMA FeedConnection ==
  ASSUME IdInv, Ended, NEW s \in Socket, HandleConnection(s) \/ Register(s)
  PROVE  [Feed!FeedNext]_Feed!feedVars
<1>1. Dead' = Dead
  BY DEF HandleConnection, Register, Dead, IdInv, ServerTypeOK, Ended
<1>2. Listening' = Listening
  BY SameListening DEF HandleConnection, Register
<1>3. Promised' = Promised
  <2>1. subs' = subs /\ \A other \in Socket : other # s => (Registered(other)' <=> Registered(other))
    BY DEF HandleConnection, Register, Registered
  <2>2. subs[s] = {}
    <3>1. \A id \in Id : ~Told(s, id)
      BY DEF HandleConnection, Register, IdInv, Newcomers
    <3> QED
      BY <3>1 DEF Told, IdInv, ServerTypeOK
  <2>3. uses' = uses
    BY DEF HandleConnection, Register
  <2> QED
    BY <2>1, <2>2, <2>3, SameOwn, SamePromised DEF Relies
<1> QED
  BY <1>1, <1>2, <1>3, Stutters

LEMMA FeedDeath ==
  ASSUME IdInv, Ended, NEW s \in Socket, RefuseClient(s) \/ HangUp(s)
  PROVE  Feed!FeedNext
<1>1. Dead' = Dead \cup {s}
  BY DEF RefuseClient, HangUp, Dead, IdInv, Newcomers, Ended
<1>2. Listening' = Listening
  BY SameListening DEF RefuseClient, HangUp
<1>3. Promised' = Promised \ ({s} \X Type)
  <2>1. subs' = subs /\ clients' = clients /\ alive' = alive \ {s} /\ uses' = uses
    BY DEF RefuseClient, HangUp
  <2> QED
    BY <2>1, SameOwn, PermittedAssumption DEF Promised, Relies, Registered
<1> QED
  BY <1>1, <1>2, <1>3 DEF Feed!FeedNext, Feed!Die

LEMMA FeedDisconnection ==
  ASSUME IdInv, Ended, NEW s \in Socket, HandleDisconnection(s)
  PROVE  Feed!FeedNext
<1> DEFINE gone == {w \in Listening : w[1] = s}
<1>1. Dead' = Dead /\ s \in Dead /\ ~Registered(s)
  BY DEF HandleDisconnection, Dead, Ended, Registered
<1>2. Listening' = Listening \ gone
  <2>1. \A id \in Id : watchers'[id] = watchers[id] \ {s}
    BY DEF HandleDisconnection, WatchersWithout
  <2> QED
    BY <2>1 DEF Listening, Listens
<1>3. Promised' = Promised
  <2>1. \A other \in Socket : Registered(other)' <=> Registered(other)
    BY <1>1 DEF HandleDisconnection, Registered
  <2>2. \A other \in Socket : other # s => subs'[other] = subs[other]
    BY DEF HandleDisconnection, IdInv, ServerTypeOK
  <2>3. uses' = uses
    BY DEF HandleDisconnection
  <2> QED
    BY <1>1, <2>1, <2>2, <2>3, SameOwn, SamePromised DEF Relies
<1>4. gone \in SUBSET Listening /\ \A w \in gone : w[1] \in Dead
  BY <1>1
<1> QED
  BY <1>1, <1>2, <1>3, <1>4 DEF Feed!FeedNext, Feed!Forget

(* The steps of a subscription.  A promise is lost only to a request that  *)
(* shares its id.                                                          *)
NothingShared == \A id \in Id : ~Shared(id)

LEMMA FeedLoss ==
  ASSUME IdInv, NEW s \in Socket, NEW told \in Id, NEW id \in Id, told[1] = id[1],
         HandleSubscription(s, told, id) \/ (DenySubscription(s, told) /\ id = told)
  PROVE  \E lost \in SUBSET Socket :
           /\ Promised' = Promised \ (lost \X {id[1]})
           /\ NothingShared' => lost = {}
<1> USE DEF IdInv
<1> DEFINE lost == {w \in Socket : <<w, id[1]>> \in Promised /\ <<w, id[1]>> \notin Promised'}
<1>1. \A w \in Socket : Registered(w)' <=> Registered(w)
  BY DEF HandleSubscription, DenySubscription, Registered
<1>2. \A i \in Id : i[1] # id[1] => (Own(i)' <=> Own(i))
  <2>1. \A i \in Id : i[1] # id[1] => uses'[i] = uses[i]
    BY DEF HandleSubscription, DenySubscription, Use, ServerTypeOK
  <2>2. \A i \in Id : Later(i) \in Id => Later(i)[1] = i[1]
    BY DEF Later
  <2> QED
    BY <2>1, <2>2 DEF Own, Shared, Later
<1>3. \A w \in Socket, t \in Type, i \in Id :
        <<w, t>> \in Permitted /\ i[1] = t => (i \in subs'[w] <=> i \in subs[w])
  BY DEF HandleSubscription, DenySubscription, Record, ServerTypeOK
<1>4. \A w \in Socket : \A i : i \in subs[w] \/ i \in subs'[w] => i \in Id
  BY DEF HandleSubscription, DenySubscription, Record, ServerTypeOK
<1>5. \A w \in Socket, t \in Type :
        <<w, t>> \in Permitted /\ t # id[1] => (Relies(w, t)' <=> Relies(w, t))
  BY <1>1, <1>2, <1>3, <1>4 DEF Relies
<1>6. \A i \in Id : Own(i)' => Own(i)
  BY OwnBefore
<1>7. \A w \in Socket, t \in Type : <<w, t>> \in Permitted /\ Relies(w, t)' => Relies(w, t)
  BY <1>1, <1>3, <1>4, <1>6 DEF Relies
<1>8. Promised' = Promised \ (lost \X {id[1]})
  BY <1>5, <1>7, PermittedAssumption DEF Promised
<1>9. ASSUME NothingShared' PROVE lost = {}
  <2>1. \A i \in Id : Own(i)'
    BY <1>9 DEF NothingShared, Own, Later
  <2>2. \A w \in Socket, t \in Type : <<w, t>> \in Permitted /\ Relies(w, t) => Relies(w, t)'
    BY <1>1, <1>3, <1>4, <2>1 DEF Relies
  <2> QED
    BY <2>2, PermittedAssumption DEF Promised
<1> HIDE DEF lost
<1>10. lost \in SUBSET Socket
  BY DEF lost
<1> QED
  BY <1>8, <1>9, <1>10

LEMMA FeedSubscription ==
  ASSUME IdInv, Paced => NothingShared', NEW s \in Socket, NEW told \in Id, NEW id \in Id,
         told[1] = id[1], HandleSubscription(s, told, id)
  PROVE  Feed!FeedNext
<1>1. Dead' = Dead /\ s \notin Dead /\ id[1] \in Type
  BY IdFacts DEF HandleSubscription, Dead, Registered
<1>2. Listening' = Listening \cup {<<s, id[1]>>}
  <2>1. \A i \in Id : watchers'[i] = IF i = id THEN watchers[i] \cup {s} ELSE watchers[i]
    BY DEF HandleSubscription, IdInv, ServerTypeOK
  <2>2. \A other \in Socket, t \in Type :
          Listens(other, t)' <=> Listens(other, t) \/ (other = s /\ t = id[1])
    BY <2>1 DEF Listens
  <2> QED
    BY <1>1, <2>2 DEF Listening
<1>3. PICK lost \in SUBSET Socket :
        /\ Promised' = Promised \ (lost \X {id[1]})
        /\ NothingShared' => lost = {}
  BY FeedLoss
<1>4. CASE Paced
  <2>1. Promised' = Promised
    BY <1>3, <1>4
  <2> QED
    BY <1>1, <1>2, <2>1 DEF Feed!FeedNext, Feed!Listen
<1>5. CASE ~Paced
  <2>1. Feed!Clash(s, id[1], lost)
    BY <1>1, <1>2, <1>3, <1>5 DEF Feed!Clash
  <2> QED
    BY <1>1, <2>1 DEF Feed!FeedNext
<1> QED
  BY <1>4, <1>5

LEMMA FeedDenial ==
  ASSUME IdInv, Paced => NothingShared', NEW s \in Socket, NEW told \in Id,
         DenySubscription(s, told)
  PROVE  [Feed!FeedNext]_Feed!feedVars
<1>1. Dead' = Dead /\ Listening' = Listening
  BY SameListening DEF DenySubscription, Dead
<1>2. told[1] \in Type /\ s \notin Dead
  BY IdFacts DEF DenySubscription, Dead, Registered
<1>3. PICK lost \in SUBSET Socket :
        /\ Promised' = Promised \ (lost \X {told[1]})
        /\ NothingShared' => lost = {}
  BY FeedLoss
<1>4. CASE Paced
  <2>1. Promised' = Promised
    BY <1>3, <1>4
  <2> QED
    BY <1>1, <2>1, Stutters
<1>5. CASE ~Paced
  <2>1. Feed!Clash(s, told[1], lost)
    BY <1>1, <1>2, <1>3, <1>5 DEF Feed!Clash
  <2> QED
    BY <1>2, <2>1 DEF Feed!FeedNext
<1> QED
  BY <1>4, <1>5

LEMMA FeedInitialData ==
  ASSUME IdInv, NEW r \in initial, InitialDataSent(r)
  PROVE  [Feed!FeedNext]_Feed!feedVars
<1> DEFINE pair == <<r.ws, r.told[1]>>
<1>1. r.ws \in Socket /\ r.told \in Id /\ Told(r.ws, r.told)
  BY DEF IdInv, ServerTypeOK, Request, Told
<1>2. Dead' = Dead /\ Listening' = Listening
  BY SameListening DEF InitialDataSent, Dead
<1>3. /\ \A other \in Socket : Registered(other)' <=> Registered(other)
      /\ \A other \in Socket : other # r.ws => subs'[other] = subs[other]
      /\ Registered(r.ws) => subs'[r.ws] = subs[r.ws] \cup {r.told}
      /\ \A id : Own(id)' <=> Own(id)
  BY <1>1, SameOwn DEF InitialDataSent, Record, Registered, IdInv, ServerTypeOK
<1>4. CASE Registered(r.ws) /\ pair \in Permitted /\ Own(r.told)
  <2>1. pair \in Listening
    <3>1. \E id \in Id : id[1] = r.told[1] /\ r.ws \in watchers[id]
      BY <1>1, <1>4 DEF IdInv, Watched, Watches, Later
    <3> QED
      BY <1>1, <3>1, IdFacts DEF Listening, Listens
  <2>2. \A other \in Socket, t \in Type :
          Relies(other, t)' <=> Relies(other, t) \/ (other = r.ws /\ t = r.told[1])
    BY <1>3, <1>4 DEF Relies
  <2>3. Promised' = Promised \cup {pair}
    BY <1>1, <1>4, <2>2, PermittedAssumption DEF Promised
  <2> QED
    BY <1>1, <1>2, <2>1, <2>3, IdFacts DEF Feed!FeedNext, Feed!Promise
<1>5. CASE ~(Registered(r.ws) /\ pair \in Permitted /\ Own(r.told))
  <2>1. \A other \in Socket, t \in Type :
          <<other, t>> \in Permitted => (Relies(other, t)' <=> Relies(other, t))
    BY <1>1, <1>3, <1>5 DEF Relies
  <2> QED
    BY <1>2, <2>1, SamePromised, Stutters
<1> QED
  BY <1>4, <1>5

(* The client may have been told of the type under another id: then it     *)
(* still watches that one, and nothing changes.                            *)
LEMMA FeedUnsubscription ==
  ASSUME IdInv, Watched', NEW s \in Socket, NEW id \in Id, NEW type,
         HandleUnsubscription(s, id, type)
  PROVE  [Feed!FeedNext]_Feed!feedVars
<1> DEFINE pair == <<s, id[1]>>
<1>1. Dead' = Dead /\ id[1] \in Type
  BY IdFacts DEF HandleUnsubscription, Dead
<1>2. Listening' \in {Listening, Listening \ {pair}}
  <2>1. \A i \in Id, o \in Socket :
          /\ o \in watchers'[i] => o \in watchers[i]
          /\ o # s \/ i # id => (o \in watchers'[i] <=> o \in watchers[i])
    BY DEF HandleUnsubscription, IdInv, ServerTypeOK
  <2>2. \A i \in Id : i[1] # id[1] => i # id
    OBVIOUS
  <2>3. \A other \in Socket, t \in Type :
          other # s \/ t # id[1] => (Listens(other, t)' <=> Listens(other, t))
    BY <2>1, <2>2 DEF Listens
  <2>4. Listens(s, id[1])' => Listens(s, id[1])
    BY <2>1 DEF Listens
  <2> QED
    BY <1>1, <2>3, <2>4 DEF Listening
<1>3. Promised' \in {Promised, Promised \ {pair}}
  <2>1. /\ \A other \in Socket : Registered(other)' <=> Registered(other)
        /\ \A other \in Socket : other # s => subs'[other] = subs[other]
        /\ subs'[s] = subs[s] \ {id}
        /\ \A i : Own(i)' <=> Own(i)
    BY SameOwn DEF HandleUnsubscription, Registered, IdInv, ServerTypeOK
  <2>2. \A other \in Socket, t \in Type :
          other # s \/ t # id[1] => (Relies(other, t)' <=> Relies(other, t))
    BY <2>1 DEF Relies
  <2>3. Relies(s, id[1])' => Relies(s, id[1])
    BY <2>1 DEF Relies
  <2> QED
    BY <1>1, <2>2, <2>3, PermittedAssumption DEF Promised
<1>4. CASE pair \in Promised'
  <2>1. PICK i \in subs'[s] : i[1] = id[1] /\ Own(i)'
    BY <1>4 DEF Promised, Relies
  <2>2. i \in subs[s] /\ i \in Id /\ Registered(s)' /\ pair \in Permitted
    BY <1>4, <2>1 DEF HandleUnsubscription, IdInv, ServerTypeOK, Promised, Relies
  <2>3. Told(s, i)'
    BY <2>1 DEF Told
  <2>4. \E kept \in Id : kept[1] = id[1] /\ s \in watchers'[kept]
    BY <2>1, <2>2, <2>3 DEF Watched, Watches, Later
  <2>5. pair \in Listening'
    BY <1>1, <2>4 DEF Listening, Listens
  <2> QED
    BY <1>1, <1>2, <1>3, <1>4, <2>5, Stutters
<1>5. CASE pair \notin Promised'
  <2>1. Promised' = Promised \ {pair}
    BY <1>3, <1>5
  <2> QED
    BY <1>1, <1>2, <2>1 DEF Feed!FeedNext, Feed!Withdraw
<1> QED
  BY <1>4, <1>5

(* A broadcast drops the watchers whose sockets are closed.                *)
LEMMA FeedDelivery ==
  ASSUME IdInv, WatchersRegistered, NEW type, Deliver \/ BroadcastLogUpdate(type)
  PROVE  Feed!FeedNext
<1> DEFINE gone == {w \in Listening : ~Listens(w[1], w[2])'}
<1>1. Dead' = Dead /\ Promised' = Promised
  <2>1. UNCHANGED <<fresh, alive, clients, subs, uses>>
    BY DEF Deliver, BroadcastLogUpdate
  <2> QED
    BY <2>1, SameOwn, SamePromised DEF Dead, Relies, Registered
<1>2. \A i \in Id : /\ watchers'[i] \subseteq watchers[i]
                    /\ watchers[i] \cap alive \subseteq watchers'[i]
  BY DEF Deliver, BroadcastLogUpdate, WatchersWithout, IdInv, ServerTypeOK
<1>3. Listening' = Listening \ gone
  BY <1>2 DEF Listening, Listens
<1>4. \A w \in gone : w[1] \in Dead
  <2> SUFFICES ASSUME NEW w \in gone PROVE w[1] \in Dead
    OBVIOUS
  <2>1. PICK i \in Id : i[1] = w[2] /\ w[1] \in watchers[i]
    BY DEF Listening, Listens
  <2>2. w[1] \notin alive
    BY <1>2, <2>1 DEF Listens
  <2>3. w[1] \in clients /\ w[1] \in Socket
    BY <2>1 DEF WatchersRegistered, IdInv, ServerTypeOK
  <2>4. w[1] \notin fresh
    BY <2>3 DEF IdInv, Newcomers
  <2> QED
    BY <2>2, <2>3, <2>4 DEF Dead
<1> QED
  BY <1>1, <1>3, <1>4 DEF Feed!FeedNext, Feed!Forget

LEMMA FeedStep ==
  ASSUME IdInv, Watched', WatchersRegistered, Ended, Paced => NothingShared',
         [ServerNext]_serverVars
  PROVE  [Feed!FeedNext]_Feed!feedVars
<1>1. ASSUME (\E id \in Id : BroadcastUpdate(id)) \/ LoadFails \/ UNCHANGED serverVars
      PROVE  [Feed!FeedNext]_Feed!feedVars
  <2>1. UNCHANGED <<fresh, alive, clients, subs, watchers, uses>>
    BY <1>1 DEF BroadcastUpdate, LoadFails, serverVars
  <2>2. Dead' = Dead /\ Listening' = Listening /\ Promised' = Promised
    BY <2>1, SameListening, SameOwn DEF Dead, Promised, Relies, Registered
  <2> QED
    BY <2>2, Stutters
<1>2. ASSUME NEW told \in Id, NEW id \in Id, Generated(told, id) \/ Chosen(told, id)
      PROVE  told[1] = id[1]
  BY <1>2 DEF Generated, Chosen
<1> QED
  BY <1>1, <1>2, FeedConnection, FeedDeath, FeedDisconnection, FeedSubscription, FeedDenial,
     FeedInitialData, FeedUnsubscription, FeedDelivery DEF ServerNext

LEMMA FeedStart == ServerInit => Feed!FeedInit
BY PermittedAssumption
   DEF ServerInit, Feed!FeedInit, Dead, Listening, Listens, Promised, Relies, Registered

(* When no two of its browsers' requests share a millisecond, no id is     *)
(* shared.                                                                 *)
UsedOnce == \A id \in Id : uses[id] <= 1 /\ (uses[id] > 0 => id[2] < clock)

LEMMA GeneratedOnce ==
  ASSUME Paced, ServerTypeOK, UsedOnce, NEW told \in Id, NEW id \in Id, Generated(told, id),
         Use({told, id})
  PROVE  UsedOnce'
<1> SUFFICES ASSUME NEW i \in Id PROVE uses'[i] <= 1 /\ (uses'[i] > 0 => i[2] < clock')
  BY DEF UsedOnce
<1>1. /\ i[2] \in Nat /\ clock \in Nat /\ uses[i] \in Nat
      /\ uses[i] <= 1 /\ (uses[i] > 0 => i[2] < clock)
  BY IdFacts DEF ServerTypeOK, UsedOnce
<1>2. told[2] = clock /\ id[2] \in {clock, clock + 1} /\ clock' = id[2] + 1
  BY DEF Generated, Arrives
<1>3. uses'[i] = IF i \in {told, id} THEN uses[i] + 1 ELSE uses[i]
  BY DEF Use
<1>4. CASE i \in {told, id}
  <2>1. i[2] \in {clock, clock + 1} /\ i[2] < clock'
    BY <1>1, <1>2, <1>4
  <2>2. uses[i] = 0
    BY <1>1, <2>1
  <2> QED
    BY <1>3, <1>4, <2>1, <2>2
<1>5. CASE i \notin {told, id}
  BY <1>1, <1>2, <1>3, <1>5
<1> QED
  BY <1>4, <1>5

LEMMA StepUsedOnce ==
  ASSUME Paced, ServerTypeOK, UsedOnce, [Next]_vars
  PROVE  UsedOnce'
<1>1. \/ \E told, id \in Id : Generated(told, id) /\ Use({told, id})
      \/ UNCHANGED <<uses, clock>>
  <2>1. ASSUME NEW s \in Socket, Receive(s)
        PROVE  \/ \E told, id \in Id : Generated(told, id) /\ Use({told, id})
               \/ UNCHANGED <<uses, clock>>
    <3>1. CASE \E told, id \in Id :
                 /\ Generated(told, id)
                 /\ HandleSubscription(s, told, id) \/ (DenySubscription(s, told) /\ id = told)
      <4>1. PICK told, id \in Id :
                 /\ Generated(told, id)
                 /\ HandleSubscription(s, told, id) \/ (DenySubscription(s, told) /\ id = told)
        BY <3>1
      <4>2. {told, id} = {told} \/ id # told
        OBVIOUS
      <4>3. Use({told, id})
        BY <4>1, <4>2 DEF HandleSubscription, DenySubscription
      <4> QED
        BY <4>1, <4>3
    <3>2. CASE HangUp(s) \/ UNCHANGED serverVars
               \/ \E id \in Id, type \in Type : HandleUnsubscription(s, id, type)
      BY <3>2 DEF HangUp, serverVars, HandleUnsubscription
    <3>3. CASE HandleUnsubscription(s, Head(up[s]).id, Head(up[s]).type)
      BY <3>3 DEF HandleUnsubscription
    <3> QED
      BY <2>1, <3>1, <3>2, <3>3 DEF Receive
  <2>2. CASE ServerStep
    BY <2>2 DEF ServerStep, Register, HandleDisconnection, LoadFails, Deliver,
       BroadcastUpdate, BroadcastLogUpdate
  <2>3. ASSUME NEW b \in Browser, BrowserStep(b) \/ \E s \in SocketsOf[b] : Open(b, s)
        PROVE  UNCHANGED <<uses, clock>>
    BY <2>3 DEF BrowserStep, Open, HandleConnection, serverVars
  <2>4. ASSUME NEW s \in Socket, Refuse(s) \/ Lose(s) PROVE UNCHANGED <<uses, clock>>
    BY <2>4 DEF Refuse, Lose, RefuseClient, HangUp, serverVars
  <2>5. ASSUME NEW r \in initial, InitialData(r) PROVE UNCHANGED <<uses, clock>>
    BY <2>5 DEF InitialData, InitialDataSent
  <2>6. CASE UNCHANGED vars
    BY <2>6 DEF vars, serverVars
  <2> QED
    BY <2>1, <2>2, <2>3, <2>4, <2>5, <2>6 DEF Next
<1>2. CASE UNCHANGED <<uses, clock>>
  BY <1>2 DEF UsedOnce
<1> QED
  BY <1>1, <1>2, GeneratedOnce

LEMMA UsedOnceAlways == Spec => [](Paced => UsedOnce)
<1>1. Init => UsedOnce
  BY DEF Init, ServerInit, UsedOnce
<1>2. ServerTypeOK /\ (Paced => UsedOnce) /\ [Next]_vars => (Paced => UsedOnce)'
  BY StepUsedOnce
<1> QED
  BY <1>1, <1>2, Serves, ServerTypeCorrect, PTL DEF Spec

(* The service keeps the promises of UpdateFeed among its browsers: a      *)
(* confirmed subscription ends with its unsubscription, with its socket or *)
(* with a request of the same millisecond only, and nobody listens for a   *)
(* dead socket (websocket.service.ts:213-339).                             *)
THEOREM FeedIsKept == Spec => FeedKept
<1>1. IdInv /\ IdInv' => Watched'
  BY DEF IdInv
<1>2. ServerTypeOK' /\ (Paced => UsedOnce)' => (Paced => NothingShared')
  BY DEF UsedOnce, NothingShared, Shared, ServerTypeOK
<1>3. IdInv /\ Watched' /\ WatchersRegistered /\ Ended /\ (Paced => NothingShared')
        /\ [ServerNext]_serverVars
        => [Feed!FeedNext]_Feed!feedVars
  BY FeedStep
<1> QED
  BY <1>1, <1>2, <1>3, FeedStart, Serves, IdInvariant, WatchersAreRegistered, EndedAlways,
     UsedOnceAlways, ServerTypeCorrect, PTL DEF FeedKept, ServerSpec, Feed!FeedSpec

-----------------------------------------------------------------------------
(* Browsers and channels keep to their types.                              *)

(* The ids a browser may have, and what subscribe and unsubscribe keep.    *)
AnyId == Id \cup {NoId, TempId}
Books == [subs : SUBSET Type, ids : [Type -> AnyId], sent : Seq(Message)]

(* A finite set is put in some order.                                      *)
LEMMA OrderType ==
  ASSUME NEW S, IsFiniteSet(S)
  PROVE  SetToSeq(S) \in Seq(S)
<1> DEFINE n == Cardinality(S)
<1>1. n \in Nat /\ ExistsBijection(1 .. n, S)
  BY FS_CardinalityType
<1>2. \E f \in [1 .. n -> S] : IsInjective(f)
  BY <1>1 DEF ExistsBijection, Bijection, Injection
<1>3. SetToSeq(S) \in [1 .. n -> S]
  BY <1>2 DEF SetToSeq
<1> QED
  BY <1>1, <1>3, IsASeq

LEMMA MessagesType ==
  ASSUME NEW kind \in {"subscription", "unsubscription"}, NEW ts \in SUBSET Type,
         NEW ids, \A t \in ts : ids[t] \in AnyId
  PROVE  Messages(kind, ids, ts) \in Seq(Message)
<1> DEFINE order == SetToSeq(ts)
<1>1. IsFiniteSet(ts)
  BY BrowserAssumption, FS_Subset
<1>2. order \in Seq(ts)
  BY <1>1, OrderType
<1>3. Len(order) \in Nat /\ \A i \in 1 .. Len(order) : order[i] \in ts
  BY <1>2, LenProperties, ElementOfSeq
<1> HIDE DEF order
<1>4. [i \in 1 .. Len(order) |-> [kind |-> kind, type |-> order[i], id |-> ids[order[i]]]]
        \in Seq(Message)
  <2>1. \A i \in 1 .. Len(order) :
          [kind |-> kind, type |-> order[i], id |-> ids[order[i]]] \in Message
    BY <1>3 DEF Message, AnyId
  <2> QED
    BY <1>3, <2>1, IsASeq
<1> QED
  BY <1>4 DEF Messages, order

LEMMA SubscribeType ==
  ASSUME NEW ts \in SUBSET Type, NEW rec \in Books
  PROVE  Subscribe(ts, rec) \in Books /\ Unsubscribe(ts, rec) \in Books
<1>1. ASSUME NEW new \in SUBSET ts
      PROVE  rec.sent \o Messages("subscription", [t \in new |-> NoId], new) \in Seq(Message)
  <2>1. Messages("subscription", [t \in new |-> NoId], new) \in Seq(Message)
    BY MessagesType DEF AnyId
  <2> QED
    BY <2>1, ConcatProperties DEF Books
<1>2. ASSUME NEW known \in SUBSET ts
      PROVE  rec.sent \o Messages("unsubscription", rec.ids, known) \in Seq(Message)
  <2>1. Messages("unsubscription", rec.ids, known) \in Seq(Message)
    BY MessagesType DEF Books
  <2> QED
    BY <2>1, ConcatProperties DEF Books
<1>3. Subscribe(ts, rec) \in Books
  BY <1>1 DEF Subscribe, Books, AnyId
<1>4. Unsubscribe(ts, rec) \in Books
  BY <1>2 DEF Unsubscribe, Books, AnyId
<1> QED
  BY <1>3, <1>4

LEMMA KnownType ==
  ASSUME ClientTypeOK, NEW b \in Browser
  PROVE  Known(b) \in Books
  BY EmptySeq DEF ClientTypeOK, Known, Books, AnyId

LEMMA AdoptType ==
  ASSUME ClientTypeOK, NEW b \in Browser, NEW rec \in Books, Adopt(b, rec)
  PROVE  /\ subscribed' \in [Browser -> SUBSET Type]
         /\ subscriptionIds' \in [Browser -> [Type -> AnyId]]
  BY DEF ClientTypeOK, Adopt, Books, AnyId

LEMMA UpType ==
  ASSUME ClientTypeOK, NEW s \in Sockets, NEW q \in Seq(Message)
  PROVE  /\ [up EXCEPT ![s] = @ \o q] \in [Sockets -> Seq(Message)]
         /\ [up EXCEPT ![s] = Append(@, [kind |-> "close"])] \in [Sockets -> Seq(Message)]
<1>1. up[s] \o q \in Seq(Message)
  BY ConcatProperties DEF ClientTypeOK
<1>2. [kind |-> "close"] \in Message
  BY DEF Message
<1>3. Append(up[s], [kind |-> "close"]) \in Seq(Message)
  BY <1>2, AppendProperties DEF ClientTypeOK
<1> QED
  BY <1>1, <1>3 DEF ClientTypeOK

LEMMA SendType ==
  ASSUME ClientTypeOK, NEW b \in Browser, NEW rec \in Books, Send(b, rec)
  PROVE  up' \in [Sockets -> Seq(Message)]
<1>1. IsOpen(b) => ws[b] \in Sockets
  BY DEF IsOpen, ClientTypeOK
<1>2. rec.sent \in Seq(Message)
  BY DEF Books
<1> QED
  BY <1>1, <1>2, UpType DEF Send, ClientTypeOK

LEMMA AttemptsReset ==
  ASSUME ClientTypeOK, NEW b
  PROVE  [reconnectAttempts EXCEPT ![b] = 0] \in [Browser -> 0 .. MaxAttempts]
<1>1. 0 \in 0 .. MaxAttempts
  BY BrowserAssumption
<1> QED
  BY <1>1 DEF ClientTypeOK

LEMMA ConnectType ==
  ASSUME ClientTypeOK, NEW b \in Browser, NEW held, Connect(b, held)
  PROVE  /\ ws' \in [Browser -> Sockets \cup {NoSocket}]
         /\ readyState' \in [Sockets -> {"unused", "connecting", "open", "closing", "quitting", "closed"}]
         /\ up' \in [Sockets -> Seq(Message)]
<1> DEFINE closed == IF ws[b] # NoSocket /\ readyState[ws[b]] \in {"connecting", "open"}
                       THEN [readyState EXCEPT ![ws[b]] = "closing"] ELSE readyState
           States == {"unused", "connecting", "open", "closing", "quitting", "closed"}
<1>1. closed \in [Sockets -> States]
  BY DEF ClientTypeOK
<1>2. up' \in [Sockets -> Seq(Message)]
  <2>1. IsOpen(b) => ws[b] \in Sockets
    BY DEF IsOpen, ClientTypeOK
  <2> QED
    BY <2>1, UpType, EmptySeq DEF Connect, ClientTypeOK
<1>3. \/ /\ readyState' = closed /\ ws' = [ws EXCEPT ![b] = NoSocket]
      \/ \E s \in Unused(b) : /\ readyState' = [closed EXCEPT ![s] = "connecting"]
                              /\ ws' = [ws EXCEPT ![b] = s]
  BY DEF Connect
<1>4. Unused(b) \subseteq Sockets
  BY DEF Unused, Sockets
<1> QED
  BY <1>1, <1>2, <1>3, <1>4 DEF ClientTypeOK

LEMMA RetryType ==
  ASSUME ClientTypeOK, NEW b \in Browser, RetryConnectionIfNeeded(b)
  PROVE  /\ ws' \in [Browser -> Sockets \cup {NoSocket}]
         /\ readyState' \in [Sockets -> {"unused", "connecting", "open", "closing", "quitting", "closed"}]
         /\ up' \in [Sockets -> Seq(Message)]
         /\ reconnectAttempts' \in [Browser -> 0 .. MaxAttempts]
<1>1. CASE IsOpen(b)
  BY <1>1 DEF RetryConnectionIfNeeded, ClientTypeOK
<1>2. CASE ~IsOpen(b)
  <2>1. Connect(b, TRUE) /\ reconnectAttempts' = [reconnectAttempts EXCEPT ![b] = 0]
    BY <1>2 DEF RetryConnectionIfNeeded
  <2> QED
    BY <2>1, ConnectType, AttemptsReset
<1> QED
  BY <1>1, <1>2

(* Login, the verification of a stored token, logout.                      *)
LEMMA AccountType ==
  ASSUME ClientTypeOK, NEW b \in Browser,
         Login(b) \/ TokenVerified(b) \/ TokenRejected(b) \/ Logout(b)
  PROVE  ClientTypeOK'
<1>1. CASE Login(b)
  BY <1>1, RetryType DEF Login, ClientTypeOK
<1>2. CASE TokenVerified(b)
  BY <1>2, RetryType DEF TokenVerified, ClientTypeOK
<1>3. CASE TokenRejected(b)
  BY <1>3 DEF TokenRejected, ClientTypeOK
<1>4. CASE Logout(b)
  <2> DEFINE rec == Unsubscribe(mounted[b] \cap serverSubscriptions[b], Known(b))
  <2>1. rec \in Books /\ Adopt(b, rec)
    BY <1>4, KnownType, SubscribeType DEF Logout, ClientTypeOK
  <2>2. subscribed' \in [Browser -> SUBSET Type] /\ subscriptionIds' \in [Browser -> [Type -> AnyId]]
    BY <2>1, AdoptType
  <2>3. IsOpen(b) => ws[b] \in Sockets
    BY DEF IsOpen, ClientTypeOK
  <2>4. up' \in [Sockets -> Seq(Message)]
    BY <1>4, <2>3, UpType, EmptySeq DEF Logout, ClientTypeOK
  <2>5. readyState' \in [Sockets -> {"unused", "connecting", "open", "closing", "quitting", "closed"}]
    BY <1>4 DEF Logout, ClientTypeOK
  <2> QED
    BY <1>4, <2>2, <2>4, <2>5 DEF Logout, ClientTypeOK, AnyId
<1> QED
  BY <1>1, <1>2, <1>3, <1>4

(* The events of a socket.                                                 *)
LEMMA OpenType ==
  ASSUME ClientTypeOK, NEW b \in Browser, NEW s \in SocketsOf[b], HandleOpen(b, s)
  PROVE  ClientTypeOK'
<1> DEFINE missing == {t \in subscribed[b] : subscriptionIds[b][t] = NoId}
           rec == Subscribe(missing, Known(b))
<1>1. s \in Sockets
  BY DEF Sockets
<1>2. rec \in Books /\ Adopt(b, rec) /\ up' = [up EXCEPT ![s] = @ \o rec.sent]
  BY KnownType, SubscribeType DEF HandleOpen, ClientTypeOK
<1>3. subscribed' \in [Browser -> SUBSET Type] /\ subscriptionIds' \in [Browser -> [Type -> AnyId]]
  BY <1>2, AdoptType
<1>4. up' \in [Sockets -> Seq(Message)]
  BY <1>1, <1>2, UpType DEF Books
<1> QED
  BY <1>1, <1>3, <1>4, AttemptsReset DEF HandleOpen, ClientTypeOK, AnyId

LEMMA CloseType ==
  ASSUME ClientTypeOK, NEW b \in Browser, NEW s \in SocketsOf[b], HandleClose(b, s)
  PROVE  ClientTypeOK'
<1>1. s \in Sockets
  BY DEF Sockets
<1>2. \A again \in BOOLEAN :
        (again => reconnectAttempts[b] < MaxAttempts) =>
          /\ [reconnectAttempts EXCEPT ![b] = IF again THEN @ + 1 ELSE @]
               \in [Browser -> 0 .. MaxAttempts]
          /\ [timers EXCEPT ![b] = IF again THEN @ + 1 ELSE @] \in [Browser -> Nat]
  BY BrowserAssumption DEF ClientTypeOK
<1>3. /\ reconnectAttempts' \in [Browser -> 0 .. MaxAttempts]
      /\ timers' \in [Browser -> Nat]
  BY <1>2 DEF HandleClose
<1>4. down' \in [Sockets -> Seq(Reply)]
  BY <1>1, EmptySeq DEF HandleClose, ClientTypeOK
<1>5. subscriptionIds' \in [Browser -> [Type -> Id \cup {NoId, TempId}]]
  BY DEF HandleClose, ClientTypeOK
<1> QED
  BY <1>1, <1>3, <1>4, <1>5 DEF HandleClose, ClientTypeOK

LEMMA BreakType ==
  ASSUME ClientTypeOK, NEW s \in Sockets, Break(s)
  PROVE  ClientTypeOK'
  BY EmptySeq DEF Break, ClientTypeOK

LEMMA MessageType ==
  ASSUME ClientTypeOK, NEW b \in Browser, NEW s \in SocketsOf[b], HandleMessage(b, s)
  PROVE  ClientTypeOK'
<1>1. s \in Sockets
  BY DEF Sockets
<1>2. down[s] \in Seq(Reply) /\ down[s] # <<>>
  BY <1>1 DEF HandleMessage, ClientTypeOK
<1>3. Head(down[s]) \in Reply /\ Tail(down[s]) \in Seq(Reply)
  BY <1>2, HeadTailProperties
<1>4. down' \in [Sockets -> Seq(Reply)]
  BY <1>1, <1>3 DEF HandleMessage, ClientTypeOK
<1>5. subscriptionIds' \in [Browser -> [Type -> Id \cup {NoId, TempId}]]
  BY <1>3 DEF HandleMessage, ClientTypeOK, Reply
<1> QED
  BY <1>4, <1>5 DEF HandleMessage, ClientTypeOK

LEMMA TimerType ==
  ASSUME ClientTypeOK, NEW b \in Browser, TimerFires(b)
  PROVE  ClientTypeOK'
<1>1. Connect(b, token[b]) /\ timers' \in [Browser -> Nat]
  BY DEF TimerFires, ClientTypeOK
<1> QED
  BY <1>1, ConnectType DEF TimerFires, ClientTypeOK

(* Widgets.                                                                *)
LEMMA WidgetType ==
  ASSUME ClientTypeOK, NEW b \in Browser, NEW rec \in Books, Adopt(b, rec), Send(b, rec),
         serverSubscriptions' \in [Browser -> SUBSET Type],
         mounted' \in [Browser -> SUBSET Type], mounts' \in [Browser -> 0 .. MaxMounts],
         shown' \in [Browser -> BOOLEAN],
         UNCHANGED <<token, verifying, ws, readyState, reconnectAttempts, timers,
                     connected, down>>
  PROVE  ClientTypeOK'
<1>1. /\ subscribed' \in [Browser -> SUBSET Type]
      /\ subscriptionIds' \in [Browser -> [Type -> AnyId]]
      /\ up' \in [Sockets -> Seq(Message)]
  BY AdoptType, SendType
<1> QED
  BY <1>1 DEF ClientTypeOK, AnyId

LEMMA WidgetStepType ==
  ASSUME ClientTypeOK, NEW b \in Browser,
         Render(b) \/ \E t \in Type : Mount(b, t) \/ Unmount(b, t)
  PROVE  ClientTypeOK'
<1>1. ASSUME NEW t \in Type, Mount(b, t) PROVE ClientTypeOK'
  <2> DEFINE rec == IF t \in serverSubscriptions[b] THEN Known(b) ELSE Subscribe({t}, Known(b))
  <2>1. rec \in Books /\ Adopt(b, rec) /\ Send(b, rec)
    BY <1>1, KnownType, SubscribeType DEF Mount
  <2> HIDE DEF rec
  <2>2. /\ serverSubscriptions' \in [Browser -> SUBSET Type]
        /\ mounted' \in [Browser -> SUBSET Type] /\ mounts' \in [Browser -> 0 .. MaxMounts]
    BY <1>1, BrowserAssumption DEF Mount, ClientTypeOK
  <2> QED
    BY <1>1, <2>1, <2>2, WidgetType DEF Mount, ClientTypeOK
<1>2. ASSUME NEW t \in Type, Unmount(b, t) PROVE ClientTypeOK'
  <2> DEFINE rec == IF t \in serverSubscriptions[b] THEN Unsubscribe({t}, Known(b)) ELSE Known(b)
  <2>1. rec \in Books /\ Adopt(b, rec) /\ Send(b, rec)
    BY <1>2, KnownType, SubscribeType DEF Unmount
  <2> HIDE DEF rec
  <2>2. /\ serverSubscriptions' \in [Browser -> SUBSET Type]
        /\ mounted' \in [Browser -> SUBSET Type]
    BY <1>2 DEF Unmount, ClientTypeOK
  <2> QED
    BY <1>2, <2>1, <2>2, WidgetType DEF Unmount, ClientTypeOK
<1>3. CASE Render(b)
  <2> DEFINE cleaned == Unsubscribe(mounted[b] \cap serverSubscriptions[b], Known(b))
             rec == Subscribe(mounted[b], cleaned)
  <2>1. cleaned \in Books
    BY KnownType, SubscribeType DEF ClientTypeOK
  <2>2. rec \in Books /\ Adopt(b, rec) /\ Send(b, rec)
    BY <1>3, <2>1, SubscribeType DEF Render, ClientTypeOK
  <2> HIDE DEF rec
  <2>3. serverSubscriptions' \in [Browser -> SUBSET Type] /\ shown' \in [Browser -> BOOLEAN]
    BY <1>3 DEF Render, ClientTypeOK
  <2> QED
    BY <1>3, <2>2, <2>3, WidgetType DEF Render, ClientTypeOK
<1> QED
  BY <1>1, <1>2, <1>3

(* The service's end of the channels.                                      *)
LEMMA ChannelType ==
  ASSUME ClientTypeOK, Unheard, up' \in [Sockets -> Seq(Message)],
         down' \in [Sockets -> Seq(Reply)]
  PROVE  ClientTypeOK'
  BY DEF Unheard, ClientTypeOK

LEMMA AnswerType ==
  ASSUME ClientTypeOK, NEW s \in Sockets, NEW id \in Id, Answer(s, id)
  PROVE  down' \in [Sockets -> Seq(Reply)]
<1>1. [type |-> id[1], id |-> id] \in Reply
  BY IdFacts DEF Reply
<1>2. Append(down[s], [type |-> id[1], id |-> id]) \in Seq(Reply)
  BY <1>1, AppendProperties DEF ClientTypeOK
<1> QED
  BY <1>2 DEF Answer, ClientTypeOK

LEMMA ReceiveType ==
  ASSUME ClientTypeOK, NEW s \in Socket, Receive(s)
  PROVE  ClientTypeOK'
<1>1. s \in Sockets /\ Unheard
  BY BrowserAssumption DEF Receive
<1>2. up' \in [Sockets -> Seq(Message)]
  <2>1. up[s] \in Seq(Message) /\ up[s] # <<>>
    BY <1>1 DEF Receive, ClientTypeOK
  <2>2. Tail(up[s]) \in Seq(Message)
    BY <2>1, HeadTailProperties
  <2> QED
    BY <1>1, <2>2 DEF Receive, ClientTypeOK
<1>3. down' = down \/ \E told \in Id : Answer(s, told)
  BY DEF Receive
<1>4. down' \in [Sockets -> Seq(Reply)]
  BY <1>1, <1>3, AnswerType DEF ClientTypeOK
<1> QED
  BY <1>1, <1>2, <1>4, ChannelType

LEMMA ClientStepType ==
  ASSUME ServerTypeOK, ClientTypeOK, [Next]_vars
  PROVE  ClientTypeOK'
<1>1. ASSUME NEW b \in Browser, BrowserStep(b) PROVE ClientTypeOK'
  BY <1>1, AccountType, CloseType, MessageType, TimerType, WidgetStepType DEF BrowserStep
<1>2. ASSUME NEW b \in Browser, NEW s \in SocketsOf[b], Open(b, s) PROVE ClientTypeOK'
  BY <1>2, OpenType DEF Open
<1>3. ASSUME NEW s \in Socket, Refuse(s) \/ Lose(s) PROVE ClientTypeOK'
  <2>1. s \in Sockets /\ (Break(s) \/ UNCHANGED browserVars)
    BY <1>3, BrowserAssumption DEF Refuse, Lose
  <2>2. CASE UNCHANGED browserVars
    BY <2>2 DEF browserVars, ClientTypeOK
  <2> QED
    BY <2>1, <2>2, BreakType
<1>4. ASSUME NEW s \in Socket, Receive(s) PROVE ClientTypeOK'
  BY <1>4, ReceiveType
<1>5. ASSUME NEW r \in initial, InitialData(r) PROVE ClientTypeOK'
  <2>1. r.ws \in Sockets /\ r.told \in Id
    BY BrowserAssumption DEF ServerTypeOK, Request
  <2>2. Answer(r.ws, r.told) /\ Unheard /\ up' = up
    BY <1>5 DEF InitialData
  <2> QED
    BY <2>1, <2>2, AnswerType, ChannelType DEF ClientTypeOK
<1>6. CASE ServerStep \/ UNCHANGED vars
  <2>1. UNCHANGED browserVars
    BY <1>6 DEF ServerStep, vars
  <2> QED
    BY <2>1 DEF browserVars, ClientTypeOK
<1> QED
  BY <1>1, <1>2, <1>3, <1>4, <1>5, <1>6 DEF Next

LEMMA ClientInitType == ClientInit => ClientTypeOK
<1> SUFFICES ASSUME ClientInit PROVE ClientTypeOK
  OBVIOUS
<1>1. \A b \in Browser : First(b) \in Sockets
  BY BrowserAssumption DEF First, Sockets
<1>2. up \in [Sockets -> Seq(Message)] /\ down \in [Sockets -> Seq(Reply)]
  BY EmptySeq DEF ClientInit
<1> QED
  BY <1>1, <1>2, BrowserAssumption DEF ClientInit, ClientTypeOK

(* The service and its browsers keep to their types: what a browser knows  *)
(* of its subscriptions, however often it reconnects, and what is on its   *)
(* way in the channels (websocket.service.ts of the frontend).             *)
THEOREM TypesKept == Spec => []TypeOK
<1>1. Init => TypeOK
  BY InitType, ClientInitType DEF Init, TypeOK
<1>2. TypeOK /\ [Next]_vars => TypeOK'
  BY StepServes, StepType, ClientStepType DEF TypeOK
<1> QED
  BY <1>1, <1>2, PTL DEF Spec

=============================================================================
