-------------------------- MODULE Gateways_proofs --------------------------
(* What holds of a gateway for any number of sockets, commands, timers,    *)
(* locks and synchronisations.                                             *)
EXTENDS Gateways, TLAPS

USE SocketAssumption, CommandAssumption, TimeAssumption, AttemptsAssumption,
    RecordAssumption, FailuresAssumption, ChangesAssumption

-----------------------------------------------------------------------------
(* Types.                                                                  *)

LEMMA InitTypes == Init => TypeOK
<1>1. BaseInit => BaseTypeOK
  BY DEF BaseInit, BaseTypeOK, State
<1>2. LinkInit => LinkTypeOK
  <2> SUFFICES ASSUME LinkInit PROVE LinkTypeOK
    OBVIOUS
  <2>1. sockets \in [Socket -> Life] /\ ws \in Socket \cup {None} /\ awaited \subseteq Socket
    BY DEF LinkInit, Life
  <2>2. 0 \in 0 .. MaxReconnectAttempts /\ 0 \in Nat
    OBVIOUS
  <2>3. outcome \in [Command -> Undone \cup Command] /\ messageId \in [Command -> Time \cup {None}]
    BY DEF LinkInit, Undone
  <2> QED
    BY <2>1, <2>2, <2>3 DEF LinkInit, LinkTypeOK
<1>3. Idle \in Progress
  BY DEF Idle, Progress, Phase, Nowhere, Unread, Unknown, Listing, LockState
<1>4. PollInit => PollTypeOK
  <2> SUFFICES ASSUME PollInit PROVE PollTypeOK
    OBVIOUS
  <2>1. failures \in 0 .. MaxFailures /\ changes \in 0 .. MaxChanges
    BY DEF PollInit
  <2>2. device \in [Serial -> Record \cup {NoRecord}] /\ recorded \in [Serial -> LockState]
    BY DEF PollInit, Unread, Unknown, LockState
  <2> QED
    BY <1>3, <2>1, <2>2 DEF PollInit, PollTypeOK
<1> QED
  BY <1>1, <1>2, <1>4 DEF Init, TypeOK

LEMMA DroppedType ==
  ASSUME LinkTypeOK, NEW s \in Socket \cup {None}
  PROVE  Dropped(s) \in [Socket -> Life]
BY DEF LinkTypeOK, Dropped, Life

LEMMA ReconnectionType ==
  ASSUME LinkTypeOK, Reconnection
  PROVE  reconnectAttempts' \in 0 .. MaxReconnectAttempts /\ reconnectTimer' \in BOOLEAN
         /\ timers' \in Nat
<1>1. CASE reconnectAttempts >= MaxReconnectAttempts
  BY <1>1 DEF LinkTypeOK, Reconnection
<1>2. CASE ~(reconnectAttempts >= MaxReconnectAttempts)
  <2>1. reconnectAttempts' = reconnectAttempts + 1 /\ reconnectTimer' = TRUE
        /\ timers' \in {timers, timers + 1}
    BY <1>2 DEF Reconnection
  <2>2. reconnectAttempts \in Nat /\ timers \in Nat /\ reconnectAttempts < MaxReconnectAttempts
    BY <1>2 DEF LinkTypeOK
  <2> QED
    BY <2>1, <2>2
<1> QED
  BY <1>1, <1>2

LEMMA SeveredType ==
  ASSUME LinkTypeOK, NEW s \in Socket, Severed(s)
  PROVE  wire' \subseteq Message /\ replies' \subseteq Message
<1>1. \A m \in wire : [m EXCEPT !.ws = IF @ = s THEN None ELSE @] \in Message
  BY DEF LinkTypeOK, Message
<1> QED
  BY <1>1 DEF LinkTypeOK, Severed

(* A step of the connection.                                               *)
LEMMA SocketTypes ==
  ASSUME BaseTypeOK, LinkTypeOK,
         \/ Connect \/ Disconnect \/ TimerFires
         \/ \E s \in Socket :
              \/ Open(s) \/ ConnectTimeout(s) \/ Closed(s) \/ Fail(s) \/ SocketError(s)
              \/ HandleGatewayError(s)
  PROVE  BaseTypeOK' /\ LinkTypeOK'
<1>1. CASE Connect
  BY <1>1 DEF Connect, NewSocket, SetBoth, BaseTypeOK, LinkTypeOK, State, Life, linkVars,
     commandVars
<1>2. CASE Disconnect
  BY <1>2, DroppedType DEF Disconnect, SetBoth, BaseTypeOK, LinkTypeOK, State, commandVars
<1>3. CASE TimerFires
  <2>1. reconnectTimer' \in BOOLEAN /\ timers' \in Nat
    <3>1. timers \in Nat /\ reconnectTimer \in BOOLEAN
      BY DEF LinkTypeOK
    <3>2. CASE timers > 0 /\ timers' = timers - 1 /\ UNCHANGED reconnectTimer
      BY <3>1, <3>2
    <3>3. CASE reconnectTimer /\ reconnectTimer' = FALSE /\ UNCHANGED timers
      BY <3>1, <3>3
    <3> QED
      BY <1>3, <3>2, <3>3 DEF TimerFires
  <2>2. sockets' \in [Socket -> Life] /\ ws' \in Socket \cup {None}
    BY <1>3 DEF TimerFires, NewSocket, LinkTypeOK, Life
  <2>3. BaseTypeOK'
    BY <1>3 DEF TimerFires, SetState, BaseTypeOK, State
  <2> QED
    BY <1>3, <2>1, <2>2, <2>3 DEF TimerFires, LinkTypeOK, commandVars
<1>4. ASSUME NEW s \in Socket, Open(s) PROVE BaseTypeOK' /\ LinkTypeOK'
  BY <1>4 DEF Open, SetBoth, SetState, BaseTypeOK, LinkTypeOK, State, Life, commandVars
<1>5. ASSUME NEW s \in Socket, ConnectTimeout(s) PROVE BaseTypeOK' /\ LinkTypeOK'
  <2>1. Dropped(s) \in [Socket -> Life] /\ Dropped(ws) \in [Socket -> Life]
    BY DroppedType DEF LinkTypeOK
  <2> QED
    BY <1>5, <2>1 DEF ConnectTimeout, BaseTypeOK, LinkTypeOK, State, Life, commandVars
<1>6. ASSUME NEW s \in Socket, Closed(s) PROVE BaseTypeOK' /\ LinkTypeOK'
  <2>1. BaseTypeOK'
    BY <1>6 DEF Closed, SetBoth, StateClosed, BaseTypeOK, State
  <2> QED
    BY <1>6, <2>1, ReconnectionType, SeveredType DEF Closed, Severed, LinkTypeOK, Life
<1>7. ASSUME NEW s \in Socket, Fail(s) PROVE BaseTypeOK' /\ LinkTypeOK'
  <2>1. BaseTypeOK'
    BY <1>7 DEF Fail, StateClosed, BaseTypeOK, State
  <2> QED
    BY <1>7, <2>1, ReconnectionType DEF Fail, LinkTypeOK, Life, commandVars
<1>8. ASSUME NEW s \in Socket, SocketError(s) PROVE BaseTypeOK' /\ LinkTypeOK'
  BY <1>8 DEF SocketError, SetBoth, BaseTypeOK, LinkTypeOK, State, Life, commandVars
<1>9. ASSUME NEW s \in Socket, HandleGatewayError(s) PROVE BaseTypeOK' /\ LinkTypeOK'
  BY <1>9 DEF HandleGatewayError, BaseTypeOK, LinkTypeOK, State, linkVars
<1> QED
  BY <1>1, <1>2, <1>3, <1>4, <1>5, <1>6, <1>7, <1>8, <1>9

(* A step of a command.                                                    *)
LEMMA CommandTypes ==
  ASSUME BaseTypeOK, LinkTypeOK,
         \/ \E c \in Command : ExecuteDeviceCommand(c) \/ CommandTimeout(c)
         \/ \E m \in wire : GatewayExecutes(m)
         \/ \E r \in replies : HandleIncomingData(r)
  PROVE  BaseTypeOK' /\ LinkTypeOK'
<1>1. BaseTypeOK' /\ UNCHANGED socketVars
  BY DEF ExecuteDeviceCommand, CommandTimeout, GatewayExecutes, HandleIncomingData, BaseTypeOK,
     baseVars
<1>2. ASSUME NEW c \in Command, ExecuteDeviceCommand(c) PROVE LinkTypeOK'
  BY <1>1, <1>2 DEF ExecuteDeviceCommand, LinkTypeOK, socketVars, Undone, Message
<1>3. ASSUME NEW c \in Command, CommandTimeout(c) PROVE LinkTypeOK'
  BY <1>1, <1>3 DEF CommandTimeout, LinkTypeOK, socketVars, Undone
<1>4. ASSUME NEW m \in wire, GatewayExecutes(m) PROVE LinkTypeOK'
  BY <1>1, <1>4 DEF GatewayExecutes, LinkTypeOK, socketVars, Message
<1>5. ASSUME NEW r \in replies, HandleIncomingData(r) PROVE LinkTypeOK'
  <2>1. r.command \in Command
    BY DEF LinkTypeOK, Message
  <2> QED
    BY <1>1, <1>5, <2>1 DEF HandleIncomingData, LinkTypeOK, socketVars
<1> QED
  BY <1>1, <1>2, <1>3, <1>4, <1>5

(* A step of a synchronisation, on its own record.                         *)
LEMMA ProgressFacts ==
  ASSUME PollTypeOK, NEW p \in Poll
  PROVE  /\ polls[p] \in Progress
         /\ Idle \in Progress
         /\ Absent(locks) \subseteq Serial /\ Absent(polls[p].seen) \subseteq Serial
BY DEF PollTypeOK, Progress, Idle, Phase, Nowhere, Unread, Unknown, Listing, LockState, Absent

LEMMA StartedType ==
  ASSUME PollTypeOK, NEW p \in Poll, NEW manual \in BOOLEAN, NEW pc \in Phase,
         Started(p, manual, pc)
  PROVE  polls' \in [Poll -> Progress]
<1>1. [Idle EXCEPT !.pc = pc, !.manual = manual, !.gone = Absent(locks)] \in Progress
  BY ProgressFacts DEF Progress
<1> QED
  BY <1>1 DEF Started, PollTypeOK

LEMMA EndsType ==
  ASSUME PollTypeOK, NEW p \in Poll, Ends(p)
  PROVE  polls' \in [Poll -> Progress]
BY ProgressFacts DEF Ends, PollTypeOK

(* A serial to update is listed.                                           *)
Updatable == \A p \in Poll : At(p, "updating") => polls[p].todo \cap Absent(polls[p].seen) = {}

LEMMA PollTypes ==
  ASSUME BaseTypeOK, PollTypeOK, Updatable, PollNext
  PROVE  BaseTypeOK' /\ PollTypeOK'
<1>1. BaseTypeOK'
  <2>1. UNCHANGED baseVars \/ \E new \in State : SetBoth(new)
    BY DEF PollNext, DisconnectHttp, GatewayChanges, ConnectHttp, PollDue, Connects, ManualSync,
       SyncStep, StartPolling, Listed, ListingFails, ListingMalformed, ReadRecords, ToRemove,
       RereadRecords, SyncEnds, AddDevice, RemoveDevice, UpdateDevice, State
  <2> QED
    BY <2>1 DEF SetBoth, baseVars, BaseTypeOK
<1>2. CASE DisconnectHttp
  BY <1>2, <1>1 DEF DisconnectHttp, PollTypeOK
<1>3. ASSUME NEW d \in Serial, GatewayChanges(d) PROVE PollTypeOK'
  <2>1. changes' \in 0 .. MaxChanges
    BY <1>3 DEF GatewayChanges, PollTypeOK
  <2>2. locks' \in Listing
    BY <1>3 DEF GatewayChanges, PollTypeOK, Listing
  <2>3. polls' \in [Poll -> Progress]
    <3>1. \A p \in Poll : [polls[p] EXCEPT !.gone = @ \cup {d}] \in Progress
      BY DEF PollTypeOK, Progress
    <3> QED
      BY <1>3, <3>1 DEF GatewayChanges, PollTypeOK
  <2> QED
    BY <1>3, <2>1, <2>2, <2>3 DEF GatewayChanges, PollTypeOK
<1>4. ASSUME NEW p \in Poll, ConnectHttp(p) \/ PollDue(p) \/ ManualSync(p) PROVE PollTypeOK'
  <2>1. "connecting" \in Phase /\ "listing" \in Phase
    BY DEF Phase
  <2>2. polls' \in [Poll -> Progress]
    BY <1>4, <2>1, StartedType DEF ConnectHttp, PollDue, ManualSync, Connects
  <2>3. UNCHANGED <<polling, failures, locks, changes, device, recorded>>
    BY <1>4 DEF ConnectHttp, PollDue, ManualSync, Connects
  <2> QED
    BY <2>2, <2>3 DEF PollTypeOK
<1>5. ASSUME NEW p \in Poll,
             StartPolling(p) \/ ListingFails(p) \/ ListingMalformed(p) \/ SyncEnds(p)
      PROVE  PollTypeOK'
  <2>1. failures' \in 0 .. MaxFailures /\ polling' \in BOOLEAN
    <3>1. failures \in Nat /\ failures <= MaxFailures /\ polling \in BOOLEAN
      BY DEF PollTypeOK
    <3>2. CASE ListingMalformed(p)
      BY <3>1, <3>2 DEF ListingMalformed
    <3>3. CASE StartPolling(p) \/ ListingFails(p) \/ SyncEnds(p)
      <4>1. failures' = failures \/ failures' = 0
        BY <3>3 DEF StartPolling, ListingFails, SyncEnds
      <4>2. polling' = polling \/ polling' = TRUE
        BY <3>3 DEF StartPolling, ListingFails, SyncEnds
      <4>3. failures' \in 0 .. MaxFailures
        BY <3>1, <4>1
      <4>4. polling' \in BOOLEAN
        BY <3>1, <4>2
      <4> QED
        BY <4>3, <4>4
    <3> QED
      BY <1>5, <3>2, <3>3
  <2>2. polls' \in [Poll -> Progress]
    <3>1. [polls[p] EXCEPT !.pc = "listing"] \in Progress
      BY ProgressFacts DEF Progress, Phase
    <3> QED
      BY <1>5, <3>1, EndsType DEF StartPolling, ListingFails, ListingMalformed, SyncEnds, PollTypeOK
  <2> QED
    BY <1>5, <2>1, <2>2 DEF StartPolling, ListingFails, ListingMalformed, SyncEnds, PollTypeOK
<1>6. ASSUME NEW p \in Poll, Listed(p) \/ ReadRecords(p) \/ ToRemove(p) \/ RereadRecords(p)
      PROVE  PollTypeOK'
  <2>1. [polls[p] EXCEPT !.seen = locks, !.pc = "reading"] \in Progress
    BY ProgressFacts DEF Progress, Phase, PollTypeOK
  <2>2. ASSUME NEW todo \in SUBSET Serial
        PROVE  /\ [polls[p] EXCEPT !.held = device, !.pc = "adding", !.todo = todo] \in Progress
               /\ [polls[p] EXCEPT !.pc = "removing", !.todo = todo] \in Progress
               /\ [polls[p] EXCEPT !.pc = "updating", !.held = device, !.was = recorded,
                                   !.todo = todo] \in Progress
    BY ProgressFacts DEF Progress, Phase, PollTypeOK
  <2>3. \E new \in Progress : polls' = [polls EXCEPT ![p] = new]
    <3>1. CASE Listed(p)
      BY <3>1, <2>1 DEF Listed, PollTypeOK
    <3>2. CASE ReadRecords(p)
      <4> DEFINE todo == {d \in Serial \ Absent(polls[p].seen) : device[d] = NoRecord}
      <4>1. todo \in SUBSET Serial
        OBVIOUS
      <4>2. polls' = [polls EXCEPT ![p] = [polls[p] EXCEPT !.held = device, !.pc = "adding",
                                                          !.todo = todo]]
        BY <3>2 DEF ReadRecords, PollTypeOK
      <4> HIDE DEF todo
      <4> QED
        BY <4>1, <4>2, <2>2
    <3>3. CASE ToRemove(p)
      <4> DEFINE todo == {d \in Absent(polls[p].seen) : polls[p].held[d] # NoRecord}
      <4>1. todo \in SUBSET Serial
        BY ProgressFacts
      <4>2. polls' = [polls EXCEPT ![p] = [polls[p] EXCEPT !.pc = "removing", !.todo = todo]]
        BY <3>3 DEF ToRemove, PollTypeOK
      <4> HIDE DEF todo
      <4> QED
        BY <4>1, <4>2, <2>2
    <3>4. CASE RereadRecords(p)
      <4> DEFINE todo == {d \in Serial \ Absent(polls[p].seen) : device[d] # NoRecord}
      <4>1. todo \in SUBSET Serial
        OBVIOUS
      <4>2. polls' = [polls EXCEPT ![p] = [polls[p] EXCEPT !.pc = "updating", !.held = device,
                                                          !.was = recorded, !.todo = todo]]
        BY <3>4 DEF RereadRecords, PollTypeOK
      <4> HIDE DEF todo
      <4> QED
        BY <4>1, <4>2, <2>2
    <3> QED
      BY <1>6, <3>1, <3>2, <3>3, <3>4
  <2> QED
    BY <1>6, <2>3 DEF Listed, ReadRecords, ToRemove, RereadRecords, PollTypeOK
<1>7. ASSUME NEW p \in Poll, NEW d \in Serial,
             AddDevice(p, d) \/ RemoveDevice(p, d) \/ UpdateDevice(p, d)
      PROVE  PollTypeOK'
  <2>1. [polls[p] EXCEPT !.todo = @ \ {d}] \in Progress
    BY ProgressFacts DEF Progress
  <2>2. polls' \in [Poll -> Progress]
    BY <1>7, <2>1 DEF AddDevice, RemoveDevice, UpdateDevice, PollTypeOK
  <2>3. device' \in [Serial -> Record \cup {NoRecord}]
    BY <1>7 DEF AddDevice, RemoveDevice, UpdateDevice, PollTypeOK
  <2>4. recorded' \in [Serial -> LockState]
    <3>1. CASE AddDevice(p, d) \/ RemoveDevice(p, d)
      BY <3>1 DEF AddDevice, RemoveDevice, PollTypeOK, LockState
    <3>2. CASE UpdateDevice(p, d)
      <4>1. polls[p].seen[d] \in LockState \/ recorded' = recorded
        BY <3>2, ProgressFacts DEF UpdateDevice, Updatable, Progress, Listing, Absent
      <4> QED
        BY <3>2, <4>1 DEF UpdateDevice, PollTypeOK
    <3> QED
      BY <1>7, <3>1, <3>2
  <2> QED
    BY <1>7, <2>2, <2>3, <2>4 DEF AddDevice, RemoveDevice, UpdateDevice, PollTypeOK
<1> QED
  BY <1>1, <1>2, <1>3, <1>4, <1>5, <1>6, <1>7 DEF PollNext, SyncStep

LEMMA StepUpdatable ==
  ASSUME PollTypeOK, Updatable, PollNext
  PROVE  Updatable'
<1>1. \A p \in Poll :
        \/ polls'[p] = polls[p]
        \/ polls'[p].pc # "updating"
        \/ polls'[p].todo \cap Absent(polls'[p].seen) = {}
        \/ /\ polls'[p].pc = polls[p].pc /\ polls'[p].seen = polls[p].seen
           /\ polls'[p].todo \subseteq polls[p].todo
  <2>1. CASE DisconnectHttp
    BY <2>1 DEF DisconnectHttp
  <2>2. ASSUME NEW d \in Serial, GatewayChanges(d)
        PROVE  \A p \in Poll : /\ polls'[p].pc = polls[p].pc /\ polls'[p].seen = polls[p].seen
                               /\ polls'[p].todo = polls[p].todo
    <3>1. \A p \in Poll : polls[p] \in Progress
      BY DEF PollTypeOK
    <3>2. \A p \in Poll : polls'[p] \in {polls[p], [polls[p] EXCEPT !.gone = @ \cup {d}]}
      BY <2>2 DEF GatewayChanges, PollTypeOK
    <3> QED
      BY <3>1, <3>2 DEF Progress
  <2>3. ASSUME NEW p \in Poll, ConnectHttp(p) \/ PollDue(p) \/ ManualSync(p) \/ SyncStep(p)
        PROVE  \A other \in Poll : other # p => polls'[other] = polls[other]
    BY <2>3 DEF ConnectHttp, PollDue, ManualSync, SyncStep, Connects, Started, Ends, StartPolling,
       Listed, ListingFails, ListingMalformed, ReadRecords, ToRemove, RereadRecords, SyncEnds,
       AddDevice, RemoveDevice, UpdateDevice, PollTypeOK
  <2>4. ASSUME NEW p \in Poll,
               ConnectHttp(p) \/ PollDue(p) \/ ManualSync(p) \/ StartPolling(p) \/ Listed(p)
               \/ ListingFails(p) \/ ListingMalformed(p) \/ ReadRecords(p) \/ ToRemove(p)
               \/ SyncEnds(p)
        PROVE  polls'[p].pc # "updating"
    <3>0. polls[p] \in Progress
      BY ProgressFacts
    <3>1. CASE ConnectHttp(p) \/ PollDue(p) \/ ManualSync(p)
      BY <3>1 DEF ConnectHttp, PollDue, ManualSync, Connects, Started, Idle, PollTypeOK
    <3>2. CASE StartPolling(p) \/ ListingFails(p) \/ ListingMalformed(p) \/ SyncEnds(p)
      BY <3>0, <3>2 DEF StartPolling, ListingFails, ListingMalformed, SyncEnds, Ends, Idle,
         PollTypeOK, Progress
    <3>3. CASE Listed(p) \/ ReadRecords(p) \/ ToRemove(p)
      BY <3>0, <3>3 DEF Listed, ReadRecords, ToRemove, PollTypeOK, Progress
    <3> QED
      BY <2>4, <3>1, <3>2, <3>3
  <2>5. ASSUME NEW p \in Poll, RereadRecords(p)
        PROVE  polls'[p].todo \cap Absent(polls'[p].seen) = {}
    BY <2>5, ProgressFacts DEF RereadRecords, PollTypeOK, Progress
  <2>6. ASSUME NEW p \in Poll, NEW d \in Serial,
               AddDevice(p, d) \/ RemoveDevice(p, d) \/ UpdateDevice(p, d)
        PROVE  /\ polls'[p].pc = polls[p].pc /\ polls'[p].seen = polls[p].seen
               /\ polls'[p].todo \subseteq polls[p].todo
    BY <2>6, ProgressFacts DEF AddDevice, RemoveDevice, UpdateDevice, PollTypeOK, Progress
  <2> QED
    BY <2>1, <2>2, <2>3, <2>4, <2>5, <2>6 DEF PollNext, SyncStep
<1>2. \A p \in Poll : Absent(polls[p].seen)' = Absent(polls'[p].seen)
  BY DEF Absent
<1> QED
  BY <1>1 DEF Updatable, At, Absent

LEMMA StepTypes == TypeOK /\ Updatable /\ [Next]_vars => TypeOK' /\ Updatable'
<1> SUFFICES ASSUME TypeOK, Updatable, [Next]_vars PROVE TypeOK' /\ Updatable'
  OBVIOUS
<1>1. CASE PhysicalStep
  <2>1. BaseTypeOK' /\ LinkTypeOK'
    BY <1>1, SocketTypes, CommandTypes DEF PhysicalStep, LinkNext, TypeOK
  <2>2. kind' = kind /\ UNCHANGED pollVars
    BY <1>1 DEF PhysicalStep
  <2>3. PollTypeOK' /\ Updatable'
    BY <2>2 DEF TypeOK, PollTypeOK, Updatable, At, pollVars
  <2> QED
    BY <2>1, <2>2, <2>3 DEF TypeOK
<1>2. CASE HttpStep
  <2>1. BaseTypeOK' /\ PollTypeOK' /\ Updatable'
    BY <1>2, PollTypes, StepUpdatable DEF HttpStep, TypeOK
  <2>2. kind' = kind /\ UNCHANGED linkVars
    BY <1>2 DEF HttpStep
  <2>3. LinkTypeOK'
    BY <2>2 DEF TypeOK, LinkTypeOK, linkVars
  <2> QED
    BY <2>1, <2>2, <2>3 DEF TypeOK
<1>3. CASE UNCHANGED vars
  <2>1. UNCHANGED <<kind, baseVars, linkVars, pollVars>>
    BY <1>3 DEF vars
  <2>2. BaseTypeOK'
    BY <2>1 DEF TypeOK, BaseTypeOK, baseVars
  <2>3. LinkTypeOK'
    BY <2>1 DEF TypeOK, LinkTypeOK, linkVars
  <2>4. PollTypeOK' /\ Updatable'
    BY <2>1 DEF TypeOK, PollTypeOK, Updatable, At, pollVars
  <2> QED
    BY <2>1, <2>2, <2>3, <2>4 DEF TypeOK
<1> QED
  BY <1>1, <1>2, <1>3 DEF Next

LEMMA InitUpdatable == Init => Updatable
BY DEF Init, PollInit, Updatable, At, Idle

(* A gateway has its types: it counts no attempt past the limit, and       *)
(* writes no lock state a listing does not hold (websocket.connection.ts:  *)
(* 183-197, device-sync.service.ts:234-302).                               *)
THEOREM TypeCorrect == Spec => []TypeOK
<1>1. Spec => [](TypeOK /\ Updatable)
  BY InitTypes, InitUpdatable, StepTypes, PTL DEF Spec
<1> QED
  BY <1>1, PTL

-----------------------------------------------------------------------------
(* The link to a physical gateway.                                         *)

(* A step of the commands, or of an HTTP gateway.                          *)
LEMMA SocketsAlone ==
  ASSUME [Next]_vars
  PROVE  \/ /\ kind' = kind /\ kind = "physical"
            /\ \/ Connect \/ Disconnect \/ TimerFires
               \/ \E s \in Socket :
                    \/ Open(s) \/ ConnectTimeout(s) \/ Closed(s) \/ Fail(s) \/ SocketError(s)
                    \/ HandleGatewayError(s)
         \/ UNCHANGED <<kind, baseVars, socketVars>>
         \/ kind' = kind /\ kind # "physical"
BY DEF Next, PhysicalStep, HttpStep, LinkNext, ExecuteDeviceCommand, CommandTimeout,
   GatewayExecutes, HandleIncomingData, vars, linkVars, socketVars

LEMMA StepStranded ==
  ASSUME TypeOK, NeverStranded, [Next]_vars
  PROVE  NeverStranded'
<1>0. SUFFICES ASSUME kind' = "physical", kind = "physical" PROVE NeverStranded'
  BY SocketsAlone DEF NeverStranded, baseVars
<1> USE <1>0 DEF TypeOK, LinkTypeOK
<1>1. CASE Connect
  BY <1>1 DEF Connect, NewSocket, SetBoth, NeverStranded, linkVars
<1>2. CASE Disconnect
  BY <1>2 DEF Disconnect, SetBoth, NeverStranded
<1>3. CASE TimerFires
  BY <1>3 DEF TimerFires, NewSocket, SetState, NeverStranded
<1>4. ASSUME NEW s \in Socket, Open(s) PROVE NeverStranded'
  BY <1>4 DEF Open, SetBoth, SetState, NeverStranded
<1>5. ASSUME NEW s \in Socket, ConnectTimeout(s) PROVE NeverStranded'
  <2>1. sockets'[s] \in {"late", "failing"}
    BY <1>5, DroppedType DEF ConnectTimeout, Dropped
  <2> QED
    BY <2>1 DEF NeverStranded
<1>6. ASSUME NEW s \in Socket, Closed(s) \/ Fail(s) PROVE NeverStranded'
  BY <1>6 DEF Closed, Fail, Reconnection, NeverStranded
<1>7. ASSUME NEW s \in Socket, SocketError(s) PROVE NeverStranded'
  BY <1>7 DEF SocketError, NeverStranded
<1>8. ASSUME NEW s \in Socket, HandleGatewayError(s) PROVE NeverStranded'
  BY <1>8 DEF HandleGatewayError, NeverStranded, linkVars
<1>9. CASE UNCHANGED <<kind, baseVars, socketVars>>
  BY <1>9 DEF NeverStranded, baseVars, socketVars
<1> QED
  BY <1>1, <1>2, <1>3, <1>4, <1>5, <1>6, <1>7, <1>8, <1>9, SocketsAlone

(* A link that is down always has something to come that brings it back,   *)
(* or has used up its attempts, or was disconnected on purpose             *)
(* (websocket.connection.ts:183-197).                                      *)
THEOREM LinkNeverStranded == Spec => []NeverStranded
<1>1. Init => NeverStranded
  BY DEF Init, BaseInit, NeverStranded
<1>2. TypeOK /\ NeverStranded /\ [Next]_vars => NeverStranded'
  BY StepStranded
<1> QED
  BY <1>1, <1>2, TypeCorrect, PTL DEF Spec

LEMMA StepConnected ==
  ASSUME TypeOK, ConnectedTrue, [Next]_vars
  PROVE  ConnectedTrue'
<1>0. SUFFICES ASSUME kind' = "physical", kind = "physical" PROVE ConnectedTrue'
  BY SocketsAlone DEF ConnectedTrue, baseVars
<1> USE <1>0 DEF TypeOK, LinkTypeOK
<1>1. CASE Connect
  BY <1>1 DEF Connect, SetBoth, ConnectedTrue, linkVars
<1>2. CASE Disconnect
  BY <1>2 DEF Disconnect, SetBoth, ConnectedTrue
<1>3. CASE TimerFires
  BY <1>3 DEF TimerFires, SetState, ConnectedTrue
<1>4. ASSUME NEW s \in Socket, Open(s) PROVE ConnectedTrue'
  BY <1>4 DEF Open, SetBoth, SetState, ConnectedTrue
<1>5. ASSUME NEW s \in Socket, ConnectTimeout(s) PROVE ConnectedTrue'
  <2>1. state' = state /\ (status' = "connected" => status = "connected")
    BY <1>5 DEF ConnectTimeout
  <2>2. \A other \in Socket : sockets[other] \in {"open", "closing"} =>
                              sockets'[other] \in {"open", "closing"}
    BY <1>5 DEF ConnectTimeout, Dropped
  <2> QED
    BY <2>1, <2>2 DEF ConnectedTrue
<1>6. ASSUME NEW s \in Socket, Closed(s) \/ Fail(s) PROVE ConnectedTrue'
  BY <1>6 DEF Closed, Fail, SetBoth, StateClosed, ConnectedTrue
<1>7. ASSUME NEW s \in Socket, SocketError(s) PROVE ConnectedTrue'
  BY <1>7 DEF SocketError, SetBoth, ConnectedTrue
<1>8. ASSUME NEW s \in Socket, HandleGatewayError(s) PROVE ConnectedTrue'
  BY <1>8 DEF HandleGatewayError, ConnectedTrue, linkVars
<1>9. CASE UNCHANGED <<kind, baseVars, socketVars>>
  BY <1>9 DEF ConnectedTrue, baseVars, socketVars
<1> QED
  BY <1>1, <1>2, <1>3, <1>4, <1>5, <1>6, <1>7, <1>8, <1>9, SocketsAlone

(* Nothing says connected of a link no socket of which is left             *)
(* (base.connection.ts:71-85, base.gateway.ts:142-169).                    *)
THEOREM ConnectedIsTrue == Spec => []ConnectedTrue
<1>1. Init => ConnectedTrue
  BY DEF Init, BaseInit, ConnectedTrue
<1>2. TypeOK /\ ConnectedTrue /\ [Next]_vars => ConnectedTrue'
  BY StepConnected
<1> QED
  BY <1>1, <1>2, TypeCorrect, PTL DEF Spec

-----------------------------------------------------------------------------
(* The commands sent over the link.                                        *)

Decided(c) == outcome[c] \notin {"unasked", "refused"}

(* What was sent or carried out was decided upon; what is on its way is    *)
(* not carried out yet, and what is answered is.                           *)
Carried ==
  /\ \A c \in Command : outcome[c] = "unasked" => messageId[c] = None
  /\ \A m \in wire \cup replies : messageId[m.command] = m.id
  /\ \A m \in wire : Decided(m.command) /\ m.command \notin executed
  /\ \A m, n \in wire : m.command = n.command => m = n
  /\ \A m \in replies : m.command \in executed
  /\ \A c \in executed : Decided(c)

LEMMA InitCarried == Init => Carried
BY DEF Init, LinkInit, Carried

LEMMA MessageFacts ==
  ASSUME LinkTypeOK, NEW m \in wire \cup replies
  PROVE  m.command \in Command /\ m.id \in Time /\ m \in Message
BY DEF LinkTypeOK, Message

LEMMA ChannelExecution ==
  ASSUME LinkTypeOK, Carried, NEW c \in Command, ExecuteDeviceCommand(c)
  PROVE  Carried' /\ Channel!ChannelNext
<1>1. PICK id \in Time :
        /\ messageId' = [messageId EXCEPT ![c] = id]
        /\ \/ /\ outcome' = [outcome EXCEPT ![c] = "waiting"]
              /\ \E to \in Socket : wire' = wire \cup {[ws |-> to, id |-> id, command |-> c]}
           \/ /\ outcome' = [outcome EXCEPT ![c] = "refused"]
              /\ wire' = wire
  BY DEF ExecuteDeviceCommand, LinkTypeOK
<1>2. outcome[c] = "unasked" /\ replies' = replies /\ executed' = executed
  BY DEF ExecuteDeviceCommand
<1>3. messageId[c] = None /\ c \notin executed
  BY <1>2 DEF Carried, Decided
<1>4. \A m \in wire \cup replies : m.command # c
  BY <1>3, MessageFacts DEF Carried
<1>5. messageId'[c] = id /\ \A d \in Command : d # c => messageId'[d] = messageId[d]
  BY <1>1 DEF LinkTypeOK
<1>6. \A d \in Command : d # c => outcome'[d] = outcome[d]
  BY <1>1 DEF LinkTypeOK
<1>7. outcome'[c] \in {"waiting", "refused"}
  BY <1>1 DEF LinkTypeOK
<1>8. Carried'
  <2>1. \A d \in Command : outcome'[d] = "unasked" => messageId'[d] = None
    BY <1>5, <1>6, <1>7 DEF Carried
  <2>2. \A m \in wire \cup replies : messageId'[m.command] = m.id
    BY <1>4, <1>5, MessageFacts DEF Carried
  <2>3. \A m \in wire : Decided(m.command)' /\ m.command \notin executed'
    BY <1>2, <1>4, <1>6, MessageFacts DEF Carried, Decided
  <2>4. \A d \in executed' : Decided(d)'
    BY <1>2, <1>3, <1>6 DEF Carried, Decided, LinkTypeOK
  <2>5. CASE wire' = wire
    BY <1>2, <2>1, <2>2, <2>3, <2>4, <2>5 DEF Carried
  <2>6. CASE outcome'[c] = "waiting" /\ wire' # wire
    <3>1. PICK to \in Socket : wire' = wire \cup {[ws |-> to, id |-> id, command |-> c]}
      BY <1>1, <2>6
    <3> DEFINE new == [ws |-> to, id |-> id, command |-> c]
    <3>2. new.id = id /\ new.command = c
      OBVIOUS
    <3>3. wire' = wire \cup {new}
      BY <3>1
    <3> HIDE DEF new
    <3>4. Decided(c)' /\ c \notin executed'
      BY <1>2, <1>3, <2>6 DEF Decided
    <3>5. \A m, n \in wire' : m.command = n.command => m = n
      BY <3>2, <3>3, <1>4 DEF Carried
    <3>6. \A m \in wire' \cup replies' : messageId'[m.command] = m.id
      BY <3>2, <3>3, <2>2, <1>2, <1>5
    <3>7. \A m \in wire' : Decided(m.command)' /\ m.command \notin executed'
      BY <3>2, <3>3, <3>4, <2>3
    <3>8. \A m \in replies' : m.command \in executed'
      BY <1>2 DEF Carried
    <3> QED
      BY <2>1, <2>4, <3>5, <3>6, <3>7, <3>8 DEF Carried
  <2>7. CASE outcome'[c] = "refused" /\ wire' # wire
    BY <1>1, <2>7 DEF LinkTypeOK
  <2> QED
    BY <1>7, <2>5, <2>6, <2>7
<1>9. Channel!Ask(c)
  BY <1>1, <1>2 DEF Channel!Ask
<1> QED
  BY <1>8, <1>9 DEF Channel!ChannelNext

LEMMA ChannelGateway ==
  ASSUME LinkTypeOK, Carried, NEW m \in wire, GatewayExecutes(m)
  PROVE  Carried' /\ Channel!ChannelNext
<1>1. m.command \in Command
  BY MessageFacts
<1>2. /\ wire' = wire \ {m} /\ executed' = executed \cup {m.command}
      /\ replies' \subseteq replies \cup {m} /\ UNCHANGED <<outcome, messageId>>
  BY DEF GatewayExecutes
<1>3. Decided(m.command) /\ m.command \notin executed /\ messageId[m.command] = m.id
  BY DEF Carried
<1>4. \A n \in wire' : n.command \notin executed'
  BY <1>2 DEF Carried
<1>5. \A n \in replies' : n.command \in executed' /\ messageId[n.command] = n.id
  BY <1>2, <1>3 DEF Carried
<1>6. \A c \in executed' : Decided(c)
  BY <1>2, <1>3 DEF Carried
<1>7. Carried'
  BY <1>2, <1>4, <1>5, <1>6 DEF Carried, Decided
<1>8. Channel!ChannelNext
  BY <1>1, <1>2, <1>3 DEF Channel!ChannelNext, Channel!Execute, Decided
<1> QED
  BY <1>7, <1>8

LEMMA ChannelAnswer ==
  ASSUME LinkTypeOK, Carried, NEW r \in replies, HandleIncomingData(r)
  PROVE  Carried' /\ Channel!ChannelNext
<1> DEFINE c == r.command
<1>1. c \in Command /\ c \in executed /\ messageId[c] = r.id
  BY MessageFacts DEF Carried
<1>2. /\ replies' \subseteq replies /\ UNCHANGED <<messageId, wire, executed>>
      /\ outcome' = [d \in Command |-> IF d \in Waiters(r) THEN c ELSE outcome[d]]
  BY DEF HandleIncomingData
<1>3. c \notin {"unasked", "refused"}
  BY <1>1 DEF Undone
<1> HIDE DEF c
<1>4. Channel!ChannelNext
  <2>1. \A d \in Command :
          d \in Waiters(r) <=> outcome[d] = "waiting" /\ messageId[d] = messageId[c]
    BY <1>1 DEF Waiters
  <2>2. Channel!Answer(c)
    BY <1>1, <1>2, <2>1 DEF Channel!Answer
  <2> QED
    BY <1>1, <2>2 DEF Channel!ChannelNext
<1>5. \A d \in Command : /\ Decided(d) => Decided(d)'
                         /\ outcome'[d] = "unasked" => outcome[d] = "unasked"
  BY <1>2, <1>3 DEF Decided
<1>6. Carried'
  BY <1>2, <1>5, MessageFacts DEF Carried, LinkTypeOK
<1> QED
  BY <1>4, <1>6

LEMMA ChannelTimeout ==
  ASSUME LinkTypeOK, Carried, NEW c \in Command, CommandTimeout(c)
  PROVE  Carried' /\ Channel!ChannelNext
<1>1. /\ outcome[c] = "waiting" /\ outcome' = [outcome EXCEPT ![c] = "failed"]
      /\ UNCHANGED <<messageId, wire, replies, executed>>
  BY DEF CommandTimeout
<1>2. \A d \in Command : /\ Decided(d) => Decided(d)'
                         /\ outcome'[d] = "unasked" => outcome[d] = "unasked"
  BY <1>1 DEF Decided, LinkTypeOK
<1>3. Carried'
  BY <1>1, <1>2, MessageFacts DEF Carried, LinkTypeOK
<1>4. Channel!ChannelNext
  BY <1>1 DEF Channel!ChannelNext, Channel!GiveUp
<1> QED
  BY <1>3, <1>4

LEMMA ChannelClosed ==
  ASSUME LinkTypeOK, Carried, NEW s \in Socket, Severed(s)
  PROVE  Carried' /\ UNCHANGED <<outcome, messageId, executed>>
<1> DEFINE Cut(m) == [m EXCEPT !.ws = IF @ = s THEN None ELSE @]
<1>1. /\ wire' = {Cut(m) : m \in wire} /\ replies' \subseteq replies
      /\ UNCHANGED <<outcome, messageId, executed>>
  BY DEF Severed
<1>2. \A m \in wire : Cut(m).command = m.command /\ Cut(m).id = m.id
  BY DEF LinkTypeOK, Message
<1> HIDE DEF Cut
<1>3. Carried'
  BY <1>1, <1>2 DEF Carried, Decided
<1> QED
  BY <1>1, <1>3 DEF Carried

LEMMA ChannelStep ==
  ASSUME TypeOK, Carried, [Next]_vars
  PROVE  Carried' /\ [Channel!ChannelNext]_<<outcome, messageId, executed>>
<1>1. CASE UNCHANGED commandVars
  BY <1>1 DEF commandVars, Carried, Decided
<1>2. ASSUME NEW s \in Socket, Closed(s) PROVE Carried' /\ UNCHANGED <<outcome, messageId, executed>>
  BY <1>2, ChannelClosed DEF Closed, TypeOK
<1>3. CASE \/ \E c \in Command : ExecuteDeviceCommand(c) \/ CommandTimeout(c)
           \/ \E m \in wire : GatewayExecutes(m)
           \/ \E r \in replies : HandleIncomingData(r)
  BY <1>3, ChannelExecution, ChannelTimeout, ChannelGateway, ChannelAnswer DEF TypeOK
<1>4. CASE \/ Connect \/ Disconnect \/ TimerFires
           \/ \E s \in Socket :
                \/ Open(s) \/ ConnectTimeout(s) \/ Fail(s) \/ SocketError(s)
                \/ HandleGatewayError(s)
  <2>1. UNCHANGED commandVars
    BY <1>4 DEF Connect, Disconnect, TimerFires, Open, ConnectTimeout, Fail, SocketError,
       HandleGatewayError, linkVars, commandVars
  <2> QED
    BY <1>1, <2>1
<1>5. CASE HttpStep \/ UNCHANGED vars
  <2>1. UNCHANGED commandVars
    BY <1>5 DEF HttpStep, vars, linkVars, commandVars
  <2> QED
    BY <1>1, <2>1
<1> QED
  BY <1>2, <1>3, <1>4, <1>5 DEF Next, PhysicalStep, LinkNext

(* A command is carried out at most once and never if it was refused, and  *)
(* its answer is that of a command carried out and issued in the same      *)
(* millisecond: its own, unless it shares its id (base.gateway.ts:305-378).*)
THEOREM CommandsAreKept == Spec => CommandsKept
<1>1. Init => Channel!ChannelInit
  BY DEF Init, LinkInit, Channel!ChannelInit
<1>2. TypeOK /\ Carried /\ [Next]_vars
        => Carried' /\ [Channel!ChannelNext]_Channel!channelVars
  BY ChannelStep DEF Channel!channelVars
<1> QED
  BY <1>1, <1>2, InitCarried, TypeCorrect, PTL DEF Spec, CommandsKept, Channel!ChannelSpec

-----------------------------------------------------------------------------
(* The records of an HTTP gateway's locks.                                 *)

(* What a synchronisation may hold absent was absent at some time since it *)
(* began.                                                                  *)
Justified ==
  \A p \in Poll :
    /\ polls[p].pc # "idle" => Absent(locks) \subseteq polls[p].gone
    /\ polls[p].pc \in {"reading", "adding", "removing"} =>
         Absent(polls[p].seen) \subseteq polls[p].gone
    /\ polls[p].pc = "removing" => polls[p].todo \subseteq polls[p].gone

LEMMA InitJustified == Init => Justified
BY DEF Init, PollInit, Justified, Idle

LEMMA StepJustified ==
  ASSUME TypeOK, Justified, [Next]_vars
  PROVE  Justified'
<1> DEFINE Holds(q, absent) ==
      /\ q.pc # "idle" => absent \subseteq q.gone
      /\ q.pc \in {"reading", "adding", "removing"} => Absent(q.seen) \subseteq q.gone
      /\ q.pc = "removing" => q.todo \subseteq q.gone
<1>0. \A p \in Poll : polls[p] \in Progress /\ Holds(polls[p], Absent(locks))
  BY DEF TypeOK, PollTypeOK, Justified
<1>1. SUFFICES \A p \in Poll : Holds(polls'[p], Absent(locks'))
  BY DEF Justified, Absent
<1>2. CASE UNCHANGED pollVars \/ DisconnectHttp
  BY <1>0, <1>2 DEF DisconnectHttp, pollVars
<1>3. ASSUME NEW d \in Serial, GatewayChanges(d)
      PROVE  \A p \in Poll : Holds(polls'[p], Absent(locks'))
  <2> SUFFICES ASSUME NEW p \in Poll PROVE Holds(polls'[p], Absent(locks'))
    OBVIOUS
  <2>1. Absent(locks') \subseteq Absent(locks) \/ Absent(locks') \subseteq Absent(locks) \cup {d}
    BY <1>3 DEF GatewayChanges, Absent, TypeOK, PollTypeOK, Listing
  <2>2. CASE polls'[p] = polls[p] /\ polls[p].pc = "idle"
    BY <1>0, <2>2
  <2>3. CASE polls'[p] = polls[p] /\ Absent(locks') \subseteq Absent(locks)
    BY <1>0, <2>3
  <2>4. CASE polls'[p] = [polls[p] EXCEPT !.gone = @ \cup {d}]
    BY <1>0, <2>1, <2>4 DEF Progress
  <2> QED
    BY <1>3, <2>2, <2>3, <2>4 DEF GatewayChanges, Absent, TypeOK, PollTypeOK, Listing, LockState
<1>4. ASSUME NEW p \in Poll, locks' = locks, NEW new, polls' = [polls EXCEPT ![p] = new],
             Holds(new, Absent(locks))
      PROVE  \A other \in Poll : Holds(polls'[other], Absent(locks'))
  BY <1>0, <1>4 DEF TypeOK, PollTypeOK
<1>5. Holds(Idle, Absent(locks))
  BY DEF Idle
<1>6. ASSUME NEW p \in Poll, ConnectHttp(p) \/ PollDue(p) \/ ManualSync(p)
      PROVE  \A other \in Poll : Holds(polls'[other], Absent(locks'))
  <2>1. PICK manual \in BOOLEAN, pc \in {"connecting", "listing"} : Started(p, manual, pc)
    BY <1>6 DEF ConnectHttp, PollDue, ManualSync, Connects
  <2> DEFINE new == [Idle EXCEPT !.pc = pc, !.manual = manual, !.gone = Absent(locks)]
  <2>2. new.pc = pc /\ new.gone = Absent(locks)
    BY DEF Idle
  <2>3. polls' = [polls EXCEPT ![p] = new]
    BY <2>1 DEF Started
  <2> HIDE DEF new
  <2>4. Holds(new, Absent(locks))
    BY <2>2
  <2>5. locks' = locks
    BY <1>6 DEF ConnectHttp, PollDue, ManualSync, Connects
  <2> QED
    BY <2>3, <2>4, <2>5, <1>4
<1>7. ASSUME NEW p \in Poll, SyncStep(p)
      PROVE  \A other \in Poll : Holds(polls'[other], Absent(locks'))
  <2>0. locks' = locks /\ polls[p] \in Progress /\ Holds(polls[p], Absent(locks))
    BY <1>0, <1>7 DEF SyncStep, StartPolling, Listed, ListingFails, ListingMalformed, ReadRecords,
       ToRemove, RereadRecords, SyncEnds, AddDevice, RemoveDevice, UpdateDevice
  <2>1. CASE Ends(p)
    BY <2>0, <2>1, <1>4, <1>5 DEF Ends
  <2>2. CASE StartPolling(p) /\ ~Ends(p)
    <3> DEFINE new == [polls[p] EXCEPT !.pc = "listing"]
    <3>1. polls' = [polls EXCEPT ![p] = new] /\ polls[p].pc = "connecting"
      BY <2>2 DEF StartPolling, At, TypeOK, PollTypeOK
    <3>2. new.pc = "listing" /\ new.gone = polls[p].gone
      BY <2>0 DEF Progress
    <3> HIDE DEF new
    <3>3. Holds(new, Absent(locks))
      BY <2>0, <3>1, <3>2
    <3> QED
      BY <2>0, <3>1, <3>3, <1>4
  <2>3. CASE Listed(p)
    <3> DEFINE new == [polls[p] EXCEPT !.seen = locks, !.pc = "reading"]
    <3>1. polls' = [polls EXCEPT ![p] = new] /\ polls[p].pc = "listing"
      BY <2>3 DEF Listed, At, TypeOK, PollTypeOK
    <3>2. new.pc = "reading" /\ new.gone = polls[p].gone /\ new.seen = locks
      BY <2>0 DEF Progress
    <3> HIDE DEF new
    <3>3. Holds(new, Absent(locks))
      BY <2>0, <3>1, <3>2
    <3> QED
      BY <2>0, <3>1, <3>3, <1>4
  <2>4. CASE ReadRecords(p)
    <3> DEFINE todo == {d \in Serial \ Absent(polls[p].seen) : device[d] = NoRecord}
               new == [polls[p] EXCEPT !.held = device, !.pc = "adding", !.todo = todo]
    <3>1. polls' = [polls EXCEPT ![p] = new] /\ polls[p].pc = "reading"
      BY <2>4 DEF ReadRecords, At, TypeOK, PollTypeOK
    <3>2. new.pc = "adding" /\ new.gone = polls[p].gone /\ new.seen = polls[p].seen
      BY <2>0 DEF Progress
    <3> HIDE DEF new
    <3>3. Holds(new, Absent(locks))
      BY <2>0, <3>1, <3>2
    <3> QED
      BY <2>0, <3>1, <3>3, <1>4
  <2>5. CASE ToRemove(p)
    <3> DEFINE todo == {d \in Absent(polls[p].seen) : polls[p].held[d] # NoRecord}
               new == [polls[p] EXCEPT !.pc = "removing", !.todo = todo]
    <3>1. polls' = [polls EXCEPT ![p] = new] /\ polls[p].pc = "adding"
      BY <2>5 DEF ToRemove, At, TypeOK, PollTypeOK
    <3>2. /\ new.pc = "removing" /\ new.gone = polls[p].gone /\ new.seen = polls[p].seen
          /\ new.todo = todo /\ todo \subseteq Absent(polls[p].seen)
      BY <2>0 DEF Progress
    <3> HIDE DEF new, todo
    <3>3. Holds(new, Absent(locks))
      BY <2>0, <3>1, <3>2
    <3> QED
      BY <2>0, <3>1, <3>3, <1>4
  <2>6. CASE RereadRecords(p)
    <3> DEFINE todo == {d \in Serial \ Absent(polls[p].seen) : device[d] # NoRecord}
               new == [polls[p] EXCEPT !.pc = "updating", !.held = device, !.was = recorded,
                                       !.todo = todo]
    <3>1. polls' = [polls EXCEPT ![p] = new] /\ polls[p].pc = "removing"
      BY <2>6 DEF RereadRecords, At, TypeOK, PollTypeOK
    <3>2. new.pc = "updating" /\ new.gone = polls[p].gone
      BY <2>0 DEF Progress
    <3> HIDE DEF new
    <3>3. Holds(new, Absent(locks))
      BY <2>0, <3>1, <3>2
    <3> QED
      BY <2>0, <3>1, <3>3, <1>4
  <2>7. ASSUME NEW d \in Serial, AddDevice(p, d) \/ RemoveDevice(p, d) \/ UpdateDevice(p, d)
        PROVE  \A other \in Poll : Holds(polls'[other], Absent(locks'))
    <3> DEFINE new == [polls[p] EXCEPT !.todo = @ \ {d}]
    <3>1. polls' = [polls EXCEPT ![p] = new]
      BY <2>7 DEF AddDevice, RemoveDevice, UpdateDevice, TypeOK, PollTypeOK
    <3>2. /\ new.pc = polls[p].pc /\ new.gone = polls[p].gone /\ new.seen = polls[p].seen
          /\ new.todo \subseteq polls[p].todo
      BY <2>0 DEF Progress
    <3> HIDE DEF new
    <3>3. Holds(new, Absent(locks))
      BY <2>0, <3>2
    <3> QED
      BY <2>0, <3>1, <3>3, <1>4
  <2> QED
    BY <1>7, <2>1, <2>2, <2>3, <2>4, <2>5, <2>6, <2>7
       DEF SyncStep, ListingFails, ListingMalformed, SyncEnds
<1> QED
  BY <1>2, <1>3, <1>6, <1>7 DEF Next, PhysicalStep, HttpStep, PollNext, vars

(* A record is removed by a synchronisation that knows its lock absent.    *)
LEMMA Removals ==
  ASSUME TypeOK, Justified, [Next]_vars,
         NEW d \in Serial, device[d] # NoRecord, device'[d] = NoRecord
  PROVE  \E p \in Poll : polls[p].pc = "removing" /\ d \in polls[p].gone
<1>1. device' # device
  OBVIOUS
<1>2. PollNext
  BY <1>1 DEF Next, PhysicalStep, HttpStep, vars, pollVars
<1>3. PICK p \in Poll, e \in Serial : AddDevice(p, e) \/ RemoveDevice(p, e)
  BY <1>1, <1>2 DEF PollNext, DisconnectHttp, GatewayChanges, ConnectHttp, PollDue, ManualSync,
     Connects, SyncStep, StartPolling, Listed, ListingFails, ListingMalformed, ReadRecords,
     ToRemove, RereadRecords, UpdateDevice, SyncEnds
<1>4. ~AddDevice(p, e)
  <2>1. \A r \in Record : r # NoRecord
    OBVIOUS
  <2>2. (\E r \in Record : Unused(r)) => (CHOOSE r \in Record : Unused(r)) \in Record
    OBVIOUS
  <2> QED
    BY <2>1, <2>2 DEF AddDevice, TypeOK, PollTypeOK
<1>5. RemoveDevice(p, e) /\ e = d
  BY <1>3, <1>4 DEF RemoveDevice, TypeOK, PollTypeOK
<1> QED
  BY <1>5 DEF RemoveDevice, At, Justified

(* No lock loses its record unless it was absent from the gateway at some  *)
(* time since a synchronisation under way began, whatever fails or         *)
(* overlaps (device-sync.service.ts:125-172).                              *)
THEOREM RemovalsAreJustified == Spec => RemovalsJustified
<1>1. Spec => []Justified
  BY InitJustified, StepJustified, TypeCorrect, PTL DEF Spec
<1>2. TypeOK /\ Justified /\ [Next]_vars =>
        [\A d \in Serial : device[d] # NoRecord /\ device'[d] = NoRecord
           => \E p \in Poll : polls[p].pc = "removing" /\ d \in polls[p].gone]_pollVars
  BY Removals
<1> QED
  BY <1>1, <1>2, TypeCorrect, PTL DEF Spec, RemovalsJustified

(* A synchronisation has listed serials to add, and others to remove.      *)
Sorted ==
  \A p \in Poll :
    /\ At(p, "adding") => polls[p].todo \cap Absent(polls[p].seen) = {}
    /\ At(p, "removing") => polls[p].todo \subseteq Absent(polls[p].seen)

LEMMA InitSorted == Init => Sorted
BY DEF Init, PollInit, Sorted, At, Idle

LEMMA StepSorted ==
  ASSUME TypeOK, Sorted, [Next]_vars
  PROVE  Sorted'
<1> DEFINE Holds(q) ==
      /\ q.pc = "adding" => q.todo \cap Absent(q.seen) = {}
      /\ q.pc = "removing" => q.todo \subseteq Absent(q.seen)
<1>0. \A p \in Poll : polls[p] \in Progress /\ Holds(polls[p])
  BY DEF TypeOK, PollTypeOK, Sorted, At
<1>1. SUFFICES \A p \in Poll : Holds(polls'[p])
  BY DEF Sorted, At, Absent
<1>2. CASE UNCHANGED pollVars \/ DisconnectHttp
  BY <1>0, <1>2 DEF DisconnectHttp, pollVars
<1>3. ASSUME NEW d \in Serial, GatewayChanges(d)
      PROVE  \A p \in Poll : Holds(polls'[p])
  <2> SUFFICES ASSUME NEW p \in Poll PROVE Holds(polls'[p])
    OBVIOUS
  <2>1. polls'[p] \in {polls[p], [polls[p] EXCEPT !.gone = @ \cup {d}]}
    BY <1>3 DEF GatewayChanges, TypeOK, PollTypeOK
  <2>2. polls'[p].pc = polls[p].pc /\ polls'[p].todo = polls[p].todo /\ polls'[p].seen = polls[p].seen
    BY <1>0, <2>1 DEF Progress
  <2> QED
    BY <1>0, <2>2
<1>4. ASSUME NEW p \in Poll, NEW new, polls' = [polls EXCEPT ![p] = new], Holds(new)
      PROVE  \A other \in Poll : Holds(polls'[other])
  BY <1>0, <1>4 DEF TypeOK, PollTypeOK
<1>5. ASSUME NEW p \in Poll, NEW manual, NEW pc \in {"connecting", "listing"}, Started(p, manual, pc)
      PROVE  \A other \in Poll : Holds(polls'[other])
  <2> DEFINE new == [Idle EXCEPT !.pc = pc, !.manual = manual, !.gone = Absent(locks)]
  <2>1. new.pc = pc
    BY DEF Idle
  <2>2. polls' = [polls EXCEPT ![p] = new]
    BY <1>5 DEF Started
  <2> HIDE DEF new
  <2> QED
    BY <1>4, <2>1, <2>2
<1>6. ASSUME NEW p \in Poll, Ends(p) PROVE \A other \in Poll : Holds(polls'[other])
  <2>1. Holds(Idle)
    BY DEF Idle
  <2> QED
    BY <1>4, <1>6, <2>1 DEF Ends
<1>7. ASSUME NEW p \in Poll, StartPolling(p) \/ Listed(p) \/ RereadRecords(p), ~Ends(p)
      PROVE  \A other \in Poll : Holds(polls'[other])
  <2>1. polls[p] \in Progress
    BY <1>0
  <2> DEFINE Elsewhere == \E new : /\ polls' = [polls EXCEPT ![p] = new]
                                   /\ new.pc \in {"listing", "reading", "updating"}
  <2>2. Elsewhere
    <3>1. CASE StartPolling(p)
      <4> DEFINE new == [polls[p] EXCEPT !.pc = "listing"]
      <4>1. polls' = [polls EXCEPT ![p] = new] /\ new.pc = "listing"
        BY <1>7, <2>1, <3>1 DEF StartPolling, TypeOK, PollTypeOK, Progress
      <4> HIDE DEF new
      <4> QED
        BY <4>1
    <3>2. CASE Listed(p)
      <4> DEFINE new == [polls[p] EXCEPT !.seen = locks, !.pc = "reading"]
      <4>1. polls' = [polls EXCEPT ![p] = new] /\ new.pc = "reading"
        BY <2>1, <3>2 DEF Listed, TypeOK, PollTypeOK, Progress
      <4> HIDE DEF new
      <4> QED
        BY <4>1
    <3>3. CASE RereadRecords(p)
      <4> DEFINE todo == {d \in Serial \ Absent(polls[p].seen) : device[d] # NoRecord}
                 new == [polls[p] EXCEPT !.pc = "updating", !.held = device, !.was = recorded,
                                         !.todo = todo]
      <4>1. polls' = [polls EXCEPT ![p] = new] /\ new.pc = "updating"
        BY <2>1, <3>3 DEF RereadRecords, TypeOK, PollTypeOK, Progress
      <4> HIDE DEF new
      <4> QED
        BY <4>1
    <3> QED
      BY <1>7, <3>1, <3>2, <3>3
  <2> QED
    BY <1>4, <2>2
<1>8. ASSUME NEW p \in Poll, ReadRecords(p) PROVE \A other \in Poll : Holds(polls'[other])
  <2> DEFINE todo == {d \in Serial \ Absent(polls[p].seen) : device[d] = NoRecord}
             new == [polls[p] EXCEPT !.held = device, !.pc = "adding", !.todo = todo]
  <2>1. polls' = [polls EXCEPT ![p] = new]
    BY <1>8 DEF ReadRecords, TypeOK, PollTypeOK
  <2>2. new.pc = "adding" /\ new.seen = polls[p].seen /\ new.todo = todo
    BY <1>0 DEF Progress
  <2>3. todo \cap Absent(polls[p].seen) = {}
    OBVIOUS
  <2> HIDE DEF new, todo
  <2>4. Holds(new)
    BY <2>2, <2>3
  <2> QED
    BY <1>4, <2>1, <2>4
<1>9. ASSUME NEW p \in Poll, ToRemove(p) PROVE \A other \in Poll : Holds(polls'[other])
  <2> DEFINE todo == {d \in Absent(polls[p].seen) : polls[p].held[d] # NoRecord}
             new == [polls[p] EXCEPT !.pc = "removing", !.todo = todo]
  <2>1. polls' = [polls EXCEPT ![p] = new]
    BY <1>9 DEF ToRemove, TypeOK, PollTypeOK
  <2>2. new.pc = "removing" /\ new.seen = polls[p].seen /\ new.todo = todo
    BY <1>0 DEF Progress
  <2>3. todo \subseteq Absent(polls[p].seen)
    OBVIOUS
  <2> HIDE DEF new, todo
  <2>4. Holds(new)
    BY <2>2, <2>3
  <2> QED
    BY <1>4, <2>1, <2>4
<1>10. ASSUME NEW p \in Poll, NEW d \in Serial,
              AddDevice(p, d) \/ RemoveDevice(p, d) \/ UpdateDevice(p, d)
       PROVE  \A other \in Poll : Holds(polls'[other])
  <2> DEFINE new == [polls[p] EXCEPT !.todo = @ \ {d}]
  <2>1. polls' = [polls EXCEPT ![p] = new]
    BY <1>10 DEF AddDevice, RemoveDevice, UpdateDevice, TypeOK, PollTypeOK
  <2>2. new.pc = polls[p].pc /\ new.seen = polls[p].seen /\ new.todo \subseteq polls[p].todo
    BY <1>0 DEF Progress
  <2> HIDE DEF new
  <2>3. Holds(new)
    BY <1>0, <2>2
  <2> QED
    BY <1>4, <2>1, <2>3
<1>11. ASSUME NEW p \in Poll, ConnectHttp(p) \/ PollDue(p) \/ ManualSync(p)
       PROVE  \A other \in Poll : Holds(polls'[other])
  BY <1>5, <1>11 DEF ConnectHttp, PollDue, ManualSync, Connects
<1> QED
  BY <1>2, <1>3, <1>6, <1>7, <1>8, <1>9, <1>10, <1>11
     DEF Next, PhysicalStep, HttpStep, PollNext, SyncStep, ListingFails, ListingMalformed, SyncEnds,
         vars

(* What a step does to the records while no synchronisation goes by an     *)
(* older listing: those of present locks stay, and change only to tell     *)
(* what the gateway has; those of absent locks only go.                    *)
Improves ==
  /\ \A d \in Serial \ Absent(locks) :
       device[d] # NoRecord => device'[d] = device[d] /\ recorded'[d] \in {recorded[d], locks[d]}
  /\ \A d \in Absent(locks) : device'[d] \in {NoRecord, device[d]}

LEMMA FreshImproves ==
  ASSUME TypeOK, Updatable, Sorted, Fresh, locks' = locks, [Next]_vars
  PROVE  Improves
<1>0. device \in [Serial -> Record \cup {NoRecord}] /\ recorded \in [Serial -> LockState]
      /\ Absent(locks) \subseteq Serial
  BY DEF TypeOK, PollTypeOK, Absent
<1>1. ASSUME NEW p \in Poll, NEW d \in Serial, AddDevice(p, d) PROVE Improves
  <2>1. d \in Serial \ Absent(locks)
    BY <1>1 DEF AddDevice, Sorted, Fresh, At
  <2>2. CASE device[d] # NoRecord /\ UNCHANGED <<device, recorded>>
    BY <1>0, <2>2 DEF Improves
  <2>3. CASE device[d] = NoRecord
    <3>1. \A e \in Serial : e # d => device'[e] = device[e] /\ recorded'[e] = recorded[e]
      BY <1>0, <1>1 DEF AddDevice
    <3> QED
      BY <1>0, <2>1, <2>3, <3>1 DEF Improves
  <2> QED
    BY <1>1, <2>2, <2>3 DEF AddDevice
<1>2. ASSUME NEW p \in Poll, NEW d \in Serial, RemoveDevice(p, d) PROVE Improves
  <2>1. d \in Absent(locks)
    BY <1>2 DEF RemoveDevice, Sorted, Fresh, At
  <2>2. \A e \in Serial : e # d => device'[e] = device[e] /\ recorded'[e] = recorded[e]
    BY <1>0, <1>2 DEF RemoveDevice
  <2>3. device'[d] \in {NoRecord, device[d]}
    BY <1>0, <1>2 DEF RemoveDevice
  <2> QED
    BY <1>0, <2>1, <2>2, <2>3 DEF Improves
<1>3. ASSUME NEW p \in Poll, NEW d \in Serial, UpdateDevice(p, d) PROVE Improves
  <2>1. polls[p].seen = locks
    BY <1>3 DEF UpdateDevice, Fresh, At
  <2>2. \A e \in Serial : recorded'[e] \in {recorded[e], locks[e]}
    BY <1>0, <1>3, <2>1 DEF UpdateDevice
  <2> QED
    BY <1>0, <1>3, <2>2 DEF Improves, UpdateDevice
<1>4. CASE UNCHANGED <<device, recorded>>
  BY <1>0, <1>4 DEF Improves
<1>5. \/ UNCHANGED <<device, recorded>>
      \/ \E p \in Poll, d \in Serial : AddDevice(p, d) \/ RemoveDevice(p, d) \/ UpdateDevice(p, d)
  BY DEF Next, PhysicalStep, HttpStep, PollNext, DisconnectHttp, GatewayChanges, ConnectHttp,
     PollDue, ManualSync, Connects, SyncStep, StartPolling, Listed, ListingFails,
     ListingMalformed, ReadRecords, ToRemove, RereadRecords, SyncEnds, vars, pollVars
<1> QED
  BY <1>1, <1>2, <1>3, <1>4, <1>5

(* Whatever another synchronisation does, one is no farther from its end.  *)
LEMMA OthersImprove ==
  ASSUME TypeOK, Improves, locks' = locks, NEW p \in Poll, polls'[p] = polls[p], Mirroring(p)
  PROVE  Mirroring(p)'
<1>1. Absent(locks)' = Absent(locks) /\ Absent(locks) \subseteq Serial
  BY DEF Absent
<1>2. CASE polls[p].pc = "adding"
  BY <1>1, <1>2 DEF Mirroring, Improves
<1>3. CASE polls[p].pc = "removing"
  BY <1>1, <1>3 DEF Mirroring, Improves
<1>4. CASE polls[p].pc = "updating"
  BY <1>1, <1>4 DEF Mirroring, Improves
<1>5. CASE polls[p].pc = "reading"
  BY <1>5 DEF Mirroring
<1> QED
  BY <1>2, <1>3, <1>4, <1>5 DEF Mirroring

(* A synchronisation that goes by what the gateway has comes closer to     *)
(* records that tell it by each step of its own.                           *)
LEMMA OwnImproves ==
  ASSUME TypeOK, Improves, Fresh, locks' = locks, NEW p \in Poll, SyncStep(p), Mirroring(p)
  PROVE  Mirroring(p)' \/ Mirrored'
<1>0. /\ polls[p] \in Progress /\ polls \in [Poll -> Progress] /\ polls[p].seen = locks
      /\ device \in [Serial -> Record \cup {NoRecord}] /\ recorded \in [Serial -> LockState]
      /\ locks \in Listing
  BY DEF TypeOK, PollTypeOK, Fresh, Mirroring
<1>1. Absent(locks)' = Absent(locks) /\ Absent(locks) \subseteq Serial
  BY DEF Absent
<1>2. CASE ReadRecords(p)
  <2>1. /\ polls'[p].pc = "adding" /\ polls'[p].held = device
        /\ polls'[p].todo = {d \in Serial \ Absent(locks) : device[d] = NoRecord}
        /\ device' = device
    BY <1>0, <1>2 DEF ReadRecords, Progress
  <2> QED
    BY <1>1, <2>1 DEF Mirroring
<1>3. CASE ToRemove(p)
  <2>1. /\ polls[p].pc = "adding" /\ polls[p].todo = {}
        /\ polls'[p].pc = "removing" /\ polls'[p].held = polls[p].held
        /\ polls'[p].todo = {d \in Absent(locks) : polls[p].held[d] # NoRecord}
        /\ device' = device
    BY <1>0, <1>3 DEF ToRemove, At, Progress
  <2> QED
    BY <1>1, <2>1 DEF Mirroring
<1>4. CASE RereadRecords(p)
  <2>1. /\ polls[p].pc = "removing" /\ polls[p].todo = {}
        /\ polls'[p].pc = "updating" /\ polls'[p].held = device /\ polls'[p].was = recorded
        /\ polls'[p].todo = {d \in Serial \ Absent(locks) : device[d] # NoRecord}
        /\ device' = device /\ recorded' = recorded
    BY <1>0, <1>4 DEF RereadRecords, At, Progress
  <2> QED
    BY <1>1, <2>1 DEF Mirroring
<1>5. CASE SyncEnds(p)
  <2>1. polls[p].pc = "updating" /\ polls[p].todo = {} /\ UNCHANGED <<device, recorded>>
    BY <1>5 DEF SyncEnds, At
  <2> QED
    BY <1>1, <2>1 DEF Mirroring, Mirrored, Absent
<1>6. ASSUME NEW d \in Serial, AddDevice(p, d) \/ RemoveDevice(p, d) \/ UpdateDevice(p, d)
      PROVE  Mirroring(p)'
  <2>1. /\ polls'[p].pc = polls[p].pc /\ polls'[p].held = polls[p].held
        /\ polls'[p].was = polls[p].was /\ polls'[p].todo = polls[p].todo \ {d}
    BY <1>0, <1>6 DEF AddDevice, RemoveDevice, UpdateDevice, Progress
  <2>2. CASE AddDevice(p, d)
    <3>1. polls[p].pc = "adding"
      BY <2>2 DEF AddDevice, At
    <3>2. device'[d] # NoRecord
      <4>1. (\E r \in Record : Unused(r)) => (CHOOSE r \in Record : Unused(r)) \in Record
        OBVIOUS
      <4> QED
        BY <1>0, <2>2, <4>1 DEF AddDevice
    <3> QED
      BY <1>1, <2>1, <3>1, <3>2 DEF Mirroring, Improves
  <2>3. CASE RemoveDevice(p, d)
    <3>1. polls[p].pc = "removing"
      BY <2>3 DEF RemoveDevice, At
    <3>2. d \in Absent(locks) => device'[d] = NoRecord
      BY <1>0, <2>3, <3>1 DEF RemoveDevice, Mirroring
    <3> QED
      BY <1>1, <2>1, <3>1, <3>2 DEF Mirroring, Improves
  <2>4. CASE UpdateDevice(p, d)
    <3>1. polls[p].pc = "updating"
      BY <2>4 DEF UpdateDevice, At
    <3>2. d \notin Absent(locks) => recorded'[d] = locks[d]
      BY <1>0, <2>4, <3>1 DEF UpdateDevice, Mirroring
    <3> QED
      BY <1>1, <2>1, <3>1, <3>2 DEF Mirroring, Improves
  <2> QED
    BY <1>6, <2>2, <2>3, <2>4
<1> QED
  BY <1>2, <1>3, <1>4, <1>5, <1>6
     DEF SyncStep, StartPolling, Listed, ListingFails, ListingMalformed, At, Mirroring

LEMMA SyncsMirror ==
  ASSUME TypeOK, Updatable, Sorted, Fresh, locks' = locks, [Next]_vars
  PROVE  /\ Mirrored => Mirrored'
         /\ \A p \in Poll : Mirroring(p) => Mirroring(p)' \/ Mirrored'
<1>1. Improves
  BY FreshImproves
<1>2. Mirrored => Mirrored'
  BY <1>1 DEF Mirrored, Improves, Absent
<1>3. ASSUME NEW p \in Poll, Mirroring(p) PROVE Mirroring(p)' \/ Mirrored'
  <2>1. CASE polls'[p] = polls[p]
    BY <1>1, <1>3, <2>1, OthersImprove
  <2>2. CASE SyncStep(p)
    BY <1>1, <1>3, <2>2, OwnImproves
  <2>3. polls'[p] = polls[p] \/ SyncStep(p)
    <3>1. ~(ConnectHttp(p) \/ PollDue(p) \/ ManualSync(p))
      BY <1>3 DEF ConnectHttp, PollDue, ManualSync, At, Mirroring
    <3>2. \A d \in Serial : ~GatewayChanges(d)
      BY DEF GatewayChanges, TypeOK, PollTypeOK, Listing
    <3>3. ASSUME NEW q \in Poll, q # p,
                 ConnectHttp(q) \/ PollDue(q) \/ ManualSync(q) \/ SyncStep(q)
          PROVE  polls'[p] = polls[p]
      BY <3>3 DEF ConnectHttp, PollDue, ManualSync, SyncStep, Connects, Started, Ends,
         StartPolling, Listed, ListingFails, ListingMalformed, ReadRecords, ToRemove,
         RereadRecords, SyncEnds, AddDevice, RemoveDevice, UpdateDevice, TypeOK, PollTypeOK
    <3>4. UNCHANGED polls \/ \E q \in Poll : \/ ConnectHttp(q) \/ PollDue(q) \/ ManualSync(q)
                                             \/ SyncStep(q)
      BY <3>2 DEF Next, PhysicalStep, HttpStep, PollNext, DisconnectHttp, vars, pollVars
    <3> QED
      BY <3>1, <3>3, <3>4
  <2> QED
    BY <2>1, <2>2, <2>3
<1> QED
  BY <1>2, <1>3

(* While the gateway does not change and no synchronisation goes by an     *)
(* older listing, each gets the records right by its end, whatever         *)
(* overlaps, and records that are right stay so (http.gateway.ts:162-194). *)
THEOREM SyncsGetRecordsRight == Spec => FreshSyncsMirror
<1>1. Spec => []Updatable
  BY InitTypes, InitUpdatable, StepTypes, PTL DEF Spec
<1>2. Spec => []Sorted
  BY InitSorted, StepSorted, TypeCorrect, PTL DEF Spec
<1>3. TypeOK /\ Updatable /\ Sorted /\ [Next]_vars =>
        [Fresh /\ UNCHANGED locks =>
           /\ Mirrored => Mirrored'
           /\ \A p \in Poll : Mirroring(p) => Mirroring(p)' \/ Mirrored']_pollVars
  BY SyncsMirror
<1> QED
  BY <1>1, <1>2, <1>3, TypeCorrect, PTL DEF Spec, FreshSyncsMirror
=============================================================================
