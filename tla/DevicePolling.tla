--------------------------- MODULE DevicePolling ---------------------------
(* A gateway reached over HTTP (gateway/gateways/http.gateway.ts) and the  *)
(* device records kept from what it lists (services/device-sync.service.ts *)
(* and models/device.model.ts).  The interval starts a poll whether or not *)
(* earlier ones have ended, and requests start synchronisations besides:   *)
(* each lists the gateway's locks, reads the records, adds and removes     *)
(* some, reads the records again and updates the lock statuses, awaiting   *)
(* every step.                                                             *)
(*                                                                         *)
(* A removed record takes its unit link and its denylist entries with it.  *)
EXTENDS BaseGateway, Naturals, FiniteSets

CONSTANTS
  Serial,       \* the serials of the gateway's locks
  Record,       \* ids of device records
  Poll,         \* synchronisations there may be at a time
  NoRecord,     \* no record
  MaxFailures,  \* MAX_FAILURES_BEFORE_OFFLINE
  MaxChanges    \* bound of the changes at the gateway

ASSUME RecordAssumption == NoRecord \notin Record
ASSUME FailuresAssumption == MaxFailures \in Nat \ {0}
ASSUME ChangesAssumption == MaxChanges \in Nat

LockState == {"locked", "unlocked"}

VARIABLES
  polling,    \* is pollingInterval set?
  failures,   \* consecutiveFailures
  locks,      \* the gateway: per serial, "absent" or the state of the lock
  changes,    \* changes at the gateway so far
  device,     \* per serial, its record in blulok_devices
  recorded,   \* per serial, the record's lock_status, if there is a record
  polls       \* per synchronisation, how far it has come

pollVars == <<polling, failures, locks, changes, device, recorded, polls>>

\* pc: the step awaited;  manual: started by a request;  seen: the listing;
\* held: the records it has read;  todo: the serials to add, remove or update;
\* was: the lock statuses it has read;  gone (history): the serials absent at
\* the gateway at some time since it began.
Phase == {"idle", "connecting", "listing", "reading", "adding", "removing",
          "updating"}
Listing == [Serial -> LockState \cup {"absent"}]
Progress ==
  [pc : Phase, manual : BOOLEAN, seen : Listing, held : [Serial -> Record \cup {NoRecord}],
   was : [Serial -> LockState], todo : SUBSET Serial, gone : SUBSET Serial]
Absent(listing) == {d \in Serial : listing[d] = "absent"}

Nowhere == [d \in Serial |-> "absent"]
Unread == [d \in Serial |-> NoRecord]
Unknown == [d \in Serial |-> "locked"]
Idle == [pc |-> "idle", manual |-> FALSE, seen |-> Nowhere, held |-> Unread,
         was |-> Unknown, todo |-> {}, gone |-> {}]

PollTypeOK ==
  /\ polling \in BOOLEAN /\ failures \in 0 .. MaxFailures
  /\ locks \in Listing /\ changes \in 0 .. MaxChanges
  /\ device \in [Serial -> Record \cup {NoRecord}]
  /\ recorded \in [Serial -> LockState]
  /\ polls \in [Poll -> Progress]

PollInit ==
  /\ polling = FALSE /\ failures = 0
  /\ locks \in Listing /\ changes = 0
  /\ device = Unread /\ recorded = Unknown
  /\ polls = [p \in Poll |-> Idle]

-----------------------------------------------------------------------------
(* The gateway                                                             *)

\* HttpGateway.disconnect.  Polls under way go on.
DisconnectHttp ==
  /\ polling' = FALSE
  /\ SetBoth("disconnected")
  /\ UNCHANGED <<failures, locks, changes, device, recorded, polls>>

\* Environment: a lock is added to the gateway, removed, opened or closed.
GatewayChanges(d) ==
  /\ changes < MaxChanges
  /\ changes' = changes + 1
  /\ \E to \in (LockState \cup {"absent"}) \ {locks[d]} :
       /\ locks' = [locks EXCEPT ![d] = to]
       /\ polls' = IF to = "absent"
                   THEN [p \in Poll |-> IF polls[p].pc = "idle" THEN polls[p]
                                        ELSE [polls[p] EXCEPT !.gone = @ \cup {d}]]
                   ELSE polls
  /\ UNCHANGED <<baseVars, polling, failures, device, recorded>>

-----------------------------------------------------------------------------
(* One synchronisation                                                     *)

Started(p, manual, pc) ==
  polls' = [polls EXCEPT ![p] = [Idle EXCEPT !.pc = pc, !.manual = manual,
                                             !.gone = Absent(locks)]]
At(p, pc) == polls[p].pc = pc
Ends(p) == polls' = [polls EXCEPT ![p] = Idle]

\* HttpGateway.connect: nothing is contacted, the connection counts as made at
\* once, and polling starts when the gateway's status has been written.
Connects(p, manual) ==
  /\ SetBoth("connected")
  /\ Started(p, manual, "connecting")
  /\ UNCHANGED <<polling, failures, locks, changes, device, recorded>>

\* The service connects the gateway.
ConnectHttp(p) == At(p, "idle") /\ Connects(p, TRUE)

\* The interval fires: pollAndSyncDevices, connecting after too many failures.
\* Mutant: only a connected gateway is polled.
PollDue_Connected(p) ==
  /\ polling /\ At(p, "idle") /\ state = "connected"
  /\ Started(p, FALSE, "listing")
  /\ UNCHANGED <<baseVars, polling, failures, locks, changes, device, recorded>>

PollDue(p) ==
  /\ polling /\ At(p, "idle")
  /\ \/ failures >= MaxFailures /\ Connects(p, FALSE)
     \/ /\ failures < MaxFailures
        /\ Started(p, FALSE, "listing")
        /\ UNCHANGED <<baseVars, polling, failures, locks, changes, device, recorded>>

\* A request synchronises the gateway: sync(true), or sync(false) as a test.
ManualSync(p) ==
  /\ At(p, "idle")
  /\ Started(p, TRUE, "listing")
  /\ UNCHANGED <<baseVars, polling, failures, locks, changes, device, recorded>>

\* The rest of connect(): it starts polling even if disconnect() came between.
StartPolling(p) ==
  /\ At(p, "connecting")
  /\ polling' = TRUE
  /\ \/ polls[p].manual /\ Ends(p) /\ UNCHANGED failures
     \/ /\ ~polls[p].manual
        /\ polls' = [polls EXCEPT ![p].pc = "listing"]
        /\ failures' = 0
  /\ UNCHANGED <<baseVars, locks, changes, device, recorded>>

\* getAllLocks: the gateway lists its locks.
Listed(p) ==
  /\ At(p, "listing")
  /\ polls' = [polls EXCEPT ![p].seen = locks, ![p].pc = "reading"]
  /\ UNCHANGED <<baseVars, polling, failures, locks, changes, device, recorded>>

\* The request fails, and the connection with it (HttpConnection.makeRequest),
\* or the answer is of no use, which the connection is not told.  sync returns
\* what it has, so that a poll takes it for a success.
\* Mutant: a gateway that does not answer has no locks.
ListingFails_Empty(p) ==
  /\ At(p, "listing")
  /\ SetBoth("error")
  /\ polls' = [polls EXCEPT ![p].seen = Nowhere, ![p].pc = "reading"]
  /\ UNCHANGED <<polling, failures, locks, changes, device, recorded>>

ListingFails(p) ==
  /\ At(p, "listing")
  /\ SetBoth("error") \/ UNCHANGED baseVars
  /\ failures' = IF polls[p].manual THEN failures ELSE 0
  /\ Ends(p)
  /\ UNCHANGED <<polling, locks, changes, device, recorded>>

\* An answer with an entry that is no lock: sync throws.
ListingMalformed(p) ==
  /\ At(p, "listing")
  /\ failures' = IF polls[p].manual \/ failures >= MaxFailures THEN failures ELSE failures + 1
  /\ Ends(p)
  /\ UNCHANGED <<baseVars, polling, locks, changes, device, recorded>>

\* syncGatewayDevices reads the records: what to add.
ReadRecords(p) ==
  /\ At(p, "reading")
  /\ polls' = [polls EXCEPT ![p].held = device, ![p].pc = "adding",
                 ![p].todo = {d \in Serial \ Absent(polls[p].seen) : device[d] = NoRecord}]
  /\ UNCHANGED <<baseVars, polling, failures, locks, changes, device, recorded>>

\* A record id no one has or remembers.
Unused(r) == \A d \in Serial : device[d] # r /\ \A p \in Poll : polls[p].held[d] # r

\* addGatewayDevice: serials are unique, a second insertion fails and is logged.
AddDevice(p, d) ==
  /\ At(p, "adding") /\ d \in polls[p].todo
  /\ \/ /\ device[d] = NoRecord /\ \E r \in Record : Unused(r)
        /\ device' = [device EXCEPT ![d] = CHOOSE r \in Record : Unused(r)]
        /\ recorded' = [recorded EXCEPT ![d] = "locked"]
     \/ device[d] # NoRecord /\ UNCHANGED <<device, recorded>>
  /\ polls' = [polls EXCEPT ![p].todo = @ \ {d}]
  /\ UNCHANGED <<baseVars, polling, failures, locks, changes>>

\* What to remove, once all are added.
ToRemove(p) ==
  /\ At(p, "adding") /\ polls[p].todo = {}
  /\ polls' = [polls EXCEPT ![p].pc = "removing",
                 ![p].todo = {d \in Absent(polls[p].seen) : polls[p].held[d] # NoRecord}]
  /\ UNCHANGED <<baseVars, polling, failures, locks, changes, device, recorded>>

\* removeGatewayDevice, by the id of the record that was read.
RemoveDevice(p, d) ==
  /\ At(p, "removing") /\ d \in polls[p].todo
  /\ IF device[d] = polls[p].held[d]
     THEN /\ device' = [device EXCEPT ![d] = NoRecord]
          /\ recorded' = [recorded EXCEPT ![d] = "locked"]
     ELSE UNCHANGED <<device, recorded>>
  /\ polls' = [polls EXCEPT ![p].todo = @ \ {d}]
  /\ UNCHANGED <<baseVars, polling, failures, locks, changes>>

\* updateDeviceStatuses reads the records again.
\* Mutant: it goes by the records that syncGatewayDevices read.
RereadRecords_Once(p) ==
  /\ At(p, "removing") /\ polls[p].todo = {}
  /\ polls' = [polls EXCEPT ![p].pc = "updating", ![p].was = recorded,
                 ![p].todo = {d \in Serial \ Absent(polls[p].seen) : polls[p].held[d] # NoRecord}]
  /\ UNCHANGED <<baseVars, polling, failures, locks, changes, device, recorded>>

RereadRecords(p) ==
  /\ At(p, "removing") /\ polls[p].todo = {}
  /\ polls' = [polls EXCEPT ![p].pc = "updating", ![p].held = device, ![p].was = recorded,
                 ![p].todo = {d \in Serial \ Absent(polls[p].seen) : device[d] # NoRecord}]
  /\ UNCHANGED <<baseVars, polling, failures, locks, changes, device, recorded>>

\* updateDeviceFromGatewayData: written if it differs from what was read.
UpdateDevice(p, d) ==
  /\ At(p, "updating") /\ d \in polls[p].todo
  /\ recorded' = IF polls[p].was[d] # polls[p].seen[d] /\ device[d] = polls[p].held[d]
                 THEN [recorded EXCEPT ![d] = polls[p].seen[d]] ELSE recorded
  /\ polls' = [polls EXCEPT ![p].todo = @ \ {d}]
  /\ UNCHANGED <<baseVars, polling, failures, locks, changes, device>>

\* The keys are fetched and the synchronisation ends.  A request for keys that
\* fails is logged, but the connection has failed with it.
SyncEnds(p) ==
  /\ At(p, "updating") /\ polls[p].todo = {}
  /\ SetBoth("error") \/ UNCHANGED baseVars
  /\ failures' = IF polls[p].manual THEN failures ELSE 0
  /\ Ends(p)
  /\ UNCHANGED <<polling, locks, changes, device, recorded>>

-----------------------------------------------------------------------------
SyncStep(p) ==
  \/ StartPolling(p) \/ Listed(p) \/ ListingFails(p) \/ ListingMalformed(p)
  \/ ReadRecords(p) \/ ToRemove(p) \/ RereadRecords(p) \/ SyncEnds(p)
  \/ \E d \in Serial : AddDevice(p, d) \/ RemoveDevice(p, d) \/ UpdateDevice(p, d)

PollNext ==
  \/ DisconnectHttp
  \/ \E d \in Serial : GatewayChanges(d)
  \/ \E p \in Poll : ConnectHttp(p) \/ PollDue(p) \/ ManualSync(p) \/ SyncStep(p)

PollSpec == PollInit /\ BaseInit /\ [][PollNext]_<<baseVars, pollVars>>

-----------------------------------------------------------------------------
\* No lock loses its record, and with it its unit and its denials, unless it
\* was absent from the gateway at some time since a synchronisation now under
\* way began: whatever fails or overlaps, and however late a removal comes
\* (device-sync.service.ts 125-172, http.gateway.ts 556-588).
RemovalsJustified ==
  [][\A d \in Serial : device[d] # NoRecord /\ device'[d] = NoRecord
       => \E p \in Poll : polls[p].pc = "removing" /\ d \in polls[p].gone]_pollVars

\* The records tell what the gateway has.
Mirrored ==
  \A d \in Serial :
    IF locks[d] = "absent" THEN device[d] = NoRecord
    ELSE device[d] # NoRecord /\ recorded[d] = locks[d]

\* Every synchronisation that reads or writes records goes by a listing that
\* still tells what the gateway has.
Fresh ==
  \A p \in Poll : polls[p].pc \in {"reading", "adding", "removing", "updating"}
                  => polls[p].seen = locks

\* How far a synchronisation has made the records tell what the gateway has,
\* with what is left in todo for it to do.
Mirroring(p) ==
  LET pc == polls[p].pc    held == polls[p].held    todo == polls[p].todo
      present == Serial \ Absent(locks)
  IN /\ pc \in {"reading", "adding", "removing", "updating"}
     /\ pc = "adding" =>
          /\ \A d \in present : device[d] # NoRecord \/ d \in todo
          /\ \A d \in Absent(locks) : device[d] \in {NoRecord, held[d]}
     /\ pc = "removing" =>
          /\ \A d \in present : device[d] # NoRecord
          /\ \A d \in Absent(locks) : device[d] = NoRecord \/ (d \in todo /\ held[d] = device[d])
     /\ pc = "updating" =>
          /\ \A d \in present : /\ device[d] # NoRecord
                               /\ \/ recorded[d] = locks[d]
                                  \/ d \in todo /\ held[d] = device[d]
                                     /\ polls[p].was[d] = recorded[d]
          /\ \A d \in Absent(locks) : device[d] = NoRecord

\* While the gateway does not change and no synchronisation goes by an older
\* listing, whatever synchronisations overlap, each gets the records right step
\* by step until they are when it ends, and records that are right stay so
\* (http.gateway.ts 162-194, device-sync.service.ts 125-172, 234-302).
FreshSyncsMirror ==
  [][Fresh /\ UNCHANGED locks =>
       /\ Mirrored => Mirrored'
       /\ \A p \in Poll : Mirroring(p) => Mirroring(p)' \/ Mirrored']_pollVars

\* A gateway that goes on being polled, and answers again and again, ends up
\* with records that tell what it has, whatever overlapping polls did
\* (http.gateway.ts 141-143, 162-194).
RecordsConverge == <>[]polling => <>[]Mirrored
=============================================================================
