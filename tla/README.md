# BluLok Cloud: specification, model checking and proofs

The repository is a cloud service for electronic locks of self-storage
facilities. This directory holds TLA+ models of its backend
(`src/backend/src`, about 30,000 lines without tests) and of the part of the web
frontend (`src/frontend/src`) that keeps a connection to it, the TLC
configurations that check them on small instances, and TLAPS proofs of what
holds on every instance. Paths below are relative to `src/backend/src`, or to
`src/frontend/src` where they begin with `frontend/`.

## 1. The system

The backend is one Node process over a MySQL database. There are no
threads: code runs from one `await` to the next without interruption, and any
other request may run in between. Most of what is hard to get right follows:
data read before an `await` and used after it, handlers that nobody waits for,
entries in memory that a restart forgets, and commands to locks that are sent
once or not at all.

| Component | State it keeps | Operations | What makes it correct |
|---|---|---|---|
| Access revocation (`services/access-revocation-listener`, `denylist*`, `routes/users` DELETE, `routes/key-sharing` DELETE) | `device_denylist_entries`; what each lock denies | handlers of unassignment, assignment, deactivation, end of a sharing; daily pruning | whoever lost access is shut out while a pass is valid; whoever got it back is let in; no denial outlives a pass |
| Route Passes (`routes/passes`, `services/passes`, `models/route-pass-issuance`) | `route_pass_issuance_log`; the passes themselves are with the apps | request: audience, signature, log, answer | no pass for what is denied; the log covers the passes |
| Users and login (`routes/users`, `services/auth`) | `users.is_active`, tokens in the hands of clients | login, deactivate, activate | a deactivated user has no access |
| Unit assignments (`services/units`) | `unit_assignments` | assign, unassign, each emits an event | no more than the limit of shared tenants; nothing taken away without a reason |
| Key sharing (`routes/key-sharing`) | `key_sharing` | invite, accept, revoke | a revoked sharing opens nothing, and can be renewed |
| Gateway events (`services/gateway/gateway-events`) | open WebSockets of gateways | connect, close, unicast | delivered to whoever is connected |
| FMS synchronisation (`services/fms/fms.service`) | `activeSyncs` in memory, `fms_sync_logs`, `fms_changes`, `fms_entity_mappings` | performSync, cancelSync, review, applyChanges | one sync per facility; nothing stale, nothing lost, nothing applied twice; repeated syncs converge |
| Gateways and commands (`services/gateway/gateways`, `connections`) | a connection's state, the status shown of it, its socket, timers, pending answers | connect, disconnect, reconnect, send a command and wait | a lost link is retried; none is shown connected that is not; an answer is the answer to the command |
| Polling and device sync (`gateways/http.gateway`, `services/device-sync`) | the interval, the count of failures, `blulok_devices` | poll, request a sync, add, remove, update records | no record is lost because a request failed; records converge to what the gateway has |
| Live updates (`services/websocket`, `services/subscriptions/*`) | clients, subscriptions, watchers, whose data each watcher gets | connect, subscribe, unsubscribe, broadcast, disconnect | who subscribed is served, with data of its own; nothing is kept for who left |
| Live update client (`frontend/services/websocket`, `frontend/contexts/*`) | a socket, the subscriptions it should have, the ids it was told | log in and out, mount and unmount, reconnect, resubscribe | what a mounted widget wants is subscribed to, again after every loss |
| App devices, invites, one-time passwords | `user_devices`, `user_invites`, `user_otps` | register, rotate, revoke; send, verify, use | caps kept, tokens used once |
| Reporting, settings, web pages | queries, key-value rows | | not a source of state for anything else |

How they interact: `UnitsService` commits to the database and emits an event on
an in-process `EventEmitter`; `AccessRevocationListenerService` handles it
asynchronously, writes denylist rows and sends a signed command through
`GatewayEventsService`. Deactivation and the end of a sharing do the same from
a function that the route starts and does not await. An FMS sync calls
`UnitsService` when its changes are applied, hence starts the same handlers.
The issuance log written by `/passes/request` decides whether a command is sent
at all. Polling a gateway adds and deletes rows of `blulok_devices`, and with a
row go its unit and its denials. Whatever changes what a page shows ends in a
broadcast of the live updates. `PROJECT.json` lists every component with its
status; section 5 says what is left out and why.

## 2. Modules

| Module | What it is |
|---|---|
| `AccessRevocation` | revocation handlers, denylist, passes, gateways and locks, composed |
| `MCAccessRevocation` | instances of it for TLC |
| `AccessControl` | abstract: whom a lock may open for |
| `AccessRevocation_proofs`, `RevocationPaced_proofs` | theorems about it: under every fault, and of what it promises |
| `AccessControl_proofs` | it implements `AccessControl` |
| `FMSSync` | the life of an FMS synchronisation |
| `MCFMSSync` | instances of it for TLC |
| `FMSSync_proofs` | theorems about it |
| `Tenancy` | assignments, accounts and mappings under the units API and the FMS's changes |
| `MCTenancy`, `Tenancy_proofs` | instances of it, theorems about it |
| `BaseGateway` | the connection state and the status every gateway has |
| `GatewayLink` | a physical gateway: sockets, timeouts, reconnection, commands |
| `CommandChannel` | abstract: what a caller of a device command may rely on |
| `DevicePolling` | a gateway polled over HTTP, and the device records |
| `Gateways` | a gateway of either kind, composed of the four above |
| `MCGateways`, `Gateways_proofs` | instances of it, theorems about it |
| `Subscriptions` | the service of live updates |
| `SocketClient` | a browser's connection, its subscriptions and widgets |
| `UpdateFeed` | abstract: what a subscriber may rely on |
| `LiveUpdates` | browsers and service, composed through their sockets |
| `MCLiveUpdates`, `LiveUpdates_proofs`, `Subscriptions_proofs` | instances, theorems |

### AccessRevocation

`row` is the table `device_denylist_entries` (its unique key makes it a
function of lock and user; `by` stands for a new row's id until its handler has
read it back), `lastExp` what `isUserPassExpired` reads from the
issuance log, `assigned` the table `unit_assignments`, `active` the column
`is_active`, `session` who holds a valid login token, `passes` the unexpired
Route Passes, `lockDeny` what a lock itself remembers, `connected` the
facilities with an open socket. `jobs` holds the asynchronous functions in
flight: a record with the locks it is about, those its loop has left, the
expiry it has fixed, and as `pc` the await at which it is suspended. An action
is therefore the code between two awaits:

| `pc` | Suspended at | Action that follows |
|---|---|---|
| devices | the query for the locks | `ReadDevices` |
| check | `shouldSkipDenylistAdd` | `CheckPass` |
| clear / insert / reread | the `del` / `insert` / reading back of `DenylistEntryModel.create` | `ClearRow` / `InsertRow` / `ReadBack` |
| sendAdd | signing the packet of a facility | `SendAdd` |
| find, filter, remove, sendRemove | the steps of `onTenantAssigned` | `FindRows`, `FilterRows`, `RemoveRow`, `SendRemove` |
| audience, sign, log | the steps of `POST /passes/request` | `ResolveAudiences`, `SignPass`, `LogAndRespond` |

Administrative operations commit and start their handler in one action; the
handler's first own step is separate, so anything may come in between. `cut`
is a history variable: the accesses of passes in hand that a revocation has
taken away, which is what the locks must shut out.

`AccessControl` is what all of this is for, with none of it: who holds the unit
of a lock, who carries a pass for it, whom it denies, and of which of these a
handler is still to come. Units are granted and withdrawn, passes issued to
holders, denials made and lifted by handlers, and everything lapses in time.
`AccessRevocation` implements it under the mapping `HeldBy` (the table of
assignments), `InHand` (the audiences of passes), `DeniedAt` (what locks
remember) and `BeingHandled` (`jobs`). Rows, commands, gateways and the log do
not appear in it: they are how the promise is kept.

Abstractions: time is a counter that stops at `MaxTime`; a pass or denial that
has expired is dropped at the tick. Only tenants are modelled (the only role
whose audience comes from assignments). A lock is fitted to one unit and a unit
has one lock (`blulok_devices.unit_id` is unique, migration 004); locks that
belong to no unit can neither be assigned nor revoked. Order of delivery on a socket is the order
of sending. `DriverParsesJson` says whether the SQL driver returns JSON columns
parsed: mysql2 does for MySQL, and then `JSON.parse` in
`getLastIssuanceForUser` throws and the command is never skipped; with MariaDB
it returns text. The runs take `FALSE`, which has the behaviours of the other
(the look-up may also fail) and those that skip.

`Faults` says what the environment may do. Every promise of this component is
conditional, and the constant makes the condition explicit:

| Fault | Meaning |
|---|---|
| overlap | an assignment and a revocation of the same user and unit are handled at the same time |
| clash | a deactivation and another revocation of the same user are |
| passrace | a pass is requested while a revocation of its user is handled |
| slow | a handler is still suspended when the clock ticks |
| dberror | a query or signature of a handler fails |
| logfail | the insert into the issuance log fails, which the code ignores |
| disconnect, crash | gateways close their sockets; the server restarts |

### FMSSync

`sync[s]` is a call of `performSync`: its `pc` is the await it is suspended at,
`aborted` its `AbortController`, `auto` the setting that applies changes
unreviewed, `old`, `cur`, `todo` its loops. `active` is the map `activeSyncs`,
`log` the column `sync_status`, `change` the table `fms_changes`, `request` the
calls of `POST /fms/changes/apply`. Up to the `try` an error leaves the entry
in the map (`SetupFails`); within it an error goes through the catch block
(`fail`, `recordFailure`) to the `finally`. A failing query may have taken
effect: everywhere but in the creation of the log this is the same as failing
at the next await, and there `SetupFails` has both outcomes. `early` and
`cancelled` are history
variables. What a change says and does is in `Tenancy`. Faults:
`cancel` (users cancel), `dberror`, `crash`.

### Tenancy

`primary` and `shared` are the table `unit_assignments` by `is_primary`,
`account` the tenants' rows of `users`, `mappedUser` and `unit` the mappings of
tenants and units (a unit is absent, there without a mapping, or mapped), `fms`
what the FMS lists, `recorded` the table `fms_changes`. A task is a request or a
sync in flight and its `pc` the database call it waits for. A shared assignment
counts and inserts in two steps (`CheckShared`, `InsertShared`); other
assignments by the API are one. `Sync` fetches and compares in one step
(`Differences` is `detectChanges`) and, if changes are accepted automatically,
goes on to apply them: units before tenants before assignments, otherwise in any
order, each through the awaits of its `apply...` function. A failing call ends
the change and not the rest. `Review` applies any recorded change at any later
time and any number of times, since `applyChanges` looks at neither its age nor
its marks. `kept` is a history variable: the assignments that nothing has asked
to end. An assignment enters it whenever it is made, unless something asks for
its end already (`Unopposed`): in the synchronised facility, that the FMS, which
may list its tenant, does not list it or its unit is not mapped, or that a change
on record opposes it; in another facility, that its tenant is just being removed. It leaves
with a request to end it, or when the FMS no longer lists it.

Left out: updates of names, phones, unit status and types, validation of FMS
records, tenants whose email changes, repairs of unit mappings that point to
another unit, roles, and deactivation by an administrator (in `AccessRevocation`).
The two steps of `createUnit` are one.

### GatewayLink, DevicePolling, Gateways

`BaseGateway` has `state` (the connection's) and `status` (what the service
shows): the latter follows the former through `stateChanged` events, which are
emitted for changes only, and is also written directly.

`GatewayLink`: a socket lives from `connecting` to its close event; `late` is
one whose connection timeout fired on another socket, `failing` one given up
before it opened, `closing` one whose close event is to come. `ws` is
`this.ws`: a second `connect` replaces it without closing the first.
`reconnectTimer` is the timer that can still be cleared and `timers` counts the
others. The error and close events of a socket that did not open follow each
other in one step. `outcome` is what the caller of a command got, `messageId`
the millisecond that names its message; answers come over the socket the
command went out on, or never.

`DevicePolling`: `polls` holds the synchronisations in flight, each at the call
it awaits, with what it has seen and read. The interval starts one whether or
not others are there. A listing fails or is malformed, keys fail; the record ids
are needed because a removal names the id that was read, which may belong to a
record that is gone. `gone` is a history variable. A lock's state stands for its
status, battery and lock fields, which are written alike.

`Gateways` joins the two under `kind`: a gateway is one or the other
(`GatewayFactory.createFromConfig`), and both share `BaseGateway`.

Left out: heartbeats in both directions, the `status` column and its broadcasts,
key management and registration messages, `reinitializeGateway`, the simulated
gateway, connection URLs that do not parse, and failures of single writes of
device records, which the code logs and passes over.

### Subscriptions, SocketClient, LiveUpdates

`Subscriptions` has the service's maps: `clients`, `subs` (recorded ids of each
client), `watchers` and `context` per id, `initial` the subscriptions whose
first data is being loaded (an await between the watcher's entry and the
record), `cast` a broadcast that awaits data, which may fail to load. An id is a
type and a name: a millisecond that the service and the manager read one after the
other, so that the id told and the id kept may differ by one (`Generated`), or what
the client sent (`Chosen`), be it another client's. Two requests may share a
millisecond unless `Paced`; `uses` counts, as a history, the requests of each id.
An unsubscription is taken off the record first and then goes to the manager of
the type it names, right or wrong. `Streaming` are the types whose manager sends
everybody the same and looks at no client: the logs, whose broadcast forgets to
drop the client of an id with its last watcher. `checking` are sockets whose facilities are
being loaded, to which no listener is attached yet.

`SocketClient` has the browser's: the present socket, `subscribed` and
`subscriptionIds` (the two maps of `frontend/services/websocket.service.ts`),
`serverSubscriptions` of the React context, `mounted` the types widgets want,
`connected` and `shown` the connection state as set and as last rendered. `up`
and `down` carry messages in order. `LiveUpdates` composes them; a broken
connection loses what is on its way. What a reopened connection asks for, or a
widget that unmounts takes back, goes out in one order of its types, the same
for the same set of types: the code takes the order of its map, and the service
treats different types independently.

Left out: heartbeats, diagnostics, error events that arrive without a close,
several widgets of one type, one id for subscriptions of two types, the dashboard
layout's watchers per user, and the contents of updates (whose data it is, is kept). A browser's provisional id
is taken to differ from the service's ids.

## 3. What is checked

Every run is listed in `PROJECT.json` with its properties; each property of a
passing run has a mutant, a plausible bug of the code under which TLC finds it
violated (the operators named `X_Y` next to `X` in the modules).

| Run | Instance | Result |
|---|---|---|
| `revocation_paced` | one user, two units of one facility, a sharing, 2 handlers, one pass held when another is requested, clock to 2, passes live 2 ticks, no faults; 1.3 M states | passes |
| `revocation_live` | one user, two units of two facilities, 2 handlers, clock to 1, passes live 1 tick, no faults, weak fairness of handlers; 0.28 M states; with the refinement of `AccessControl` | passes |
| `revocation_faults` | one user, one unit, no sharing, 2 handlers, clock to 1, all faults; 1.1 M states | passes |
| `sync_lifecycle` | two facilities, two syncs, one change, one apply request, all faults, weak fairness of syncs; 0.12 M states | passes |
| `live_updates` | one browser with two sockets, one of a role with facilities and no permission, two types of which one is logs, clock to 1, requests of one millisecond, one reconnection; 0.48 M states | passes |
| `gateways` | two sockets, two commands, two attempts, one timer beside; one lock, two overlapping polls, one change at the gateway; commands of one millisecond; 0.84 M states | passes |
| `tenancy` | two facilities of one unit, three tenants (one managed by the FMS), limit 1, two tasks, three events; 0.60 M states | passes |
| `revocation_clash`, `revocation_reassign`, `sync_overlap`, `sync_stale`, `subscriptions_resume` | the smallest instances that show them | violated, see section 6 |

`RevokedPassShutOut`: once the handlers about a lock and a user are done, every
pass in hand that was revoked there is denied for as long as it is valid.
`DenialRecorded`: what a lock denies has a row that lives as long, which is
what lets the next assignment find it. `ReassignedNotDenied`: whoever has the
unit again is let in. `LiftedOnlyForAssigned`: a denial ends early only for
someone who has the unit. `LockoutBounded`: whatever is lost, nobody is locked
out for longer than a pass lives. `SkipSafe`: the optimisation that skips the
command never does so while a logged pass is valid. `RevocationTakesEffect`:
revocations reach the lock. Without any fault two revocations of one kind may
still meet (two deactivations of a user, an unassignment and the end of a
sharing) and end one another, on the unique key or by deleting the row the other
is about to read back; both properties say that a
survivor does the work, and liveness therefore assumes that revocations of the
same rows do not keep arriving for ever. `HandlersAdvance`: a handler never goes
round in circles; each of its steps ends it, brings it to a later stage or leaves
its loop fewer rows to delete, insert and read back (`Stage`, `LessLeft`), also
when it loses the unique key.
`AccessControlled`: refinement of `AccessControl`. A lock opens for a user
without its unit only while a handler about the two is in flight: passes are
issued to holders only, and while their user has a pass for the lock denials are
lifted only for who has the unit, and expire only then or while a handler is
still to come.

`ExclusiveUnlessCancelled`: one sync per facility, except after a cancellation.
`EntryHeld` and `FacilityReleased`: the entry that keeps others out belongs to
a running sync of the facility and is given back, except when the sync failed
before its `try`, which is the leak of `fms.service.ts:247-278`.
`EarlyCancelHonoured`: cancelling before the connection is up means no change
is stored. `DiscardsOnlyEnded`: the clean-up spares syncs at work. `SyncsAdvance`: no call
starts over, and each step leaves its loops fewer logs or changes.

`SharedBounded`: the limit of shared tenants is overrun only by requests in
flight, one less than there are of them. `KeptHeld` and `KeptActive`: whatever
is repeated, outdated, late or cut off, no assignment (and no account with an
assignment in another facility) is lost without a reason, be it of before or made
meanwhile. What they exempt is what the code does get wrong or cannot know: an
assignment that a change recorded earlier asks to end, one of a unit
without a mapping, which a sync takes for removed though the FMS lists it
(`services/fms/fms.service.ts:858-876`), and one made elsewhere between a removal's
reading of the assignments and its end (`:1447`, `:1479`). `Converges`: if syncs
that apply their changes keep being run, the mapped units end up assigned as the
FMS lists them, after any number of failures.

`NeverStranded`: a lost link has a timer or an event to come until its attempts
are used up. `ConnectedTrue`: nothing claims a connection that is not there.
`CommandsKept`: refinement of `CommandChannel` under `moment <- messageId`,
`outcome` and `executed` being the same variables: a command is executed at most
once and never if refused, and its answer is the result of an executed command
issued in the same millisecond. That is its own result unless two commands share a
millisecond, hence an id (`base.gateway.ts:312`), and then it need not be. `RemovalsJustified`: a record, with its unit and denials, goes only
if the lock was absent since the removing sync began: failed requests never
look like empty gateways. `RecordsConverge`: if polling stays on, records end up
as the gateway is, whatever overlapped. `FreshSyncsMirror` is why: once no sync
goes by an outdated listing, each one gets nearer to right records by every step
(`Mirroring`: what is not right yet is in its `todo`, as it was read), leaves them
right at its end, and no other sync spoils them.

`WatchersRegistered`, `ContextsWatched`: nothing is kept for a client that left,
at whatever await it left; of logs the client is (see above), and is exempt.
`WatchersServed`, `ConfirmedWatched`: whoever is confirmed and was not refused is
watched, and served its own data. A refused subscription is recorded and confirmed
too (`subscription-registry.ts:77`), against "only if it was successful"
(`services/websocket.service.ts:235`), and watched by nobody. Both properties speak
of ids of one request: requests that share a millisecond, or choose another's id,
take one another's client and end one another, and they say that the others do not
notice. `FeedKept`: refinement of
`UpdateFeed` under the mapping `Dead`, `Listening`, `Promised`: only a
withdrawal, the end of the socket or a request of the same millisecond (`Clash`)
takes a confirmed subscription away. `FirstConnectionServed`: on a page's first
connection, what is mounted is listened to in the end.

Bounds and why they are enough: two handlers in flight show every race the code
can have between two, and the findings need no third; two units of one facility
are what a deactivation needs to be cut off half-way and to send one packet for
two locks. The life of a pass within the clock's range lets it be issued, revoked, expire and be issued again;
an expiry lies one or two ticks ahead, so the boundary at the instant of expiry
is met. `MaxHeld` bounds the passes held when another is requested: with one
held, two overlapping ones are in hand, which is what makes "the last pass" differ
from "every pass".
Two syncs and two facilities show interference within and between facilities;
`sync_overlap` needs the third. In `Tenancy` three events let the FMS change
around a sync whose change is reviewed when it is outdated, or two requests
meet a restart; the limit of one shared tenant is overrun by two requests as
four would be by five. Two sockets show a timeout or a close event that hits
the successor; two commands the mixed-up answer; two polls with three record
ids show a removal of a record that was replaced in between. A second socket of
a browser shows every reconnection; a clock to 1 has two milliseconds, for two
requests with ids of their own, one whose two readings of the clock differ, or
two that share one. Deadlock is checked for `AccessRevocation`; in the others a
bounded supply (syncs, events, sockets, milliseconds) runs out. The two
violation runs of `FMSSync` identify syncs and changes that differ by name only
(`Interchangeable`); handlers are identified in the passing runs of
`AccessRevocation` that check no liveness.

Fairness: `FairSpec` of `AccessRevocation` asks that each handler in flight is
resumed, which Node's event loop does as long as queries return; nothing is
asked of users, gateways or the clock. `FairSpec` of `FMSSync` asks the same of
each sync; the FMS answers or the request times out (fetch gives up after five
minutes), and its data is finite, so detection ends. `FairSpec` of `Tenancy`
asks that the calls of a task return; that syncs keep being run is the premise
of `Converges`, not an assumption. `Gateways` asks strong fairness of the
interval, which only the bound on polls can disable, weak fairness of a
synchronisation's steps, and that a gateway asked for its locks again and again
answers some request some time; nothing of physical gateways. `LiveUpdates` asks that React
renders what has changed (`shown` catches up with `connected` again and again), that
messages arrive on an open socket and that first data is loaded; nothing
of users, facilities' look-ups, timers or the network, and the liveness properties speak of
connections that last.

## 4. What is proved

`tlapm` checks these for all values of the constants that satisfy the named
assumptions of the modules (non-empty sets of users, units and facilities, a
positive lifetime, finite sets of tenants and tasks where something is counted,
typed parameters), hence for any number of users, handlers, sockets, commands,
locks, polls, clients, tenants and tasks, and for every choice of `Faults` unless
a theorem restricts it.

* `TypeCorrect`, `SyncTypeCorrect`: the type invariants. They are inductive.
* `LockoutCorrect`: `LockoutBounded`. Not inductive alone, since a lock takes
  its expiry from a handler, and that one from a row or the clock. `ExpiryBounded`
  adds that no expiry in a handler, a row or a lock is later than now plus
  the lifetime; time only moves that bound on.
* `SkipCorrect`: `SkipSafe`. `LogComplete` says that the latest logged expiry of
  a user is at least that of each logged pass, and that only assignment handlers
  look for rows to remove, the other place where `skip` is set; a skip that
  `PassExpired` decides then has no valid logged pass against it. `JobStepShape`
  is what the many handler steps have in common.
* `RevocationPaced_proofs` say what the component promises, each theorem under
  as few assumptions on `Faults` as it needs. `LiftsAreForAssigned` assumes
  `Separate` (no overlap) and `Prompt` (no slow handler) and allows every other
  fault; `DenialsRecorded` and `ReassignedServed` assume `Undisturbed` (at most
  clash, passrace and logfail), `RevokedAreShutOut` `Paced` (at most slow). On
  small instances TLC finds each property broken by each further fault alone. `Orderly`
  says what the record of a handler holds at each await and which handlers of a
  user never meet: an assignment of a unit meets no other and no revocation of
  it. `Punctual` says that a handler's expiry is a full lifetime ahead, or still to come. `Ledger` relates rows and locks: a denial has a row that
  lives as long, or a revocation has deleted that row and is about to insert it,
  or an assignment has removed it and is about to lift the denial; and whatever
  a revocation has written, another can only have replaced by a row as fresh.
  From these follow `DenialsRecorded`, `ReassignedServed`, `LiftsAreForAssigned`.
* `RevokedAreShutOut`: `RevokedPassShutOut`. `Promised` says that each revoked
  access is shut out, or carried by a revocation in flight that is not `Doomed`
  to die: on the unique key, or because the row it has inserted is gone. An
  insertion dooms every other revocation about to insert that row, a deletion
  the one about to read it back, and whoever inserts or deletes
  takes their promises over (`TakesOver`): it is
  about the same locks (`Orderly`), and sends its commands, since it may skip
  them only if its user has nothing revoked in hand (`Foreseen`). Handlers may
  take any time because of `Outlasting`: a denial being decided, whenever its
  expiry was fixed, outlives every pass its user has, since nobody is given a
  pass while a revocation of hers is handled.
* `AccessControl_proofs`: `AccessIsControlled` is the refinement of
  `AccessControl`, again for handlers of any slowness. `Controlled` adds two facts
  to the above: a pass about to be issued is for locks of units its user holds
  (`PassesGranted`), and a pass in hand for a unit no longer held is in `cut`
  (`Foreclosed`), so that what is promised of `cut` covers it (`OnlyForHolders`).
  Operations are `Grant` or `Withdraw`, the answer to a pass request `Issue`, the
  handlers' steps `Handle`, the clock `Lapse`, everything else a stutter.
  `ControlSuffices` is the other half: no step of `AccessControl` lets a lock open
  for others than holders, but for handlers to come; `LocksOpenForHolders` joins
  the two.
* `ExclusionCorrect`: `ExclusiveUnlessCancelled`. It does not mention the map,
  so it is not inductive; `Registered` says that a running sync is the one its
  facility's entry names unless there was a cancellation. `StepEffect` reduces
  every action to one of seven effects on calls, map and cancellations.
* `EntryCorrect`: `EntryHeld`, which is inductive.
* `EarlyCancelCorrect`: `EarlyCancelHonoured`. `Quiet` says why such a sync stays
  silent: it has yet to pass a place that looks at the signal, and whoever is
  that early has stored nothing. `Forward` is the lemma that calls never go
  back, and that a call told to stop never gets to the fetch.
* `DiscardCorrect`: `DiscardsOnlyEnded`, an action property, from `Registered` and
  `OldOfFacility`: what a clean-up is to discard is of its own facility and never
  the sync itself, since a log awaits review only after its own clean-up.
* `HandlersComeToAnEnd`, `SyncsComeToAnEnd`: `HandlersAdvance` and `SyncsAdvance`,
  under every fault. Each rests on an invariant `LoopsFed`: a loop that is not over
  has something left to do. With `RevokedAreShutOut` the
  former is the untimed part of `RevocationTakesEffect` (handlers that are resumed
  end, and have then shut out what they were to), with `EntryCorrect` the latter
  that of `FacilityReleased`; the step from "less to do" to "done in the end" needs
  fairness and induction and is TLC's.
* `Tenancy_proofs`: `SharingBounded` counts. `Places` says of each unit that
  its shared tenants and the requests past the check for it are together no
  more than the limit plus the tasks less one. `KeptAssignments` and
  `KeptAccounts` rest on `Keeping`: every kept assignment exists and, in the
  synchronised facility, is asked for by the FMS, if that may list its tenant
  (`Lasting`); every recorded change is `Harmless` to it, and what a task applies
  has been recorded (`Sourced`); and a
  removal that is halfway is `Sparing`: its tenant has nothing kept in the
  facility, nor elsewhere once it has read that there is no other assignment.
  A change recorded later is of a sync that saw the assignment wanted, and an
  assignment made later is kept only if the changes on record do not oppose it,
  which is why an outdated change stays harmless.
* `Gateways_proofs`: the type invariant with `Updatable`; `NeverStranded` and
  `ConnectedTrue` are inductive with it. `CommandsAreKept` is the refinement of
  `CommandChannel`, for any clock: with `Carried` (what is on the wire was sent
  under its command's id and not executed, answers are of executed
  commands) each step is one of its steps or a stutter. `RemovalsAreJustified`
  rests on `Justified`: what a sync has seen absent, or is to remove, is in `gone`.
  `SyncsGetRecordsRight` is `FreshSyncsMirror`, the untimed part of `RecordsConverge`:
  with `Sorted` (what is to be added was listed, what is to be removed was not)
  `FreshImproves` says that a step changes the records of present locks only to
  tell what the gateway has and those of absent locks only by removing them;
  `OthersImprove` that this takes no sync back, `OwnImproves` that a sync's own step
  brings it forward.
* `Subscriptions_proofs` are about the service with clients that send any
  subscription, under ids of their choice or not, and any unsubscription at any time,
  with nothing assumed of the clock. `IdInv` says of each id that one request uses
  only: it is told to one socket (`ToldOwn`, `ToldOnce`), which alone watches it, is
  its context and the client of a broadcast under way (`WatchersServed`, `CastOwn`);
  and who was told it watches it or the next millisecond's, which is then told to
  nobody (`Watched`). Ids that more requests use may be in any state.
* `LiveUpdates_proofs`: `Serves` shows that browsers and service implement the
  service with arbitrary clients, so the above carries over; `FeedIsKept` is the
  refinement of `UpdateFeed`, with one lemma for each kind of step and `Ended`
  (a socket connects once) beside `IdInv`; a request that comes to share an id is a
  `Clash`, and when requests are `Paced` there is none (`UsedOnce`). `TypesKept` is the type invariant;
  `Books` is the type of what a browser remembers and is about to send, and
  `OrderType` that a finite set of types has an order to send it in.

Only model-checked: the five liveness properties (`RevocationTakesEffect`,
`FacilityReleased`, `Converges`, `RecordsConverge`, `FirstConnectionServed`), since
the prover does not handle fairness. Every other property of a passing run is
proved. The properties of the violation runs are false and stay with TLC.

## 5. Not modelled, and why

Most of the repository by lines is pages, forms, tables and charts, REST handlers
that validate a request, check a role and run one query, models that map rows to
objects, migrations, seeds and developer tools. They keep no state between two
steps, so a model of them would restate them; what they change that others
depend on is in the modules above. In particular:

* FMS providers, time sync and fallback: HTTP clients and signatures; a fetch
  arrives or fails, a signature takes an await and may fail.
* App devices: the cap is checked before an insert, the race that `SharedBounded`
  is about; the rest are single updates. Invites and one-time passwords: a row is
  read, compared and marked in sequence, shared with nothing else.
* Key sharing beyond revocation: single inserts and updates. A revoked sharing
  keeps its row, so that sharing the unit with the same user again fails
  (`models/key-sharing.model.ts:243`).
* Gateway commands: the worker that executed the queue was removed (`index.ts:90`).
* What is left out of each modelled component is said with it in section 2.

To come: the composition of `Tenancy` with `AccessRevocation` through the
assignment events.

## 6. What the models found

* `revocation_clash`: delete-then-insert against a unique key
  (`models/denylist-entry.model.ts:71-89`) ends a handler when two revocations
  of a user meet (as does the row's deletion before it is read back, `:91-97`), and the units it has not reached stay open.
* `revocation_reassign`: unassign and assign in quick succession lock the
  tenant out, since the two handlers are not ordered.
* `sync_overlap`: the `finally` of a cancelled sync removes its successor's entry.
* `sync_stale`: the clean-up of uncommitted changes looks for a status that
  finished syncs never have.
* `subscriptions_resume`: a browser whose connection is lost, at whatever time,
  never subscribes again to what it had subscribed to, on any later connection
  (`frontend/services/websocket.service.ts:66`, `:197`, `:259`, `:277`).

Seen while modelling, without a run of their own:

* `routes/passes.routes.ts:37`: a deactivated user whose token is still valid gets
  new passes for denied locks, although `denylist-optimization.service.ts:28-30`
  relies on a new pass leaving them out.
* `services/gateway/connections/websocket.connection.ts:83`, `:102`: a connection
  timeout terminates whatever `this.ws` is by then, and the close event of a
  deliberate `disconnect` starts a reconnection.
* `services/gateway/gateways/http.gateway.ts:184-192` keeps automatic polls from
  changing the gateway's status, but a failing request writes `error` through
  `handleConnectionError`; a failed listing counts as a success, so that
  `consecutiveFailures` only grows with malformed answers.
* `services/device-sync.service.ts:164` announces that missing devices are marked
  offline; their records are deleted.
* `services/websocket.service.ts:143`: what a browser sends while its facilities
  are loaded is lost, and so is its close event.
* `services/subscriptions/subscription-registry.ts:77`: a denied subscription is
  reported, recorded and confirmed like a granted one.
* `services/websocket.service.ts:219`: a client may choose its subscription's id, and
  requests of one millisecond share one; the later takes over the client whose data
  both are sent. `:269`: an unsubscription that names no type or another one is
  confirmed, and the watcher stays.
* `services/subscriptions/logs-subscription-manager.ts:92-97`: the client of an id is
  not dropped with its last watcher.
* `services/gateway/gateways/base.gateway.ts:312`: commands of one millisecond get one
  another's answer.
* `services/fms/fms.service.ts:1447-1479`: whether a removed tenant is deactivated is
  decided by assignments read several awaits before; one made in another facility
  meanwhile does not count.
* `services/fms/fms.service.ts:777`: a tenant who comes back to the FMS keeps the
  account inactive; `:1018`: a unit that was created without its mapping (a
  failure in between) is never mapped by a later sync, and its tenants'
  assignments, those the FMS lists too, are proposed for removal.
