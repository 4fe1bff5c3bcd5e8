-------------------------- MODULE AccessRevocation --------------------------
(***************************************************************************)
(* Who may open which lock, and how the cloud takes that away again.       *)
(*                                                                         *)
(* A tenant holds signed Route Passes (passes.routes.ts) whose audiences   *)
(* are the locks of the units assigned to it.  A pass cannot be recalled,  *)
(* so every revocation (unassignment, deactivation of the user, end of a   *)
(* key sharing) puts the user on the denylist of the locks concerned: a    *)
(* row per lock in device_denylist_entries and a DENYLIST_ADD command that *)
(* the facility's gateway, when it is connected, hands to the locks.  A    *)
(* new assignment removes rows and sends DENYLIST_REMOVE.                  *)
(*                                                                         *)
(* All of this runs in asynchronous handlers nobody waits for.  A handler  *)
(* is a record in "jobs"; its "pc" names the await it is suspended at, so  *)
(* an action is the code between two awaits.                               *)
(***************************************************************************)
EXTENDS Integers, FiniteSets

CONSTANTS
  User, Unit, Device, Facility,
  UnitOf,           \* the unit each lock is fitted to (blulok_devices.unit_id)
  FacilityOf,       \* the facility each unit belongs to (units.facility_id)
  SharedUnit,       \* key_sharing records: pairs <<unit, user>>
  Job,              \* bound: how many handlers are in flight at a time
  TTL,              \* routePassTtlHours, in ticks
  MaxTime,          \* bound: the clock stops here
  MaxHeld,          \* bound: unexpired passes a user holds when asking for another
  DriverParsesJson, \* whether the SQL driver hands JSON columns over parsed
  Faults            \* the misbehaviour of the environment that is allowed

(* What Faults may hold.                                                   *)
(*   overlap     an assignment and a revocation of the same user and unit  *)
(*               may be handled at the same time                           *)
(*   clash       a deactivation and another revocation of the same user    *)
(*               may be handled at the same time                           *)
(*   passrace    a pass may be requested while a revocation of its user is *)
(*               handled, or the other way round                           *)
(*   slow        a handler may still be suspended when the clock ticks     *)
(*   dberror     a database call or a signature of a handler may fail      *)
(*   logfail     the insert into route_pass_issuance_log may fail          *)
(*   disconnect  gateways come and go                                      *)
(*   crash       the server restarts                                       *)
AllFaults == {"overlap", "clash", "passrace", "slow", "dberror", "logfail",
              "disconnect", "crash"}

ASSUME RevocationAssumption ==
  /\ User # {} /\ Unit # {}
  /\ UnitOf \in [Device -> Unit]
  /\ FacilityOf \in [Unit -> Facility]
  /\ SharedUnit \subseteq Unit \X User
  /\ TTL \in Nat \ {0}
  /\ MaxTime \in Nat
  /\ MaxHeld \in Nat
  /\ DriverParsesJson \in BOOLEAN
  /\ Faults \subseteq AllFaults

(* unit_id is a unique key of blulok_devices (locks that are not fitted to *)
(* a unit are left out).                                                   *)
ASSUME OneLockPerUnit == \A d, e \in Device : UnitOf[d] = UnitOf[e] => d = e

VARIABLES
  now,        \* the clock of server, database and locks
  assigned,   \* unit_assignments: set of <<unit, user>>
  active,     \* users with is_active
  session,    \* users holding an unexpired login token
  passes,     \* the unexpired Route Passes in the hands of the apps
  lastExp,    \* route_pass_issuance_log: expiry of the user's latest pass, 0 if none
  row,        \* device_denylist_entries: row[d][u]
  lockDeny,   \* what the lock itself holds: expiry of the denial, 0 if none
  connected,  \* facilities with an open gateway WebSocket
  jobs,       \* the handlers in flight
  cut         \* history: the accesses that revocations so far must shut out

vars == <<now, assigned, active, session, passes, lastExp, row, lockDeny,
          connected, jobs, cut>>

(* Instants: 0 is before every instant that can be an expiry.              *)
Time == 0 .. MaxTime + TTL

Source == {"unit_unassignment", "user_deactivation", "key_sharing_revocation"}

(* A denylist row; (device_id, user_id) is a unique key of the table.  "by" *)
(* stands for the id of a row: the handler that inserted it and is about    *)
(* to read it back by that id, which nobody else knows.                     *)
NoRow == [exp |-> 0, source |-> "none", by |-> {}]
Row == [exp : Time, source : Source \cup {"none"}, by : SUBSET Job]

Revoking == {"unassigned", "deactivated", "share_revoked"}

JobState ==
  [kind : {"idle", "assigned", "pass"} \cup Revoking,
   pc : {"idle", "devices", "check", "clear", "insert", "reread", "sendAdd",
         "find", "filter", "remove", "sendRemove",
         "audience", "sign", "log"},
   user : User, unit : Unit,
   targets : SUBSET Device,  \* the locks the handler is about
   todo : SUBSET Device,     \* those its current loop has not done
   cur : SUBSET Device,      \* the lock whose row is deleted but not yet created
   exp : Time,
   skip : BOOLEAN]           \* no command is to be sent

Idle ==
  [kind |-> "idle", pc |-> "idle",
   user |-> CHOOSE u \in User : TRUE, unit |-> CHOOSE u \in Unit : TRUE,
   targets |-> {}, todo |-> {}, cur |-> {}, exp |-> 0, skip |-> FALSE]

(* Whether its issuance was logged is a history field of a pass.           *)
Pass == [user : User, aud : SUBSET Device, exp : Time, logged : BOOLEAN]
Access == [user : User, device : Device, exp : Time]

TypeOK ==
  /\ now \in 0 .. MaxTime
  /\ assigned \subseteq Unit \X User
  /\ active \subseteq User
  /\ session \subseteq User
  /\ passes \subseteq Pass
  /\ lastExp \in [User -> Time]
  /\ row \in [Device -> [User -> Row]]
  /\ lockDeny \in [Device -> [User -> Time]]
  /\ connected \subseteq Facility
  /\ jobs \in [Job -> JobState]
  /\ cut \subseteq Access

Init ==
  /\ now = 0
  /\ assigned = {}
  /\ active = User
  /\ session = {}
  /\ passes = {}
  /\ lastExp = [u \in User |-> 0]
  /\ row = [d \in Device |-> [u \in User |-> NoRow]]
  /\ lockDeny = [d \in Device |-> [u \in User |-> 0]]
  /\ connected = Facility
  /\ jobs = [j \in Job |-> Idle]
  /\ cut = {}

-----------------------------------------------------------------------------
(* Handlers in general.                                                    *)

DevicesOf(u) == {d \in Device : UnitOf[d] = u}
AssignedDevices(t) == {d \in Device : <<UnitOf[d], t>> \in assigned}
FacilityOfDevice(d) == FacilityOf[UnitOf[d]]

Busy(kinds, t, u) ==
  \E j \in Job : /\ jobs[j].kind \in kinds
                 /\ jobs[j].user = t
                 /\ jobs[j].unit = u \/ jobs[j].kind = "deactivated"

(* What the environment waits for before it starts an operation, unless    *)
(* the corresponding fault is allowed.                                     *)
NoneOf(kinds, t) == \A j \in Job : jobs[j].kind \in kinds => jobs[j].user # t

MayAssign(t, u) == "overlap" \in Faults \/ ~Busy(Revoking, t, u)
MayRevoke(t, u) ==
  /\ "overlap" \in Faults \/ ~Busy({"assigned"}, t, u)
  /\ "passrace" \in Faults \/ NoneOf({"pass"}, t)
MayRequest(t) == "passrace" \in Faults \/ NoneOf(Revoking, t)
NoClash(kinds, t) == "clash" \in Faults \/ NoneOf(kinds, t)

AllIdle == \A j \in Job : jobs[j].kind = "idle"

Starting(j, k, p, t, u) ==
  /\ jobs[j].kind = "idle"
  /\ jobs' = [jobs EXCEPT ![j] = [Idle EXCEPT !.kind = k, !.pc = p,
                                              !.user = t, !.unit = u]]

At(j, p) == jobs[j].pc = p
Finish(j) == jobs' = [jobs EXCEPT ![j] = Idle]
Become(j, s) == jobs' = [jobs EXCEPT ![j] = s]

(* Mutated form, for a check that a longer life of denials is noticed.     *)
ExpirationDate_TooLate == now + TTL + 1

(* Mutated form: the denial is gone before the pass.                       *)
ExpirationDate_TooSoon == now + TTL - 1

(* getExpirationDate: a denial decided now lives as long as a pass signed now. *)
ExpirationDate == now + TTL

(* The accesses to the locks ds that t has in hand.                        *)
Held(t, ds) ==
  UNION {{[user |-> t, device |-> d, exp |-> p.exp] : d \in ds \cap p.aud} :
           p \in {q \in passes : q.user = t}}

-----------------------------------------------------------------------------
(* Administrative operations: commit to the database, then start a handler. *)

AssignTenant(u, t, j) ==
  /\ <<u, t>> \notin assigned
  /\ MayAssign(t, u)
  /\ assigned' = assigned \cup {<<u, t>>}
  /\ Starting(j, "assigned", "find", t, u)
  /\ cut' = {c \in cut : ~(c.user = t /\ UnitOf[c.device] = u)}
  /\ UNCHANGED <<now, active, session, passes, lastExp, row, lockDeny, connected>>

UnassignTenant(u, t, j) ==
  /\ <<u, t>> \in assigned
  /\ MayRevoke(t, u) /\ NoClash({"deactivated"}, t)
  /\ assigned' = assigned \ {<<u, t>>}
  /\ Starting(j, "unassigned", "devices", t, u)
  /\ cut' = cut \cup Held(t, DevicesOf(u))
  /\ UNCHANGED <<now, active, session, passes, lastExp, row, lockDeny, connected>>

(* DELETE /users/:id.  The assignments of the user stay.                   *)
DeactivateUser(t, j) ==
  /\ \A u \in Unit : MayRevoke(t, u)
  /\ NoClash({"unassigned", "share_revoked"}, t)
  /\ active' = active \ {t}
  /\ Starting(j, "deactivated", "devices", t, Idle.unit)
  /\ cut' = cut \cup Held(t, AssignedDevices(t))
  /\ UNCHANGED <<now, assigned, session, passes, lastExp, row, lockDeny, connected>>

(* POST /users/:id/activate, and PUT /users/:id with isActive.  Neither    *)
(* touches a denylist.                                                     *)
SetActive(t) ==
  /\ \/ active' = active \cup {t}
     \/ active' = active \ {t}
  /\ UNCHANGED <<now, assigned, session, passes, lastExp, row, lockDeny,
                 connected, jobs, cut>>

(* DELETE /key-sharing/:id: the record is switched off, and stays.         *)
RevokeSharing(u, t, j) ==
  /\ <<u, t>> \in SharedUnit
  /\ MayRevoke(t, u) /\ NoClash({"deactivated"}, t)
  /\ Starting(j, "share_revoked", "devices", t, u)
  /\ UNCHANGED <<now, assigned, active, session, passes, lastExp, row,
                 lockDeny, connected, cut>>

-----------------------------------------------------------------------------
(* Revocation handlers.                                                    *)

(* The locks concerned; a key-sharing revocation also fixes the expiry here. *)
ReadDevices(j) ==
  LET s  == jobs[j]
      ds == IF s.kind = "deactivated" THEN AssignedDevices(s.user)
                                      ELSE DevicesOf(s.unit)
  IN  /\ At(j, "devices")
      /\ IF ds = {}
           THEN Finish(j)
           ELSE Become(j, [s EXCEPT !.pc = "check", !.targets = ds, !.todo = ds,
                                    !.exp = ExpirationDate])
      /\ UNCHANGED <<now, assigned, active, session, passes, lastExp, row,
                     lockDeny, connected, cut>>

(* The last pass issued to t has expired, or none ever was.  A driver that *)
(* hands JSON columns over parsed makes JSON.parse of the audiences throw, *)
(* which counts as "do not skip".                                          *)
PassExpired(t) ==
  \/ lastExp[t] = 0
  \/ ~DriverParsesJson /\ lastExp[t] < now

(* Mutated form: an error of the look-up counts as "skip".                 *)
ShouldSkip_OnError(t, b) ==
  \/ b = PassExpired(t)
  \/ "dberror" \in Faults /\ b = TRUE

ShouldSkip(t, b) ==
  \/ b = PassExpired(t)
  \/ "dberror" \in Faults /\ b = FALSE

CheckPass(j) ==
  LET s == jobs[j]
  IN  /\ At(j, "check")
      /\ \E b \in BOOLEAN :
           /\ ShouldSkip(s.user, b)
           /\ Become(j, [s EXCEPT !.pc = "clear", !.skip = b,
                                  !.exp = IF s.kind = "share_revoked"
                                            THEN s.exp ELSE ExpirationDate])
      /\ UNCHANGED <<now, assigned, active, session, passes, lastExp, row,
                     lockDeny, connected, cut>>

(* DenylistEntryModel.create: delete the pair's row ...                    *)
ClearRow(j) ==
  LET s == jobs[j]
  IN  /\ At(j, "clear")
      /\ \E d \in s.todo :
           /\ row' = [row EXCEPT ![d][s.user] = NoRow]
           /\ Become(j, [s EXCEPT !.pc = "insert", !.cur = {d}, !.todo = @ \ {d}])
      /\ UNCHANGED <<now, assigned, active, session, passes, lastExp, lockDeny,
                     connected, cut>>

(* The unassignments an FMS sync makes are stored as "fms_sync"; no        *)
(* property tells them from the others.                                    *)
(* Mutated form: the kind of the event is stored, not a value of the enum. *)
SourceOf_Kind(kind) == kind

SourceOf(kind) ==
  CASE kind = "deactivated"   -> "user_deactivation"
    [] kind = "share_revoked" -> "key_sharing_revocation"
    [] OTHER                  -> "unit_unassignment"

(* Mutated forms: only the lock just inserted is sent; one of the three    *)
(* revocations builds the wrong packet.                                    *)
AfterInsert_LastOnly(s) ==
  IF s.todo # {} THEN [s EXCEPT !.pc = "clear", !.cur = {}]
  ELSE IF s.skip THEN Idle
  ELSE [s EXCEPT !.pc = "sendAdd", !.cur = {}, !.todo = s.cur]

AfterInsert_Remove(s) ==
  IF s.todo # {} THEN [s EXCEPT !.pc = "clear", !.cur = {}]
  ELSE IF s.skip THEN Idle
  ELSE IF s.kind = "share_revoked" THEN [s EXCEPT !.pc = "sendRemove", !.cur = {}]
  ELSE [s EXCEPT !.pc = "sendAdd", !.cur = {}, !.todo = s.targets]

AfterInsert(s) ==
  IF s.todo # {} THEN [s EXCEPT !.pc = "clear", !.cur = {}]
  ELSE IF s.skip THEN Idle
  ELSE [s EXCEPT !.pc = "sendAdd", !.cur = {}, !.todo = s.targets]

NewRow(j) == [exp |-> jobs[j].exp, source |-> SourceOf(jobs[j].kind), by |-> {j}]

(* Mutated form: on the unique key the row is deleted and inserted again,  *)
(* as often as it takes.                                                   *)
InsertRow_Retry(j) ==
  LET s == jobs[j]
  IN  /\ At(j, "insert")
      /\ \E d \in s.cur :
           IF row[d][s.user] # NoRow
             THEN /\ Become(j, [s EXCEPT !.pc = "clear", !.cur = {}, !.todo = @ \cup {d}])
                  /\ row' = row
             ELSE /\ row' = [row EXCEPT ![d][s.user] = NewRow(j)]
                  /\ Become(j, [s EXCEPT !.pc = "reread"])
      /\ UNCHANGED <<now, assigned, active, session, passes, lastExp, lockDeny,
                     connected, cut>>

(* ... insert it ...  A row another handler inserted in between violates   *)
(* the unique key; the error ends this handler.                            *)
InsertRow(j) ==
  LET s == jobs[j]
  IN  /\ At(j, "insert")
      /\ \E d \in s.cur :
           IF row[d][s.user] # NoRow
             THEN Finish(j) /\ row' = row
             ELSE /\ row' = [row EXCEPT ![d][s.user] = NewRow(j)]
                  /\ Become(j, [s EXCEPT !.pc = "reread"])
      /\ UNCHANGED <<now, assigned, active, session, passes, lastExp, lockDeny,
                     connected, cut>>

(* ... and read it back by its id.  When it has been deleted in between    *)
(* create throws, which ends this handler too.                             *)
ReadBack(j) ==
  LET s == jobs[j]
  IN  /\ At(j, "reread")
      /\ \E d \in s.cur :
           IF row[d][s.user].by = {j}
             THEN /\ row' = [row EXCEPT ![d][s.user] = [@ EXCEPT !.by = {}]]
                  /\ Become(j, AfterInsert(s))
             ELSE Finish(j) /\ row' = row
      /\ UNCHANGED <<now, assigned, active, session, passes, lastExp, lockDeny,
                     connected, cut>>

(* GatewayEventsService.unicastToFacility: whoever is connected gets it,   *)
(* nothing is queued for the others.                                       *)
Unicast(f, ds, t, exp) ==
  IF f \in connected
    THEN lockDeny' = [d \in Device |->
           IF d \in ds THEN [lockDeny[d] EXCEPT ![t] = exp] ELSE lockDeny[d]]
    ELSE lockDeny' = lockDeny

(* One packet per facility, each signed (awaited) before it is sent.       *)
SendAdd(j) ==
  LET s == jobs[j]
  IN  /\ At(j, "sendAdd")
      /\ \E f \in {FacilityOfDevice(d) : d \in s.todo} :
           LET ds   == {d \in s.todo : FacilityOfDevice(d) = f}
               rest == s.todo \ ds
           IN  /\ Unicast(f, ds, s.user, IF s.exp > now THEN s.exp ELSE 0)
               /\ IF rest = {} THEN Finish(j) ELSE Become(j, [s EXCEPT !.todo = rest])
      /\ UNCHANGED <<now, assigned, active, session, passes, lastExp, row,
                     connected, cut>>

-----------------------------------------------------------------------------
(* The assignment handler.                                                 *)

(* Mutated form: the expiry comparison of findByUnitsAndUser is inverted.  *)
LiveRows_Expired(u, t) == {d \in DevicesOf(u) : row[d][t].exp \in 1 .. now}

LiveRows(u, t) == {d \in DevicesOf(u) : row[d][t].exp > now}

FindRows(j) ==
  LET s  == jobs[j]
      ds == LiveRows(s.unit, s.user)
  IN  /\ At(j, "find")
      /\ IF ds = {}
           THEN Finish(j)
           ELSE \E d \in ds :
                  Become(j, [s EXCEPT !.pc = "filter", !.targets = ds, !.todo = ds,
                                      !.exp = row[d][s.user].exp])
      /\ UNCHANGED <<now, assigned, active, session, passes, lastExp, row,
                     lockDeny, connected, cut>>

(* Mutated form: the comparison the wrong way round.                       *)
RowExpired_Inverted(exp) == exp > now

(* shouldSkipDenylistRemove *)
RowExpired(exp) == exp < now

(* A command is needed unless the row found has expired since.             *)
FilterRows(j) ==
  LET s == jobs[j]
  IN  /\ At(j, "filter")
      /\ Become(j, [s EXCEPT !.pc = "remove", !.skip = RowExpired(s.exp)])
      /\ UNCHANGED <<now, assigned, active, session, passes, lastExp, row,
                     lockDeny, connected, cut>>

RemoveRow(j) ==
  LET s == jobs[j]
  IN  /\ At(j, "remove")
      /\ \E d \in s.todo :
           /\ row' = [row EXCEPT ![d][s.user] = NoRow]
           /\ IF s.todo = {d}
                THEN IF s.skip THEN Finish(j)
                     ELSE Become(j, [s EXCEPT !.pc = "sendRemove", !.todo = {}])
                ELSE Become(j, [s EXCEPT !.todo = @ \ {d}])
      /\ UNCHANGED <<now, assigned, active, session, passes, lastExp, lockDeny,
                     connected, cut>>

SendRemove(j) ==
  LET s == jobs[j]
  IN  /\ At(j, "sendRemove")
      /\ Unicast(FacilityOf[s.unit], s.targets, s.user, 0)
      /\ Finish(j)
      /\ UNCHANGED <<now, assigned, active, session, passes, lastExp, row,
                     connected, cut>>

-----------------------------------------------------------------------------
(* Login and POST /passes/request.                                         *)

Login(t) ==
  /\ t \in active
  /\ t \notin session
  /\ session' = session \cup {t}
  /\ UNCHANGED <<now, assigned, active, passes, lastExp, row, lockDeny,
                 connected, jobs, cut>>

SessionExpires(t) ==
  /\ t \in session
  /\ session' = session \ {t}
  /\ UNCHANGED <<now, assigned, active, passes, lastExp, row, lockDeny,
                 connected, jobs, cut>>

(* The token is verified; is_active is not read again.                     *)
RequestPass(t, j) ==
  /\ t \in session
  /\ Cardinality({p \in passes : p.user = t}) < MaxHeld
  /\ MayRequest(t)
  /\ Starting(j, "pass", "audience", t, Idle.unit)
  /\ UNCHANGED <<now, assigned, active, session, passes, lastExp, row,
                 lockDeny, connected, cut>>

ResolveAudiences(j) ==
  /\ At(j, "audience")
  /\ Become(j, [jobs[j] EXCEPT !.pc = "sign",
                               !.targets = AssignedDevices(jobs[j].user)])
  /\ UNCHANGED <<now, assigned, active, session, passes, lastExp, row,
                 lockDeny, connected, cut>>

SignPass(j) ==
  /\ At(j, "sign")
  /\ Become(j, [jobs[j] EXCEPT !.pc = "log", !.exp = now + TTL])
  /\ UNCHANGED <<now, assigned, active, session, passes, lastExp, row,
                 lockDeny, connected, cut>>

(* isUserPassExpired takes the row with the greatest issued_at, hence with *)
(* the greatest expires_at.                                                *)
LogIssuance(t, exp) ==
  lastExp' = [lastExp EXCEPT ![t] = IF exp > @ THEN exp ELSE @]

(* The issuance is logged, a failure to log it is not an error, and only   *)
(* then is the pass returned.  A pass that expired on the way, or that is  *)
(* for no lock, is of no use to the app.                                   *)
LogAndRespond(j) ==
  LET s == jobs[j]
  IN  /\ At(j, "log")
      /\ \E logged \in BOOLEAN :
           /\ IF logged THEN LogIssuance(s.user, s.exp)
                        ELSE "logfail" \in Faults /\ lastExp' = lastExp
           /\ passes' = IF s.exp > now /\ s.targets # {}
                          THEN passes \cup {[user |-> s.user, aud |-> s.targets,
                                             exp |-> s.exp, logged |-> logged]}
                          ELSE passes
      /\ Finish(j)
      /\ UNCHANGED <<now, assigned, active, session, row, lockDeny, connected, cut>>

-----------------------------------------------------------------------------
(* The environment.                                                        *)

(* Locks drop denials, and refuse passes, that have expired.               *)
Tick ==
  /\ now < MaxTime
  /\ "slow" \in Faults \/ AllIdle
  /\ now' = now + 1
  /\ passes' = {p \in passes : p.exp > now + 1}
  /\ cut' = {c \in cut : c.exp > now + 1}
  /\ lockDeny' = [d \in Device |-> [u \in User |->
                    IF lockDeny[d][u] > now + 1 THEN lockDeny[d][u] ELSE 0]]
  /\ UNCHANGED <<assigned, active, session, lastExp, row, connected, jobs>>

(* DenylistPruningService: daily, at start-up and on demand.               *)
Prune ==
  /\ row' = [d \in Device |-> [u \in User |->
               IF row[d][u].exp <= now THEN NoRow ELSE row[d][u]]]
  /\ row' # row
  /\ UNCHANGED <<now, assigned, active, session, passes, lastExp, lockDeny,
                 connected, jobs, cut>>

(* An awaited call of a handler rejects, which ends the handler (only the  *)
(* look-up of the last pass and the issuance log absorb their errors).     *)
JobFails(j) ==
  /\ "dberror" \in Faults
  /\ jobs[j].pc \notin {"idle", "check", "log"}
  /\ Finish(j)
  /\ UNCHANGED <<now, assigned, active, session, passes, lastExp, row,
                 lockDeny, connected, cut>>

GatewayConnects(f) ==
  /\ f \notin connected
  /\ connected' = connected \cup {f}
  /\ UNCHANGED <<now, assigned, active, session, passes, lastExp, row,
                 lockDeny, jobs, cut>>

GatewayCloses(f) ==
  /\ "disconnect" \in Faults
  /\ f \in connected
  /\ connected' = connected \ {f}
  /\ UNCHANGED <<now, assigned, active, session, passes, lastExp, row,
                 lockDeny, jobs, cut>>

(* Handlers live in memory only: a restart forgets them.                   *)
Restart ==
  /\ "crash" \in Faults
  /\ jobs' = [j \in Job |-> Idle]
  /\ connected' = {}
  /\ UNCHANGED <<now, assigned, active, session, passes, lastExp, row,
                 lockDeny, cut>>

-----------------------------------------------------------------------------
Operation ==
  \E j \in Job, t \in User :
    \/ \E u \in Unit : \/ AssignTenant(u, t, j)
                       \/ UnassignTenant(u, t, j)
                       \/ RevokeSharing(u, t, j)
    \/ DeactivateUser(t, j)
    \/ RequestPass(t, j)

Account == \E t \in User : SetActive(t) \/ Login(t) \/ SessionExpires(t)

JobStep(j) ==
  \/ ReadDevices(j) \/ CheckPass(j) \/ ClearRow(j) \/ InsertRow(j) \/ ReadBack(j)
  \/ SendAdd(j) \/ FindRows(j) \/ FilterRows(j) \/ RemoveRow(j) \/ SendRemove(j)
  \/ ResolveAudiences(j) \/ SignPass(j) \/ LogAndRespond(j)

Environment ==
  \/ Tick \/ Prune \/ Restart
  \/ \E j \in Job : JobFails(j)
  \/ \E f \in Facility : GatewayConnects(f) \/ GatewayCloses(f)

Next ==
  \/ Operation
  \/ Account
  \/ \E j \in Job : JobStep(j)
  \/ Environment

Spec == Init /\ [][Next]_vars

(* The event loop resumes every suspended handler; nothing else is owed.   *)
FairSpec == Spec /\ \A j \in Job : WF_vars(JobStep(j))

-----------------------------------------------------------------------------
(* Properties.                                                             *)

(* No handler about t and the lock d is in flight.                         *)
Quiet(d, t) == ~Busy(Revoking \cup {"assigned"}, t, UnitOf[d])

(* Every access a revocation took away is shut out at the lock by a denial *)
(* that outlives the pass, as soon as the handlers about it are done: also *)
(* when several revocations of the user delete and insert the same rows    *)
(* and some of them die on the unique key, or because the row they have    *)
(* just inserted is gone when they read it back (denylist-entry.model.ts). *)
ShutOut(c) == lockDeny[c.device][c.user] >= c.exp
RevokedPassShutOut == \A c \in cut : Quiet(c.device, c.user) => ShutOut(c)

(* A lock that denies a user is backed by a row that lives as long, so     *)
(* that the next assignment finds it and lifts the denial                  *)
(* (access-revocation-listener.service.ts, onTenantAssigned).              *)
DenialRecorded ==
  \A d \in Device, t \in User :
    Quiet(d, t) => lockDeny[d][t] <= row[d][t].exp

(* A tenant with an assignment is not locked out on account of an earlier  *)
(* unassignment once the handlers are done: "automatic removal when users  *)
(* are re-assigned" (access-revocation-listener.service.ts).               *)
ReassignedNotDenied ==
  \A d \in Device, t \in User :
    /\ <<UnitOf[d], t>> \in assigned
    /\ Quiet(d, t)
    /\ row[d][t].source \in {"unit_unassignment", "none"}
    => lockDeny[d][t] = 0

(* A denial is lifted before its time only for a user who has the unit.    *)
LiftedOnlyForAssigned ==
  [][\A d \in Device, t \in User :
       lockDeny[d][t] > now' /\ lockDeny'[d][t] = 0
         => <<UnitOf[d], t>> \in assigned]_vars

(* Whatever is lost, delayed or cut short, no lock denies a user for       *)
(* longer than the lifetime of a Route Pass from now on.                   *)
LockoutBounded == \A d \in Device, t \in User : lockDeny[d][t] <= now + TTL

(* DENYLIST_ADD is skipped only for a user who has no unexpired logged     *)
(* pass in hand (denylist-optimization.service.ts).                        *)
SkipSafe ==
  [][\A j \in Job :
       jobs[j].kind \in Revoking /\ ~jobs[j].skip /\ jobs'[j].skip
         => \A p \in passes : p.user = jobs[j].user => ~p.logged]_vars

(* Every revocation reaches the lock, unless the assignment comes back or  *)
(* new revocations of the same rows keep arriving (each may end another).  *)
RevocationStarts ==
  \E j \in Job : jobs[j].kind = "idle" /\ jobs'[j].kind \in Revoking

RevocationTakesEffect ==
  <>[][~RevocationStarts]_vars =>
    \A d \in Device, t \in User :
      (\E c \in cut : c.device = d /\ c.user = t /\ ~ShutOut(c))
        ~> (\A c \in cut : c.device = d /\ c.user = t => ShutOut(c))

(* How far a handler has come, and how much its loop has left: the rows to *)
(* delete, to insert and to read back.                                     *)
Stage(s) ==
  CASE s.pc \in {"audience", "devices", "find"}    -> 1
    [] s.pc \in {"sign", "check", "filter"}        -> 2
    [] s.pc \in {"clear", "insert", "reread", "remove"} -> 3
    [] s.pc \in {"log", "sendAdd", "sendRemove"}   -> 4
    [] OTHER                                       -> 0

LessLeft(r, s) ==
  /\ r.todo \subseteq s.todo /\ r.todo \cup r.cur \subseteq s.todo \cup s.cur
  /\ \/ r.todo # s.todo
     \/ r.todo \cup r.cur # s.todo \cup s.cur
     \/ s.pc = "insert" /\ r.pc = "reread"

(* No handler goes round in circles: whatever fails and whoever deletes or *)
(* inserts the same rows, a handler that goes on without ending has less   *)
(* ahead of it (the loops of access-revocation-listener.service.ts and     *)
(* users.routes.ts).                                                       *)
HandlersAdvance ==
  [][\A j \in Job :
       jobs'[j] # jobs[j] /\ jobs[j] # Idle /\ jobs'[j] # Idle
         => \/ Stage(jobs'[j]) > Stage(jobs[j])
            \/ Stage(jobs'[j]) = Stage(jobs[j]) /\ LessLeft(jobs'[j], jobs[j])]_vars

-----------------------------------------------------------------------------
(* The same in the words of AccessControl: locks and users, of which the    *)
(* users have the locks' units, have passes for them, are denied by them,   *)
(* or have a handler about them in flight.                                  *)
Pair == Device \X User
HeldBy == {w \in Pair : <<UnitOf[w[1]], w[2]>> \in assigned}
InHand == {w \in Pair : \E p \in passes : p.user = w[2] /\ w[1] \in p.aud}
DeniedAt == {w \in Pair : lockDeny[w[1]][w[2]] # 0}
BeingHandled == {w \in Pair : ~Quiet(w[1], w[2])}

Control == INSTANCE AccessControl WITH
  holds <- HeldBy, carried <- InHand, denied <- DeniedAt, pending <- BeingHandled

(* Passes, denylist rows and commands together control access: whoever      *)
(* gets, loses or outlives what, a lock opens for a user without its unit   *)
(* only while a handler is in flight about the two, and before they expire  *)
(* denials are lifted only for who has the unit, or no pass for the lock    *)
(* (access-revocation-listener.service.ts, denylist-optimization.service.   *)
(* ts, passes.routes.ts).                                                   *)
AccessControlled == Control!ControlSpec

=============================================================================
