------------------------------ MODULE Tenancy ------------------------------
(* Who rents which unit: the assignments of tenants to units, made and     *)
(* ended by the units API (units.service.ts) and by the synchronisation    *)
(* with the Facility Management System of one facility (fms.service.ts).   *)
(*                                                                         *)
(* FMSSync models the course of a sync and of a review; here is what the   *)
(* changes they record say and do.  A task is a request or a sync at work; *)
(* its "pc" names the database call it is suspended at.  A change stays    *)
(* recorded, and a reviewer may have it applied at any later time and any  *)
(* number of times: applyChanges does not look at the status of a change.  *)
EXTENDS FiniteSets, Naturals

CONSTANTS
  Unit,
  Here,         \* the units of the facility whose FMS is synchronised
  Tenant,
  Managed,      \* the tenants that FMS may list
  Ask,          \* <<unit, tenant>> pairs the API is asked for
  SharedLimit,  \* assignments of a unit that are not primary (4 in the code)
  Task,         \* bound: requests and syncs at work at a time
  MaxEvents,    \* bound: API requests, reviews, changes of the FMS, faults
  None          \* not in the FMS; no tenant

ASSUME TenancyAssumption ==
  /\ Here \subseteq Unit /\ Managed \subseteq Tenant
  /\ Ask \subseteq Unit \X Tenant
  /\ None \notin Tenant
ASSUME SharingAssumption ==
  /\ SharedLimit \in Nat
  /\ IsFiniteSet(Tenant)
  /\ IsFiniteSet(Task) /\ Task # {}
ASSUME EventsAssumption == MaxEvents \in Nat

VARIABLES
  primary, shared,  \* unit_assignments, by is_primary: <<unit, tenant>> pairs
  account,          \* per tenant, the users row
  mappedUser,       \* tenants with a row in fms_entity_mappings
  unit,             \* per unit of the facility, its row and its mapping
  fms,              \* per managed tenant, the units the FMS lists for it
  recorded,         \* fms_changes
  task,
  events,
  kept              \* history: assignments that nothing has asked to end

world == <<fms, recorded, events>>
vars == <<primary, shared, kept, account, mappedUser, unit, task, world>>

(* A recorded change, or what a task is at: for "share" a request.         *)
Change ==
  {c \in [kind : {"none", "unit_added", "tenant_added", "tenant_removed", "assign",
                  "unassign", "share"},
          tenant : Tenant \cup {None}, units : SUBSET Unit] :
     /\ c.kind \notin {"none", "unit_added"} => c.tenant # None
     /\ c.kind = "tenant_added" => c.tenant \in Managed}

NoChange == [kind |-> "none", tenant |-> None, units |-> {}]
UnitAdded(u) == [kind |-> "unit_added", tenant |-> None, units |-> {u}]
TenantAdded(t) == [kind |-> "tenant_added", tenant |-> t, units |-> fms[t]]
TenantRemoved(t) == [kind |-> "tenant_removed", tenant |-> t, units |-> {}]
OfPair(kind, p) == [kind |-> kind, tenant |-> p[2], units |-> {p[1]}]

(* Units before tenants before assignments (changeTypePriority).           *)
Priority(c) ==
  CASE c.kind = "unit_added" -> 1
    [] c.kind \in {"tenant_added", "tenant_removed"} -> 2
    [] OTHER -> 3

Assigned == primary \cup shared
UnitsOf(t) == {u \in Unit : <<u, t>> \in Assigned}
SharedOf(u) == {t \in Tenant : <<u, t>> \in shared}
Mapped == {u \in Here : unit[u] = "mapped"}
Listed == {t \in Managed : fms[t] # None}
Known == {t \in Tenant : account[t] # "none"}

Idle ==
  [pc |-> "idle", todo |-> {}, left |-> {}, alone |-> FALSE, change |-> NoChange]

TaskState ==
  [pc : {"idle", "insert", "next", "map", "assign", "unassign"},
   todo : SUBSET Change,  \* the changes still to be applied
   left : SUBSET Unit,    \* the units the current change still concerns
   alone : BOOLEAN,       \* its tenant had no unit in another facility
   change : Change]

TypeOK ==
  /\ primary \subseteq Unit \X Tenant
  /\ shared \subseteq Unit \X Tenant
  /\ primary \cap shared = {}    \* (unit_id, tenant_id) is unique
  /\ account \in [Tenant -> {"none", "active", "inactive"}]
  /\ mappedUser \subseteq Managed
  /\ unit \in [Here -> {"absent", "unmapped", "mapped"}]
  /\ fms \in [Managed -> {None} \cup SUBSET Here]
  /\ recorded \subseteq Change
  /\ task \in [Task -> TaskState]
  /\ \A k \in Task :
       task[k].pc \in {"insert", "assign", "unassign"} => task[k].change.tenant # None
  /\ events \in 0..MaxEvents
  /\ kept \subseteq Unit \X Tenant

(* The pairs the FMS asks for: a unit it lists counts only once it is      *)
(* mapped.                                                                 *)
Due == UNION {(fms[t] \cap Mapped) \X {t} : t \in Listed \cap Known}

(* A recorded change asks p to end.                                        *)
Opposes(c, p) ==
  c.tenant = p[2] /\ (c.kind = "tenant_removed" \/ (c.kind = "unassign" /\ p[1] \in c.units))

(* Nothing asks p to end: in the facility, the FMS asks for it, if it may  *)
(* list its tenant, and no recorded change opposes it; in another one, its *)
(* tenant is not being removed, its assignments having been read.          *)
Unopposed(p) ==
  IF p[1] \in Here
    THEN /\ p[2] \in Managed => p \in Due
         /\ \A c \in recorded : ~Opposes(c, p)
    ELSE \A k \in Task : task[k].pc = "unassign" => task[k].change.tenant # p[2]

(* Units and tenants of the FMS are new or known; an account may be one    *)
(* that no sync has mapped yet.                                            *)
Init ==
  /\ unit \in [Here -> {"absent", "mapped"}]
  /\ account \in {a \in [Tenant -> {"none", "active"}] :
                  \A t \in Tenant \ Managed : a[t] = "active"}
  /\ mappedUser \in SUBSET (Managed \cap Known)
  /\ primary \in SUBSET (Ask \cap ((Mapped \cup (Unit \ Here)) \X (Managed \cap Known)))
  /\ shared = {}
  /\ fms \in [Managed -> {None} \cup SUBSET Here]
  /\ recorded = {}
  /\ task = [k \in Task |-> Idle]
  /\ events = 0
  /\ kept = {p \in primary : Unopposed(p)}

-----------------------------------------------------------------------------
(* The tables.                                                             *)

At(k, pc) == task[k].pc = pc
Become(k, r) == task' = [task EXCEPT ![k] = r]
Goto(k, pc) == Become(k, [task[k] EXCEPT !.pc = pc])

(* Something happens that is not a step of a task.                         *)
Event == events < MaxEvents /\ events' = events + 1

CanAssign(p) ==
  /\ p[2] \in Known
  /\ p[1] \in Here => unit[p[1]] # "absent"

(* assignTenant: an assignment that exists is left as it is.               *)
AssignPrimary(p) ==
  /\ primary' = IF p \in Assigned THEN primary ELSE primary \cup {p}
  /\ kept' = kept \cup {q \in {p} : Unopposed(q)}
  /\ UNCHANGED shared

Unassign(p) ==
  /\ primary' = primary \ {p}
  /\ shared' = shared \ {p}

-----------------------------------------------------------------------------
(* POST and DELETE /units/:unitId/assign.                                  *)

RequestPrimary(p) ==
  /\ Event
  /\ CanAssign(p)
  /\ AssignPrimary(p)
  /\ UNCHANGED <<account, mappedUser, unit, task, fms, recorded>>

(* Mutated form: the unit may be at its limit already.                     *)
CheckShared_AtLimit(k, p) ==
  /\ Event
  /\ At(k, "idle")
  /\ CanAssign(p)
  /\ p \notin Assigned
  /\ Cardinality(SharedOf(p[1])) <= SharedLimit
  /\ Become(k, [Idle EXCEPT !.pc = "insert", !.change = OfPair("share", p)])
  /\ UNCHANGED <<primary, shared, account, mappedUser, unit, fms, recorded, kept>>

(* A tenant is to share a unit: the shared assignments are counted ...     *)
CheckShared(k, p) ==
  /\ Event
  /\ At(k, "idle")
  /\ CanAssign(p)
  /\ p \notin Assigned
  /\ Cardinality(SharedOf(p[1])) < SharedLimit
  /\ Become(k, [Idle EXCEPT !.pc = "insert", !.change = OfPair("share", p)])
  /\ UNCHANGED <<primary, shared, account, mappedUser, unit, fms, recorded, kept>>

(* Mutated form: the row goes in whatever is there.                        *)
InsertShared_Twice(k) ==
  LET c == task[k].change
  IN  /\ At(k, "insert")
      /\ shared' = shared \cup (c.units \X {c.tenant})
      /\ kept' = kept \cup {p \in c.units \X {c.tenant} : Unopposed(p)}
      /\ Become(k, Idle)
      /\ UNCHANGED <<primary, account, mappedUser, unit, world>>

(* ... and one is inserted, which fails if the pair has got one meanwhile. *)
InsertShared(k) ==
  LET c == task[k].change
  IN  /\ At(k, "insert")
      /\ shared' = shared \cup ((c.units \X {c.tenant}) \ primary)
      /\ kept' = kept \cup {p \in c.units \X {c.tenant} : Unopposed(p)}
      /\ Become(k, Idle)
      /\ UNCHANGED <<primary, account, mappedUser, unit, world>>

RequestUnassign(p) ==
  /\ Event
  /\ p \in Assigned
  /\ Unassign(p)
  /\ kept' = kept \ {p}
  /\ UNCHANGED <<account, mappedUser, unit, task, fms, recorded>>

-----------------------------------------------------------------------------
(* A sync compares, and applies what it has recorded.                      *)

(* Mutated form: those already deactivated are not looked at.              *)
Gone_Active == {t \in mappedUser \ Listed : account[t] = "active"}

(* A tenant the FMS does not list any more, as long as the mapping is      *)
(* there: it is never removed.                                             *)
Gone == mappedUser \ Listed

(* detectChanges.  For a tenant that is found, every assignment that is    *)
(* not due is to end, those in other facilities too.                       *)
Differences ==
  {UnitAdded(u) : u \in {v \in Here : unit[v] = "absent"}}
  \cup {TenantAdded(t) : t \in Listed \ Known}
  \cup {TenantRemoved(t) : t \in Gone}
  \cup {OfPair("assign", p) : p \in Due \ Assigned}
  \cup {OfPair("unassign", p) : p \in {q \in Assigned : q[2] \in Listed} \ Due}

(* The fetch and the comparison are one step; a tenant that is found by    *)
(* its email gets its mapping here.  The changes are applied at once       *)
(* (autoAcceptChanges) or left to a review.                                *)
Sync(k, auto) ==
  /\ At(k, "idle")
  /\ recorded' = recorded \cup Differences
  /\ mappedUser' = mappedUser \cup (Listed \cap Known)
  /\ IF auto /\ Differences # {}
       THEN Become(k, [Idle EXCEPT !.pc = "next", !.todo = Differences])
       ELSE UNCHANGED task
  /\ UNCHANGED <<primary, shared, account, unit, fms, events, kept>>

(* POST /fms/changes/apply.                                                *)
Review(k, c) ==
  /\ Event
  /\ At(k, "idle")
  /\ Become(k, [Idle EXCEPT !.pc = "next", !.todo = {c}])
  /\ UNCHANGED <<primary, shared, account, mappedUser, unit, fms, recorded, kept>>

(* The change c is the next to be applied.                                 *)
Following(k, c) ==
  /\ At(k, "next")
  /\ c \in task[k].todo
  /\ \A d \in task[k].todo : Priority(c) <= Priority(d)

(* Task k with the changes cs still to be applied.                         *)
Rest(k, cs) ==
  Become(k, IF cs = {} THEN Idle ELSE [Idle EXCEPT !.pc = "next", !.todo = cs])
Done(k) == Rest(k, task[k].todo)
Dealt(k, c) == Rest(k, task[k].todo \ {c})

(* Task k in the midst of change c, with some units left to deal with.     *)
Amidst(k, c, pc, left) ==
  Become(k, [task[k] EXCEPT !.pc = pc, !.left = left, !.change = c, !.todo = @ \ {c}])

(* applyUnitAdded: a unit that exists is only mapped, if it is not yet; a  *)
(* new one is created, and then mapped.                                    *)
AddUnit(k, c) ==
  /\ c.kind = "unit_added"
  /\ \E u \in c.units :
       IF unit[u] = "absent"
         THEN unit' = [unit EXCEPT ![u] = "unmapped"] /\ Amidst(k, c, "map", {})
         ELSE unit' = [unit EXCEPT ![u] = "mapped"] /\ Dealt(k, c)
  /\ UNCHANGED <<primary, shared, kept, account, mappedUser, world>>

MapUnit(k, c) ==
  /\ c.kind = "unit_added"
  /\ unit' = [u \in Here |-> IF u \in c.units THEN "mapped" ELSE unit[u]]
  /\ Done(k)
  /\ UNCHANGED <<primary, shared, kept, account, mappedUser, world>>

(* applyTenantAdded: an account that exists is taken as it is, active or   *)
(* not.                                                                    *)
AddTenant(k, c) ==
  /\ c.kind = "tenant_added"
  /\ account' = [account EXCEPT ![c.tenant] = IF @ = "none" THEN "active" ELSE @]
  /\ Amidst(k, c, "map", c.units)
  /\ UNCHANGED <<primary, shared, kept, mappedUser, unit, world>>

MapUser(k, c) ==
  /\ c.kind = "tenant_added"
  /\ mappedUser' = mappedUser \cup {c.tenant}
  /\ IF c.units = {} THEN Done(k) ELSE Goto(k, "assign")
  /\ UNCHANGED <<primary, shared, kept, account, unit, world>>

(* The units that are not mapped are passed over.                          *)
AssignNext(k, u, c) ==
  /\ IF u \in Mapped THEN AssignPrimary(<<u, c.tenant>>)
                    ELSE UNCHANGED <<primary, shared, kept>>
  /\ IF task[k].left = {u} THEN Done(k)
                           ELSE Amidst(k, c, "assign", task[k].left \ {u})
  /\ UNCHANGED <<account, mappedUser, unit, world>>

(* Mutated form: the assignments of other facilities are not asked for.    *)
Alone_Always(t) == TRUE

(* No assignment in another facility.                                      *)
Alone(t) == UnitsOf(t) \subseteq Here

(* applyTenantRemoved: the assignments are read once, ...                  *)
RemoveTenant(k, c) ==
  /\ c.kind = "tenant_removed"
  /\ Become(k, [task[k] EXCEPT !.pc = "unassign", !.alone = Alone(c.tenant), !.change = c,
                               !.left = UnitsOf(c.tenant) \cap Here, !.todo = @ \ {c}])
  /\ UNCHANGED <<primary, shared, kept, account, mappedUser, unit, world>>

(* ... those in the facility end, one by one, ...                          *)
UnassignNext(k, u, c) ==
  /\ Unassign(<<u, c.tenant>>)
  /\ Amidst(k, c, "unassign", task[k].left \ {u})
  /\ UNCHANGED <<kept, account, mappedUser, unit, world>>

(* ... and the account with them, if there were no others.                 *)
Deactivate(k, c) ==
  /\ task[k].left = {}
  /\ account' = IF task[k].alone THEN [account EXCEPT ![c.tenant] = "inactive"] ELSE account
  /\ Done(k)
  /\ UNCHANGED <<primary, shared, kept, mappedUser, unit, world>>

AssignUnit(k, c) ==
  /\ c.kind = "assign"
  /\ \E u \in c.units : AssignPrimary(<<u, c.tenant>>)
  /\ Dealt(k, c)
  /\ UNCHANGED <<account, mappedUser, unit, world>>

(* Mutated form: whichever facility the unit is in.                        *)
UnassignUnit_Anywhere(k, c) ==
  /\ c.kind = "unassign"
  /\ \E u \in c.units : Unassign(<<u, c.tenant>>)
  /\ Dealt(k, c)
  /\ UNCHANGED <<kept, account, mappedUser, unit, world>>

(* applyTenantUnitChanged throws for a unit of another facility.           *)
UnassignUnit(k, c) ==
  /\ c.kind = "unassign"
  /\ \E u \in c.units :
       IF u \in Here THEN Unassign(<<u, c.tenant>>) ELSE UNCHANGED <<primary, shared>>
  /\ Dealt(k, c)
  /\ UNCHANGED <<kept, account, mappedUser, unit, world>>

(* applyChange, and what it goes on with.                                  *)
Apply(k) ==
  \/ \E c \in task[k].todo :
       /\ Following(k, c)
       /\ \/ AddUnit(k, c) \/ AddTenant(k, c) \/ RemoveTenant(k, c)
          \/ AssignUnit(k, c) \/ UnassignUnit(k, c)
  \/ At(k, "map") /\ (MapUnit(k, task[k].change) \/ MapUser(k, task[k].change))
  \/ At(k, "assign") /\ \E u \in task[k].left : AssignNext(k, u, task[k].change)
  \/ At(k, "unassign") /\ \/ \E u \in task[k].left : UnassignNext(k, u, task[k].change)
                          \/ Deactivate(k, task[k].change)

-----------------------------------------------------------------------------
(* What goes wrong, and what the FMS's users do.                           *)

(* A call fails: applyChanges counts the error and goes on.                *)
ChangeFails(k) ==
  /\ Event
  /\ \/ \E c \in task[k].todo : Following(k, c) /\ Dealt(k, c)
     \/ ~At(k, "idle") /\ ~At(k, "next") /\ Done(k)
  /\ UNCHANGED <<primary, shared, account, mappedUser, unit, fms, recorded, kept>>

Restart ==
  /\ Event
  /\ task' = [k \in Task |-> Idle]
  /\ UNCHANGED <<primary, shared, account, mappedUser, unit, fms, recorded, kept>>

(* What the FMS lists for a tenant changes.                                *)
FmsChanges(t, units) ==
  /\ Event
  /\ fms' = [fms EXCEPT ![t] = units]
  /\ kept' = {p \in kept : p[2] = t /\ p[1] \in Here => units # None /\ p[1] \in units}
  /\ UNCHANGED <<primary, shared, account, mappedUser, unit, task, recorded>>

Next ==
  \/ \E p \in Ask : RequestPrimary(p) \/ RequestUnassign(p)
  \/ \E k \in Task :
       \/ \E p \in Ask : CheckShared(k, p)
       \/ InsertShared(k)
       \/ \E auto \in BOOLEAN : Sync(k, auto)
       \/ \E c \in recorded : Review(k, c)
       \/ Apply(k)
       \/ ChangeFails(k)
  \/ Restart
  \/ \E t \in Managed :
       \/ FmsChanges(t, None)
       \/ \E units \in SUBSET Here : FmsChanges(t, units)

Spec == Init /\ [][Next]_vars

(* Database calls return.  That syncs are requested is not assumed here.   *)
FairSpec == Spec /\ \A k \in Task : WF_vars(InsertShared(k) \/ Apply(k))

-----------------------------------------------------------------------------
(* Properties.                                                             *)

(* However requests interleave with the count of a unit's shared           *)
(* assignments, and whatever syncs do at the same time, the limit is       *)
(* exceeded by no more than the other requests at work (assignTenant).     *)
SharedBounded ==
  \A u \in Unit : Cardinality(SharedOf(u)) <= SharedLimit + Cardinality(Task) - 1

(* An assignment that no request has ended is there, whenever it was made: *)
(* one of a tenant the FMS cannot list, one of a mapped unit that the FMS  *)
(* has listed ever since and no change recorded before asks to end, and    *)
(* one in another facility, unless its tenant was being removed.  No sync, *)
(* review, repeated or outdated change, failure or restart takes it away   *)
(* (applyTenantUnitChanged, applyTenantRemoved).                           *)
KeptHeld == kept \subseteq Assigned

(* A tenant with such an assignment in another facility keeps the account, *)
(* unless the removal had read the tenant's assignments when it was made   *)
(* ("only deactivate user if they have no other assignments",              *)
(* applyTenantRemoved).                                                    *)
KeptActive ==
  [][\A t \in Managed :
       /\ account[t] = "active"
       /\ \E u \in Unit \ Here : <<u, t>> \in kept
       => account'[t] = "active"]_vars

(* The facility is as the FMS says, as far as its units are mapped.        *)
Settled ==
  /\ \A u \in Here : unit[u] # "absent"
  /\ Listed \subseteq mappedUser
  /\ \A t \in mappedUser :
       UnitsOf(t) \cap Mapped = IF t \in Listed THEN fms[t] \cap Mapped ELSE {}

(* If syncs that apply their changes keep being run, then in the end the   *)
(* assignments of the facility's mapped units are those the FMS lists,     *)
(* after any number of failures in between (performSync).                  *)
Converges == WF_vars(\E k \in Task : Sync(k, TRUE)) => <>[]Settled
=============================================================================
