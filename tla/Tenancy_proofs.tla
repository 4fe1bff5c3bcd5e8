-------------------------- MODULE Tenancy_proofs --------------------------
(* What holds of Tenancy for any number of units, tenants and tasks, and   *)
(* for every limit of shared assignments.                                  *)
EXTENDS Tenancy, FiniteSetTheorems, TLAPS

USE TenancyAssumption, SharingAssumption, EventsAssumption

-----------------------------------------------------------------------------
(* What a step does to a task.                                             *)

(* A task between two changes has nothing it is in the midst of.           *)
Resting(r) == r.pc \in {"idle", "next"} /\ r.left = {} /\ r.alone = FALSE

LEMMA IdleType == Idle \in TaskState /\ Idle.pc = "idle" /\ Idle.todo = {} /\ Resting(Idle)
BY DEF Idle, TaskState, NoChange, Change, Resting

LEMMA NextType ==
  ASSUME NEW cs \in SUBSET Change
  PROVE  LET r == [Idle EXCEPT !.pc = "next", !.todo = cs]
         IN  r \in TaskState /\ r.todo = cs /\ Resting(r)
BY DEF Idle, TaskState, NoChange, Change, Resting

(* Rest leaves the task resting, with the changes given.                   *)
LEMMA RestStep ==
  ASSUME TypeOK, NEW k \in Task, NEW cs \in SUBSET Change, Rest(k, cs)
  PROVE  \E r \in TaskState : Become(k, r) /\ Resting(r) /\ r.todo = cs
<1>1. CASE cs = {}
  BY <1>1, IdleType DEF Rest
<1>2. CASE cs # {}
  BY <1>2, NextType DEF Rest
<1> QED
  BY <1>1, <1>2

(* Task k is in the midst of change c.                                     *)
LEMMA AmidstStep ==
  ASSUME TypeOK, NEW k \in Task, NEW c \in Change, NEW left \in SUBSET Unit,
         NEW pc \in {"map", "assign", "unassign"}, Amidst(k, c, pc, left)
  PROVE  \E r \in TaskState :
           /\ Become(k, r)
           /\ r.pc = pc /\ r.left = left /\ r.change = c
           /\ r.todo = task[k].todo \ {c} /\ r.alone = task[k].alone
<1> DEFINE r == [task[k] EXCEPT !.pc = pc, !.left = left, !.change = c, !.todo = @ \ {c}]
<1>1. task[k] \in TaskState
  BY DEF TypeOK
<1>2. /\ r \in TaskState
      /\ r.pc = pc /\ r.left = left /\ r.change = c
      /\ r.todo = task[k].todo \ {c} /\ r.alone = task[k].alone
  BY <1>1 DEF TaskState
<1> QED
  BY <1>2 DEF Amidst

LEMMA Moved ==
  ASSUME TypeOK, NEW k \in Task, NEW r \in TaskState, Become(k, r)
  PROVE  /\ task' \in [Task -> TaskState]
         /\ task'[k] = r
         /\ \A j \in Task : j # k => task'[j] = task[j]
BY DEF TypeOK, Become

(* All that a step of task k may do to the tasks.                          *)
LEMMA TaskStep ==
  ASSUME TypeOK, NEW k \in Task, NEW r \in TaskState, Become(k, r),
         r.pc \in {"insert", "assign", "unassign"} => r.change.tenant # None
  PROVE  /\ task' \in [Task -> TaskState]
         /\ \A j \in Task : task'[j].pc \in {"insert", "assign", "unassign"}
                              => task'[j].change.tenant # None
BY Moved DEF TypeOK

(* The task a step of Apply leaves: it rests with fewer changes, or is in  *)
(* the midst of one it had.                                                *)
Continues(k, r) ==
  /\ r.todo \subseteq task[k].todo
  /\ \/ Resting(r)
     \/ /\ r.pc \in {"map", "assign", "unassign"}
        /\ r.change \in task[k].todo \cup {task[k].change}
        /\ r.pc \in {"assign", "unassign"} => r.change.tenant # None

LEMMA RestContinues ==
  ASSUME TypeOK, NEW k \in Task, NEW cs \in SUBSET task[k].todo, Rest(k, cs)
  PROVE  \E r \in TaskState : Become(k, r) /\ Continues(k, r) /\ Resting(r)
<1>1. cs \in SUBSET Change
  BY DEF TypeOK, TaskState
<1> QED
  BY <1>1, RestStep DEF Continues

LEMMA DoneContinues ==
  ASSUME TypeOK, NEW k \in Task, Done(k)
  PROVE  \E r \in TaskState : Become(k, r) /\ Continues(k, r) /\ Resting(r)
BY RestContinues DEF Done

LEMMA DealtContinues ==
  ASSUME TypeOK, NEW k \in Task, NEW c, Dealt(k, c)
  PROVE  \E r \in TaskState : Become(k, r) /\ Continues(k, r) /\ Resting(r)
BY RestContinues DEF Dealt

LEMMA AmidstContinues ==
  ASSUME TypeOK, NEW k \in Task, NEW c \in task[k].todo \cup {task[k].change},
         NEW left \in SUBSET Unit, NEW pc \in {"map", "assign", "unassign"},
         Amidst(k, c, pc, left),
         pc \in {"assign", "unassign"} => c.tenant # None
  PROVE  \E r \in TaskState :
           /\ Become(k, r) /\ Continues(k, r)
           /\ r.pc = pc /\ r.left = left /\ r.change = c /\ r.alone = task[k].alone
<1>1. c \in Change
  BY DEF TypeOK, TaskState
<1> QED
  BY <1>1, AmidstStep DEF Continues

LEMMA Changes ==
  ASSUME TypeOK, NEW k \in Task
  PROVE  /\ task[k] \in TaskState
         /\ task[k].todo \subseteq Change
         /\ task[k].change \in Change
         /\ task[k].left \subseteq Unit
         /\ task[k].pc \in {"insert", "assign", "unassign"}
              => task[k].change.tenant \in Tenant
BY DEF TypeOK, TaskState, Change

LEMMA ChangeFacts ==
  ASSUME NEW c \in Change
  PROVE  /\ c.units \subseteq Unit
         /\ c.kind \notin {"none", "unit_added"} => c.tenant \in Tenant
         /\ c.kind = "tenant_added" => c.tenant \in Managed
         /\ c.tenant # None => c.tenant \in Tenant
BY DEF Change

-----------------------------------------------------------------------------
(* The tables.                                                             *)

Tables ==
  /\ primary \subseteq Unit \X Tenant
  /\ shared \subseteq Unit \X Tenant
  /\ primary \cap shared = {}
  /\ account \in [Tenant -> {"none", "active", "inactive"}]
  /\ mappedUser \subseteq Managed
  /\ unit \in [Here -> {"absent", "unmapped", "mapped"}]
  /\ kept \subseteq Unit \X Tenant

LEMMA AssignTables ==
  ASSUME Tables, NEW u \in Unit, NEW t \in Tenant, AssignPrimary(<<u, t>>),
         UNCHANGED <<account, mappedUser, unit>>
  PROVE  Tables'
BY DEF Tables, AssignPrimary, Assigned

LEMMA UnassignTables ==
  ASSUME Tables, NEW p, Unassign(p), kept' \subseteq kept, UNCHANGED <<account, mappedUser, unit>>
  PROVE  Tables'
BY DEF Tables, Unassign

(* A step of a task that changes the tables alone.                         *)
LEMMA TypeStep ==
  ASSUME TypeOK, NEW k \in Task, NEW r \in TaskState, Become(k, r), Continues(k, r),
         Tables', UNCHANGED world
  PROVE  TypeOK'
<1>1. r.pc \in {"insert", "assign", "unassign"} => r.change.tenant # None
  BY DEF Continues, Resting
<1> QED
  BY <1>1, TaskStep DEF TypeOK, Tables, world

LEMMA ApplyType ==
  ASSUME TypeOK, NEW k \in Task, Apply(k)
  PROVE  /\ TypeOK'
         /\ \E r \in TaskState : Become(k, r) /\ Continues(k, r)
<1> SUFFICES /\ Tables' /\ UNCHANGED world
             /\ \E r \in TaskState : Become(k, r) /\ Continues(k, r)
  BY TypeStep
<1>0. Tables
  BY DEF TypeOK, Tables
<1> USE Changes, <1>0
<1>1. ASSUME NEW c \in task[k].todo, Following(k, c), AddUnit(k, c)
      PROVE  /\ Tables' /\ UNCHANGED world
             /\ \E r \in TaskState : Become(k, r) /\ Continues(k, r)
  <2>1. PICK u \in c.units :
          \/ unit' = [unit EXCEPT ![u] = "unmapped"] /\ Amidst(k, c, "map", {})
          \/ unit' = [unit EXCEPT ![u] = "mapped"] /\ Dealt(k, c)
    BY <1>1 DEF AddUnit
  <2>2. \E r \in TaskState : Become(k, r) /\ Continues(k, r)
    BY <2>1, AmidstContinues, DealtContinues
  <2> QED
    BY <1>1, <2>1, <2>2 DEF AddUnit, Tables
<1>2. ASSUME NEW c \in task[k].todo, Following(k, c), AddTenant(k, c)
      PROVE  /\ Tables' /\ UNCHANGED world
             /\ \E r \in TaskState : Become(k, r) /\ Continues(k, r)
  <2>1. \E r \in TaskState : Become(k, r) /\ Continues(k, r)
    BY <1>2, ChangeFacts, AmidstContinues DEF AddTenant
  <2> QED
    BY <1>2, <2>1 DEF AddTenant, Tables
<1>3. ASSUME NEW c \in task[k].todo, Following(k, c), RemoveTenant(k, c)
      PROVE  /\ Tables' /\ UNCHANGED world
             /\ \E r \in TaskState : Become(k, r) /\ Continues(k, r)
  <2> DEFINE r == [task[k] EXCEPT !.pc = "unassign", !.alone = Alone(c.tenant), !.change = c,
                                  !.left = UnitsOf(c.tenant) \cap Here, !.todo = @ \ {c}]
  <2>1. /\ Alone(c.tenant) \in BOOLEAN
        /\ UnitsOf(c.tenant) \cap Here \in SUBSET Unit
    BY DEF Alone, UnitsOf
  <2>2. c \in Change /\ c.tenant # None
    BY <1>3, ChangeFacts DEF RemoveTenant
  <2>3. r \in TaskState /\ Continues(k, r)
    BY <2>1, <2>2 DEF TaskState, Continues
  <2> QED
    BY <1>3, <2>3 DEF RemoveTenant, Tables
<1>4. ASSUME NEW c \in task[k].todo, Following(k, c), AssignUnit(k, c)
      PROVE  /\ Tables' /\ UNCHANGED world
             /\ \E r \in TaskState : Become(k, r) /\ Continues(k, r)
  <2>1. PICK u \in c.units : AssignPrimary(<<u, c.tenant>>)
    BY <1>4 DEF AssignUnit
  <2>2. u \in Unit /\ c.tenant \in Tenant
    BY <1>4, ChangeFacts DEF AssignUnit
  <2> QED
    BY <1>4, <2>1, <2>2, AssignTables, DealtContinues DEF AssignUnit
<1>5. ASSUME NEW c \in task[k].todo, Following(k, c), UnassignUnit(k, c)
      PROVE  /\ Tables' /\ UNCHANGED world
             /\ \E r \in TaskState : Become(k, r) /\ Continues(k, r)
  <2>1. \/ UNCHANGED <<primary, shared>>
        \/ \E u \in c.units : Unassign(<<u, c.tenant>>)
    BY <1>5 DEF UnassignUnit
  <2>2. Tables'
    BY <1>5, <2>1, UnassignTables DEF UnassignUnit, Tables
  <2> QED
    BY <1>5, <2>2, DealtContinues DEF UnassignUnit
<1>6. ASSUME At(k, "map"), MapUnit(k, task[k].change)
      PROVE  /\ Tables' /\ UNCHANGED world
             /\ \E r \in TaskState : Become(k, r) /\ Continues(k, r)
  BY <1>6, DoneContinues DEF MapUnit, Tables
<1>7. ASSUME At(k, "map"), MapUser(k, task[k].change)
      PROVE  /\ Tables' /\ UNCHANGED world
             /\ \E r \in TaskState : Become(k, r) /\ Continues(k, r)
  <2>1. task[k].change.tenant \in Managed /\ task[k].change.tenant # None
    BY <1>7, ChangeFacts DEF MapUser
  <2>2. ASSUME Goto(k, "assign")
        PROVE  \E r \in TaskState : Become(k, r) /\ Continues(k, r)
    <3> DEFINE r == [task[k] EXCEPT !.pc = "assign"]
    <3>1. r \in TaskState /\ Continues(k, r)
      BY <2>1 DEF TaskState, Continues
    <3> QED
      BY <2>2, <3>1 DEF Goto
  <2> QED
    BY <1>7, <2>1, <2>2, DoneContinues DEF MapUser, Tables
<1>8. ASSUME At(k, "assign"), NEW u \in task[k].left, AssignNext(k, u, task[k].change)
      PROVE  /\ Tables' /\ UNCHANGED world
             /\ \E r \in TaskState : Become(k, r) /\ Continues(k, r)
  <2>1. u \in Unit /\ task[k].change.tenant \in Tenant /\ task[k].change.tenant # None
    BY <1>8 DEF At
  <2>2. Tables'
    BY <1>8, <2>1, AssignTables DEF AssignNext, Tables
  <2>3. task[k].left \ {u} \in SUBSET Unit
    OBVIOUS
  <2> QED
    BY <1>8, <2>1, <2>2, <2>3, DoneContinues, AmidstContinues DEF AssignNext
<1>9. ASSUME At(k, "unassign"), NEW u \in task[k].left, UnassignNext(k, u, task[k].change)
      PROVE  /\ Tables' /\ UNCHANGED world
             /\ \E r \in TaskState : Become(k, r) /\ Continues(k, r)
  <2>1. task[k].change.tenant # None
    BY <1>9 DEF At
  <2>2. task[k].left \ {u} \in SUBSET Unit
    OBVIOUS
  <2> QED
    BY <1>9, <2>1, <2>2, UnassignTables, AmidstContinues DEF UnassignNext
<1>10. ASSUME At(k, "unassign"), Deactivate(k, task[k].change)
       PROVE  /\ Tables' /\ UNCHANGED world
              /\ \E r \in TaskState : Become(k, r) /\ Continues(k, r)
  BY <1>10, DoneContinues DEF Deactivate, Tables
<1> QED
  BY <1>1, <1>2, <1>3, <1>4, <1>5, <1>6, <1>7, <1>8, <1>9, <1>10 DEF Apply

LEMMA InitType == Init => TypeOK
BY IdleType DEF Init, TypeOK, TaskState, Idle, Known, Mapped

LEMMA DifferencesType == TypeOK => Differences \subseteq Change
<1> SUFFICES ASSUME TypeOK, NEW d \in Differences PROVE d \in Change
  OBVIOUS
<1> USE DEF Change
<1>1. CASE d \in {UnitAdded(u) : u \in {v \in Here : unit[v] = "absent"}}
  BY <1>1 DEF UnitAdded
<1>2. CASE d \in {TenantAdded(t) : t \in Listed \ Known}
  <2>1. PICK t \in Listed : d = TenantAdded(t)
    BY <1>2
  <2>2. t \in Managed /\ fms[t] \in SUBSET Unit
    BY DEF Listed, TypeOK
  <2> QED
    BY <2>1, <2>2 DEF TenantAdded
<1>3. CASE d \in {TenantRemoved(t) : t \in Gone}
  BY <1>3 DEF TenantRemoved, Gone, TypeOK
<1>4. ASSUME NEW kind \in {"assign", "unassign"}, NEW p \in Unit \X Managed,
             d = OfPair(kind, p)
      PROVE  d \in Change
  BY <1>4 DEF OfPair
<1>5. Due \subseteq Unit \X Managed
  BY DEF Due, Listed, Mapped
<1>6. {q \in Assigned : q[2] \in Listed} \subseteq Unit \X Managed
  BY DEF Assigned, TypeOK, Listed
<1> QED
  BY <1>1, <1>2, <1>3, <1>4, <1>5, <1>6 DEF Differences

LEMMA StepType == TypeOK /\ [Next]_vars => TypeOK'
<1> SUFFICES ASSUME TypeOK, [Next]_vars PROVE TypeOK'
  OBVIOUS
<1> USE DEF TypeOK
<1>0. Tables
  BY DEF Tables
<1>1. ASSUME NEW p \in Ask, RequestPrimary(p) PROVE TypeOK'
  <2>1. PICK u \in Unit, t \in Tenant : p = <<u, t>>
    OBVIOUS
  <2>2. Tables'
    BY <1>0, <1>1, <2>1, AssignTables DEF RequestPrimary
  <2> QED
    BY <1>1, <2>2 DEF RequestPrimary, Tables, Event
<1>2. ASSUME NEW p \in Ask, RequestUnassign(p) PROVE TypeOK'
  <2>1. Tables'
    BY <1>0, <1>2, UnassignTables DEF RequestUnassign
  <2> QED
    BY <1>2, <2>1 DEF RequestUnassign, Tables, Event
<1>3. ASSUME NEW k \in Task, NEW p \in Ask, CheckShared(k, p) PROVE TypeOK'
  <2> DEFINE r == [Idle EXCEPT !.pc = "insert", !.change = OfPair("share", p)]
  <2>1. OfPair("share", p) \in Change /\ OfPair("share", p).tenant # None
    BY DEF OfPair, Change
  <2>2. r \in TaskState /\ r.change.tenant # None
    BY <2>1 DEF Idle, TaskState
  <2>3. Become(k, r)
    BY <1>3 DEF CheckShared
  <2> HIDE DEF r
  <2>4. /\ task' \in [Task -> TaskState]
        /\ \A j \in Task : task'[j].pc \in {"insert", "assign", "unassign"}
                             => task'[j].change.tenant # None
    BY <2>2, <2>3, TaskStep
  <2> QED
    BY <1>3, <2>4 DEF CheckShared, Event
<1>4. ASSUME NEW k \in Task, InsertShared(k) PROVE TypeOK'
  <2>1. task[k].change.units \subseteq Unit /\ task[k].change.tenant \in Tenant
    BY <1>4, Changes, ChangeFacts DEF InsertShared, At
  <2>2. shared' \subseteq Unit \X Tenant /\ primary \cap shared' = {}
    BY <1>4, <2>1 DEF InsertShared
  <2>3. Idle.pc \notin {"insert", "assign", "unassign"}
    BY IdleType
  <2> QED
    BY <1>4, <2>2, <2>3, IdleType, TaskStep DEF InsertShared, world
<1>5. ASSUME NEW k \in Task, NEW auto \in BOOLEAN, Sync(k, auto) PROVE TypeOK'
  <2> DEFINE r == [Idle EXCEPT !.pc = "next", !.todo = Differences]
  <2>1. r \in TaskState /\ Resting(r)
    BY DifferencesType, NextType
  <2>2. \/ UNCHANGED task
        \/ Become(k, r)
    BY <1>5 DEF Sync
  <2>3. /\ task' \in [Task -> TaskState]
        /\ \A j \in Task : task'[j].pc \in {"insert", "assign", "unassign"}
                             => task'[j].change.tenant # None
    BY <2>1, <2>2, TaskStep DEF Resting
  <2>4. mappedUser' \subseteq Managed /\ recorded' \subseteq Change
    BY <1>5, DifferencesType DEF Sync, Listed
  <2> QED
    BY <1>5, <2>3, <2>4 DEF Sync
<1>6. ASSUME NEW k \in Task, NEW c \in recorded, Review(k, c) PROVE TypeOK'
  <2> DEFINE r == [Idle EXCEPT !.pc = "next", !.todo = {c}]
  <2>1. r \in TaskState /\ Resting(r)
    BY NextType
  <2>2. Become(k, r)
    BY <1>6 DEF Review
  <2> HIDE DEF r
  <2>3. /\ task' \in [Task -> TaskState]
        /\ \A j \in Task : task'[j].pc \in {"insert", "assign", "unassign"}
                             => task'[j].change.tenant # None
    BY <2>1, <2>2, TaskStep DEF Resting
  <2> QED
    BY <1>6, <2>3 DEF Review, Event
<1>7. ASSUME NEW k \in Task, Apply(k) PROVE TypeOK'
  BY <1>7, ApplyType
<1>8. ASSUME NEW k \in Task, ChangeFails(k) PROVE TypeOK'
  <2>1. PICK r \in TaskState : Become(k, r) /\ Resting(r)
    BY <1>8, DealtContinues, DoneContinues DEF ChangeFails
  <2> QED
    BY <1>8, <2>1, TaskStep DEF ChangeFails, Event, Resting
<1>9. CASE Restart
  BY <1>9, IdleType DEF Restart, Event
<1>10. ASSUME NEW t \in Managed, NEW units \in {None} \cup SUBSET Here, FmsChanges(t, units)
       PROVE  TypeOK'
  BY <1>10 DEF FmsChanges, Event
<1>11. CASE UNCHANGED vars
  BY <1>11 DEF vars, world
<1> QED
  BY <1>1, <1>2, <1>3, <1>4, <1>5, <1>6, <1>7, <1>8, <1>9, <1>10, <1>11 DEF Next

(* Every table, task and record has its shape, and no pair of a unit and a *)
(* tenant has two assignments (migration 004).                             *)
THEOREM TypeCorrect == Spec => []TypeOK
BY InitType, StepType, PTL DEF Spec

-----------------------------------------------------------------------------
(* Sharing: a request between its count and its insertion takes a place.   *)

Inserting(u) == {k \in Task : task[k].pc = "insert" /\ u \in task[k].change.units}

Places ==
  \A u \in Unit : Cardinality(SharedOf(u)) + Cardinality(Inserting(u))
                    <= SharedLimit + Cardinality(Task) - 1

LEMMA Counts ==
  ASSUME NEW u
  PROVE  /\ IsFiniteSet(SharedOf(u)) /\ Cardinality(SharedOf(u)) \in Nat
         /\ IsFiniteSet(Inserting(u)) /\ Cardinality(Inserting(u)) \in Nat
         /\ Cardinality(Task) \in Nat /\ Cardinality(Task) >= 1
<1>1. SharedOf(u) \subseteq Tenant /\ Inserting(u) \subseteq Task
  BY DEF SharedOf, Inserting
<1>2. IsFiniteSet(SharedOf(u)) /\ IsFiniteSet(Inserting(u))
  BY <1>1, FS_Subset
<1>3. Cardinality(Task) # 0
  BY FS_EmptySet
<1> QED
  BY <1>2, <1>3, FS_CardinalityType

(* The counts do not grow if the sets do not.                              *)
LEMMA PlacesShrink ==
  ASSUME Places,
         \A u \in Unit : SharedOf(u)' \subseteq SharedOf(u),
         \A u \in Unit : Inserting(u)' \subseteq Inserting(u)
  PROVE  Places'
<1> SUFFICES ASSUME NEW u \in Unit
             PROVE  Cardinality(SharedOf(u)') + Cardinality(Inserting(u)')
                      <= SharedLimit + Cardinality(Task) - 1
  BY DEF Places
<1> DEFINE a == SharedOf(u)
           b == Inserting(u)
           c == SharedOf(u)'
           d == Inserting(u)'
<1>1. Cardinality(c) \in Nat /\ Cardinality(c) <= Cardinality(a)
  BY Counts, FS_Subset, FS_CardinalityType
<1>2. Cardinality(d) \in Nat /\ Cardinality(d) <= Cardinality(b)
  BY Counts, FS_Subset, FS_CardinalityType
<1>3. Cardinality(a) + Cardinality(b) <= SharedLimit + Cardinality(Task) - 1
  BY DEF Places
<1> HIDE DEF a, b, c, d
<1>4. Cardinality(a) \in Nat /\ Cardinality(b) \in Nat /\ Cardinality(Task) \in Nat
  BY Counts DEF a, b
<1>5. Cardinality(c) + Cardinality(d) <= SharedLimit + Cardinality(Task) - 1
  BY <1>1, <1>2, <1>3, <1>4
<1> QED
  BY <1>5 DEF c, d

(* A task that comes to something else than an insertion.                  *)
LEMMA InsertingShrinks ==
  ASSUME TypeOK, NEW k \in Task, NEW r \in TaskState, Become(k, r), r.pc # "insert"
  PROVE  \A u \in Unit : Inserting(u)' \subseteq Inserting(u)
BY Moved DEF Inserting

LEMMA ApplyShared ==
  ASSUME NEW k \in Task, Apply(k)
  PROVE  shared' \subseteq shared
BY DEF Apply, AddUnit, MapUnit, AddTenant, MapUser, AssignNext, RemoveTenant, UnassignNext,
       Deactivate, AssignUnit, UnassignUnit, AssignPrimary, Unassign

LEMMA CheckPlaces ==
  ASSUME TypeOK, Places, NEW k \in Task, NEW p \in Ask, CheckShared(k, p)
  PROVE  Places'
<1> SUFFICES ASSUME NEW u \in Unit
             PROVE  Cardinality(SharedOf(u)') + Cardinality(Inserting(u)')
                      <= SharedLimit + Cardinality(Task) - 1
  BY DEF Places
<1> DEFINE r == [Idle EXCEPT !.pc = "insert", !.change = OfPair("share", p)]
<1>1. Become(k, r)
  BY DEF CheckShared
<1>2. OfPair("share", p) \in Change /\ OfPair("share", p).units = {p[1]}
  BY DEF OfPair, Change
<1>3. r \in TaskState /\ r.change.units = {p[1]}
  BY <1>2 DEF Idle, TaskState
<1> HIDE DEF r
<1>4. task'[k] = r /\ \A j \in Task : j # k => task'[j] = task[j]
  BY <1>1, <1>3, Moved
<1>5. SharedOf(u)' = SharedOf(u)
  BY DEF CheckShared, SharedOf
<1>6. CASE u # p[1]
  <2>1. Inserting(u)' \subseteq Inserting(u)
    BY <1>3, <1>4, <1>6 DEF Inserting
  <2>2. Cardinality(Inserting(u)') <= Cardinality(Inserting(u))
    BY <2>1, Counts, FS_Subset
  <2>3. Cardinality(Inserting(u)') \in Nat
    BY <2>1, Counts, FS_Subset, FS_CardinalityType
  <2>4. Cardinality(SharedOf(u)) + Cardinality(Inserting(u))
          <= SharedLimit + Cardinality(Task) - 1
    BY DEF Places
  <2> QED
    BY <1>5, <2>2, <2>3, <2>4, Counts
<1>7. CASE u = p[1]
  <2>1. Inserting(u)' \subseteq Task
    BY DEF Inserting
  <2>2. Cardinality(Inserting(u)') \in Nat /\ Cardinality(Inserting(u)') <= Cardinality(Task)
    BY <2>1, FS_Subset, FS_CardinalityType
  <2>3. Cardinality(SharedOf(u)) < SharedLimit
    BY <1>7 DEF CheckShared
  <2> QED
    BY <1>5, <2>2, <2>3, Counts
<1> QED
  BY <1>6, <1>7

LEMMA InsertPlaces ==
  ASSUME TypeOK, Places, NEW k \in Task, InsertShared(k)
  PROVE  Places'
<1> SUFFICES ASSUME NEW u \in Unit
             PROVE  Cardinality(SharedOf(u)') + Cardinality(Inserting(u)')
                      <= SharedLimit + Cardinality(Task) - 1
  BY DEF Places
<1>1. Become(k, Idle) /\ task[k].pc = "insert"
  BY DEF InsertShared, At
<1>2. task'[k] = Idle /\ \A j \in Task : j # k => task'[j] = task[j]
  BY <1>1, IdleType, Moved
<1>3. Inserting(u)' \subseteq Inserting(u) \ {k}
  BY <1>2, IdleType DEF Inserting
<1>4. Cardinality(SharedOf(u)) + Cardinality(Inserting(u))
        <= SharedLimit + Cardinality(Task) - 1
  BY DEF Places
<1>5. CASE u \in task[k].change.units
  <2> DEFINE t == task[k].change.tenant
  <2>1. SharedOf(u)' \subseteq SharedOf(u) \cup {t}
    BY DEF InsertShared, SharedOf
  <2>2. Cardinality(SharedOf(u) \cup {t}) <= Cardinality(SharedOf(u)) + 1
    <3>1. \/ Cardinality(SharedOf(u) \cup {t}) = Cardinality(SharedOf(u))
          \/ Cardinality(SharedOf(u) \cup {t}) = Cardinality(SharedOf(u)) + 1
      BY Counts, FS_AddElement
    <3> QED
      BY <3>1, Counts
  <2>3. IsFiniteSet(SharedOf(u) \cup {t})
    BY Counts, FS_AddElement
  <2>4. /\ Cardinality(SharedOf(u)') \in Nat
        /\ Cardinality(SharedOf(u)') <= Cardinality(SharedOf(u)) + 1
    BY <2>1, <2>2, <2>3, FS_Subset, FS_CardinalityType, Counts
  <2>5. k \in Inserting(u)
    BY <1>1, <1>5 DEF Inserting
  <2>6. /\ IsFiniteSet(Inserting(u) \ {k})
        /\ Cardinality(Inserting(u) \ {k}) = Cardinality(Inserting(u)) - 1
    BY <2>5, Counts, FS_RemoveElement
  <2>7. /\ Cardinality(Inserting(u)') \in Nat
        /\ Cardinality(Inserting(u)') <= Cardinality(Inserting(u)) - 1
    BY <1>3, <2>6, FS_Subset, FS_CardinalityType
  <2> QED
    BY <1>4, <2>4, <2>7, Counts
<1>6. CASE u \notin task[k].change.units
  <2>1. SharedOf(u)' \subseteq SharedOf(u)
    BY <1>6 DEF InsertShared, SharedOf
  <2>2. /\ Cardinality(SharedOf(u)') \in Nat
        /\ Cardinality(SharedOf(u)') <= Cardinality(SharedOf(u))
    BY <2>1, Counts, FS_Subset, FS_CardinalityType
  <2>3. /\ Cardinality(Inserting(u)') \in Nat
        /\ Cardinality(Inserting(u)') <= Cardinality(Inserting(u))
    BY <1>3, Counts, FS_Subset, FS_CardinalityType
  <2> QED
    BY <1>4, <2>2, <2>3, Counts
<1> QED
  BY <1>5, <1>6

LEMMA InitPlaces == Init => Places
<1> SUFFICES ASSUME Init, NEW u \in Unit
             PROVE  Cardinality(SharedOf(u)) + Cardinality(Inserting(u))
                      <= SharedLimit + Cardinality(Task) - 1
  BY DEF Places
<1>1. SharedOf(u) = {} /\ Inserting(u) = {}
  BY IdleType DEF Init, SharedOf, Inserting
<1> QED
  BY <1>1, FS_EmptySet, Counts

LEMMA StepPlaces == TypeOK /\ Places /\ [Next]_vars => Places'
<1> SUFFICES ASSUME TypeOK, Places, [Next]_vars PROVE Places'
  OBVIOUS
<1>1. ASSUME shared' \subseteq shared, NEW k \in Task, NEW r \in TaskState, Become(k, r),
             Resting(r) \/ Continues(k, r)
      PROVE  Places'
  <2>1. r.pc # "insert"
    BY <1>1 DEF Resting, Continues
  <2>2. \A u \in Unit : SharedOf(u)' \subseteq SharedOf(u)
    BY <1>1 DEF SharedOf
  <2> QED
    BY <1>1, <2>1, <2>2, InsertingShrinks, PlacesShrink
<1>2. ASSUME shared' \subseteq shared, UNCHANGED task
      PROVE  Places'
  <2>1. \A u \in Unit : SharedOf(u)' \subseteq SharedOf(u)
    BY <1>2 DEF SharedOf
  <2>2. \A u \in Unit : Inserting(u)' \subseteq Inserting(u)
    BY <1>2 DEF Inserting
  <2> QED
    BY <2>1, <2>2, PlacesShrink
<1>3. ASSUME NEW p \in Ask, RequestPrimary(p) \/ RequestUnassign(p) PROVE Places'
  BY <1>2, <1>3 DEF RequestPrimary, RequestUnassign, AssignPrimary, Unassign
<1>4. ASSUME NEW k \in Task, NEW auto \in BOOLEAN, Sync(k, auto) PROVE Places'
  <2> DEFINE r == [Idle EXCEPT !.pc = "next", !.todo = Differences]
  <2>1. r \in TaskState /\ Resting(r)
    BY DifferencesType, NextType
  <2>2. shared' \subseteq shared /\ (UNCHANGED task \/ Become(k, r))
    BY <1>4 DEF Sync
  <2> QED
    BY <1>1, <1>2, <2>1, <2>2
<1>5. ASSUME NEW k \in Task, NEW c \in recorded, Review(k, c) PROVE Places'
  <2> DEFINE r == [Idle EXCEPT !.pc = "next", !.todo = {c}]
  <2>1. r \in TaskState /\ Resting(r)
    BY NextType DEF TypeOK
  <2>2. shared' \subseteq shared /\ Become(k, r)
    BY <1>5 DEF Review
  <2> QED
    BY <1>1, <2>1, <2>2
<1>6. ASSUME NEW k \in Task, Apply(k) PROVE Places'
  BY <1>1, <1>6, ApplyType, ApplyShared
<1>7. ASSUME NEW k \in Task, ChangeFails(k) PROVE Places'
  <2>1. PICK r \in TaskState : Become(k, r) /\ Resting(r)
    BY <1>7, DealtContinues, DoneContinues DEF ChangeFails
  <2> QED
    BY <1>1, <1>7, <2>1 DEF ChangeFails
<1>8. CASE Restart
  <2>1. \A u \in Unit : SharedOf(u)' \subseteq SharedOf(u)
    BY <1>8 DEF Restart, SharedOf
  <2>2. \A u \in Unit : Inserting(u)' \subseteq Inserting(u)
    BY <1>8, IdleType DEF Restart, Inserting
  <2> QED
    BY <2>1, <2>2, PlacesShrink
<1>9. ASSUME NEW t \in Managed, NEW units \in {None} \cup SUBSET Here, FmsChanges(t, units)
      PROVE  Places'
  BY <1>2, <1>9 DEF FmsChanges
<1>10. CASE UNCHANGED vars
  BY <1>2, <1>10 DEF vars
<1> QED
  BY <1>3, <1>4, <1>5, <1>6, <1>7, <1>8, <1>9, <1>10, CheckPlaces, InsertPlaces DEF Next

(* However the requests for shared access interleave, a unit exceeds the   *)
(* limit by at most the number of the others at work (assignTenant).       *)
THEOREM SharingBounded == Spec => []SharedBounded
<1>1. Places => SharedBounded
  <2> SUFFICES ASSUME Places, NEW u \in Unit
               PROVE  Cardinality(SharedOf(u)) <= SharedLimit + Cardinality(Task) - 1
    BY DEF SharedBounded
  <2>1. Cardinality(SharedOf(u)) + Cardinality(Inserting(u))
          <= SharedLimit + Cardinality(Task) - 1
    BY DEF Places
  <2> QED
    BY <2>1, Counts
<1> QED
  BY <1>1, InitType, StepType, InitPlaces, StepPlaces, PTL DEF Spec

-----------------------------------------------------------------------------
(* What is kept: no recorded change, and no task, will take it away.       *)

(* A kept assignment exists; in the facility, the FMS asks for it if it may*)
(* list its tenant.                                                        *)
Lasting(p) == p \in Assigned /\ (p[1] \in Here /\ p[2] \in Managed => p \in Due)

Harmless(c) == \A p \in kept : p[1] \in Here => ~Opposes(c, p)

(* The removal of a tenant, halfway.                                       *)
Sparing(r) ==
  /\ r.left \subseteq Here
  /\ \A p \in kept : p[2] = r.change.tenant => p[1] \notin Here /\ ~r.alone

(* What a task applies was recorded.                                       *)
Sourced(r) ==
  /\ r.todo \subseteq recorded
  /\ r.pc = "unassign" => r.change \in recorded /\ r.change.kind = "tenant_removed"

Keeping ==
  /\ \A p \in kept : Lasting(p)
  /\ \A c \in recorded : Harmless(c)
  /\ \A k \in Task : Sourced(task[k])
  /\ \A k \in Task : task[k].pc = "unassign" => Sparing(task[k])

(* What the FMS asks for it goes on asking for.                            *)
LEMMA DueStays ==
  ASSUME TypeOK, fms' = fms, Known \subseteq Known', Mapped \subseteq Mapped'
  PROVE  Due \subseteq Due'
BY DEF Due, Listed

(* A step of a task that takes no kept assignment away.                    *)
LEMMA KeepingTask ==
  ASSUME TypeOK, Keeping, NEW k \in Task, NEW r \in TaskState, Become(k, r),
         Sourced(r),
         r.pc = "unassign" => Sparing(r),
         kept' = kept, recorded' = recorded, fms' = fms,
         Known \subseteq Known', Mapped \subseteq Mapped', kept \subseteq Assigned'
  PROVE  Keeping'
<1>1. \A p \in kept' : Lasting(p)'
  BY DueStays DEF Keeping, Lasting
<1>2. \A c \in recorded' : Harmless(c)'
  BY DEF Keeping, Harmless, Opposes
<1>3. task'[k] = r /\ \A j \in Task : j # k => task'[j] = task[j]
  BY Moved
<1>4. ASSUME NEW j \in Task PROVE Sourced(task[j])'
  <2>1. Sourced(task'[j])
    BY <1>3 DEF Keeping
  <2> QED
    BY <2>1 DEF Sourced
<1>5. ASSUME NEW j \in Task, task'[j].pc = "unassign" PROVE Sparing(task[j])'
  <2>1. Sparing(task'[j])
    BY <1>3, <1>5 DEF Keeping
  <2> QED
    BY <2>1 DEF Sparing
<1> QED
  BY <1>1, <1>2, <1>4, <1>5 DEF Keeping

(* The same, for a change that leaves the task at rest.                    *)
LEMMA KeepingRest ==
  ASSUME TypeOK, Keeping, NEW k \in Task, NEW r \in TaskState, Become(k, r),
         Continues(k, r), r.pc # "unassign",
         kept' = kept, UNCHANGED world,
         Known \subseteq Known', Mapped \subseteq Mapped', kept \subseteq Assigned'
  PROVE  Keeping'
<1>1. Sourced(r)
  BY DEF Continues, Keeping, Sourced
<1> QED
  BY <1>1, KeepingTask DEF world

(* A step that makes assignments, and keeps those nothing asks to end.     *)
LEMMA KeepingMore ==
  ASSUME TypeOK, Keeping, NEW ps \in SUBSET (Unit \X Tenant),
         kept' = kept \cup {p \in ps : Unopposed(p)},
         Assigned \cup ps \subseteq Assigned',
         \A j \in Task : \/ task'[j] = task[j]
                         \/ task'[j].pc # "unassign" /\ task'[j].todo \subseteq recorded,
         UNCHANGED <<recorded, fms, account, unit>>
  PROVE  Keeping'
<1>1. ASSUME NEW p \in kept' PROVE Lasting(p)'
  <2>1. Due' = Due
    BY DEF Due, Listed, Known, Mapped
  <2>2. CASE p \in kept
    BY <2>1, <2>2 DEF Keeping, Lasting
  <2>3. CASE p \in ps /\ Unopposed(p)
    BY <2>1, <2>3 DEF Lasting, Unopposed
  <2> QED
    BY <2>2, <2>3
<1>2. ASSUME NEW c \in recorded' PROVE Harmless(c)'
  <2>1. \A p \in kept' : p[1] \in Here => ~Opposes(c, p)
    BY DEF Keeping, Harmless, Unopposed
  <2> QED
    BY <2>1 DEF Harmless, Opposes
<1>3. ASSUME NEW j \in Task PROVE Sourced(task[j])'
  BY DEF Keeping, Sourced
<1>4. ASSUME NEW j \in Task, task'[j].pc = "unassign" PROVE Sparing(task[j])'
  <2>1. task'[j] = task[j] /\ Sparing(task[j]) /\ Sourced(task[j])
    BY <1>4 DEF Keeping
  <2>2. ASSUME NEW p, Unopposed(p) PROVE p[2] # task[j].change.tenant
    BY <1>4, <2>1, <2>2 DEF Unopposed, Opposes, Sourced
  <2> QED
    BY <2>1, <2>2 DEF Sparing
<1> QED
  BY <1>1, <1>2, <1>3, <1>4 DEF Keeping

LEMMA KnownMapped ==
  /\ UNCHANGED account => Known \subseteq Known'
  /\ UNCHANGED unit => Mapped \subseteq Mapped'
BY DEF Known, Mapped

(* A task assigns a pair and goes on.                                      *)
LEMMA KeepingAssign ==
  ASSUME TypeOK, Keeping, NEW k \in Task, NEW r \in TaskState, Become(k, r),
         Continues(k, r), r.pc # "unassign",
         NEW u \in Unit, NEW t \in Tenant, AssignPrimary(<<u, t>>),
         UNCHANGED <<recorded, fms, account, unit>>
  PROVE  Keeping'
<1>1. r.todo \subseteq recorded
  BY DEF Continues, Keeping, Sourced
<1>2. \A j \in Task : task'[j] = task[j] \/ task'[j] = r
  BY Moved
<1>3. Assigned \cup {<<u, t>>} \subseteq Assigned'
  BY DEF AssignPrimary, Assigned
<1>4. {<<u, t>>} \in SUBSET (Unit \X Tenant)
  OBVIOUS
<1>5. kept' = kept \cup {p \in {<<u, t>>} : Unopposed(p)}
  BY DEF AssignPrimary
<1> QED
  BY <1>1, <1>2, <1>3, <1>4, <1>5, KeepingMore

LEMMA KeepingApply ==
  ASSUME TypeOK, Keeping, NEW k \in Task, Apply(k)
  PROVE  Keeping'
<1>0. kept \subseteq Assigned
  BY DEF Keeping, Lasting
<1> USE Changes, KnownMapped
<1>1. ASSUME NEW c \in task[k].todo, Following(k, c), AddUnit(k, c) PROVE Keeping'
  <2>1. PICK u \in c.units :
          \/ unit' = [unit EXCEPT ![u] = "unmapped"] /\ unit[u] = "absent"
             /\ Amidst(k, c, "map", {})
          \/ unit' = [unit EXCEPT ![u] = "mapped"] /\ Dealt(k, c)
    BY <1>1 DEF AddUnit
  <2>2. PICK r \in TaskState : Become(k, r) /\ Continues(k, r) /\ r.pc # "unassign"
    BY <2>1, AmidstContinues, DealtContinues DEF Resting
  <2>3. Mapped \subseteq Mapped'
    BY <2>1 DEF Mapped, TypeOK
  <2>4. kept \subseteq Assigned'
    BY <1>0, <1>1 DEF AddUnit, Assigned
  <2> QED
    BY <1>1, <2>2, <2>3, <2>4, KeepingRest DEF AddUnit
<1>2. ASSUME NEW c \in task[k].todo, Following(k, c), AddTenant(k, c) PROVE Keeping'
  <2>1. PICK r \in TaskState : Become(k, r) /\ Continues(k, r) /\ r.pc = "map"
    BY <1>2, ChangeFacts, AmidstContinues DEF AddTenant
  <2>2. Known \subseteq Known'
    BY <1>2 DEF AddTenant, Known, TypeOK
  <2>3. kept \subseteq Assigned'
    BY <1>0, <1>2 DEF AddTenant, Assigned
  <2> QED
    BY <1>2, <2>1, <2>2, <2>3, KeepingRest DEF AddTenant
<1>3. ASSUME NEW c \in task[k].todo, Following(k, c), RemoveTenant(k, c) PROVE Keeping'
  <2> DEFINE r == [task[k] EXCEPT !.pc = "unassign", !.alone = Alone(c.tenant), !.change = c,
                                  !.left = UnitsOf(c.tenant) \cap Here, !.todo = @ \ {c}]
  <2>1. /\ Alone(c.tenant) \in BOOLEAN
        /\ UnitsOf(c.tenant) \cap Here \in SUBSET Unit
    BY DEF Alone, UnitsOf
  <2>2. c \in Change
    OBVIOUS
  <2>3. /\ r \in TaskState
        /\ r.todo \subseteq task[k].todo
        /\ r.left \subseteq Here
        /\ r.change = c
        /\ r.alone = Alone(c.tenant)
    BY <2>1, <2>2 DEF TaskState
  <2>4. Become(k, r)
    BY <1>3 DEF RemoveTenant
  <2> HIDE DEF r
  <2>5. ASSUME NEW p \in kept, p[2] = c.tenant PROVE p[1] \notin Here /\ ~Alone(c.tenant)
    <3>1. p[1] \notin Here
      BY <1>3, <2>5 DEF Keeping, Sourced, Harmless, Opposes, RemoveTenant
    <3>2. p[1] \in UnitsOf(c.tenant)
      BY <1>0, <2>5 DEF UnitsOf, TypeOK
    <3> QED
      BY <3>1, <3>2 DEF Alone
  <2>6. Sparing(r)
    BY <2>3, <2>5 DEF Sparing
  <2>7. Sourced(r)
    BY <1>3, <2>3 DEF Keeping, Sourced, RemoveTenant
  <2>8. kept \subseteq Assigned'
    BY <1>0, <1>3 DEF RemoveTenant, Assigned
  <2> QED
    BY <1>3, <2>3, <2>4, <2>6, <2>7, <2>8, KeepingTask DEF RemoveTenant, world
<1>4. ASSUME NEW c \in task[k].todo, Following(k, c), AssignUnit(k, c) PROVE Keeping'
  <2>1. PICK r \in TaskState : Become(k, r) /\ Continues(k, r) /\ r.pc # "unassign"
    BY <1>4, DealtContinues DEF AssignUnit, Resting
  <2>2. PICK u \in c.units : AssignPrimary(<<u, c.tenant>>)
    BY <1>4 DEF AssignUnit
  <2>3. u \in Unit /\ c.tenant \in Tenant
    BY <1>4, ChangeFacts DEF AssignUnit
  <2> QED
    BY <1>4, <2>1, <2>2, <2>3, KeepingAssign DEF AssignUnit, world
<1>5. ASSUME NEW c \in task[k].todo, Following(k, c), UnassignUnit(k, c) PROVE Keeping'
  <2>1. PICK r \in TaskState : Become(k, r) /\ Continues(k, r) /\ r.pc # "unassign"
    BY <1>5, DealtContinues DEF UnassignUnit, Resting
  <2>2. PICK u \in c.units : \/ UNCHANGED <<primary, shared>>
                             \/ u \in Here /\ Unassign(<<u, c.tenant>>)
    BY <1>5 DEF UnassignUnit
  <2>3. ASSUME u \in Here PROVE <<u, c.tenant>> \notin kept
    BY <1>5, <2>3 DEF Keeping, Sourced, Harmless, Opposes, UnassignUnit
  <2>4. kept \subseteq Assigned'
    BY <1>0, <2>2, <2>3 DEF Unassign, Assigned
  <2> QED
    BY <1>5, <2>1, <2>4, KeepingRest DEF UnassignUnit
<1>6. ASSUME At(k, "map"), MapUnit(k, task[k].change) PROVE Keeping'
  <2>1. PICK r \in TaskState : Become(k, r) /\ Continues(k, r) /\ r.pc # "unassign"
    BY <1>6, DoneContinues DEF MapUnit, Resting
  <2>2. Mapped \subseteq Mapped'
    BY <1>6 DEF MapUnit, Mapped
  <2>3. kept \subseteq Assigned'
    BY <1>0, <1>6 DEF MapUnit, Assigned
  <2> QED
    BY <1>6, <2>1, <2>2, <2>3, KeepingRest DEF MapUnit
<1>7. ASSUME At(k, "map"), MapUser(k, task[k].change) PROVE Keeping'
  <2>1. task[k].change.tenant # None
    BY <1>7, ChangeFacts DEF MapUser
  <2>2. ASSUME Goto(k, "assign")
        PROVE  \E r \in TaskState : Become(k, r) /\ Continues(k, r) /\ r.pc # "unassign"
    <3> DEFINE r == [task[k] EXCEPT !.pc = "assign"]
    <3>1. r \in TaskState /\ Continues(k, r) /\ r.pc # "unassign"
      BY <2>1 DEF TaskState, Continues
    <3> QED
      BY <2>2, <3>1 DEF Goto
  <2>3. PICK r \in TaskState : Become(k, r) /\ Continues(k, r) /\ r.pc # "unassign"
    BY <1>7, <2>2, DoneContinues DEF MapUser, Resting
  <2>4. kept \subseteq Assigned'
    BY <1>0, <1>7 DEF MapUser, Assigned
  <2> QED
    BY <1>7, <2>3, <2>4, KeepingRest DEF MapUser
<1>8. ASSUME At(k, "assign"), NEW u \in task[k].left, AssignNext(k, u, task[k].change)
      PROVE  Keeping'
  <2>1. u \in Unit /\ task[k].change.tenant # None /\ task[k].change.tenant \in Tenant
    BY <1>8, ChangeFacts DEF At, TypeOK
  <2>2. task[k].left \ {u} \in SUBSET Unit
    OBVIOUS
  <2>3. PICK r \in TaskState : Become(k, r) /\ Continues(k, r) /\ r.pc # "unassign"
    BY <1>8, <2>1, <2>2, DoneContinues, AmidstContinues DEF AssignNext, Resting
  <2>4. CASE AssignPrimary(<<u, task[k].change.tenant>>)
    BY <1>8, <2>1, <2>3, <2>4, KeepingAssign DEF AssignNext, world
  <2>5. CASE UNCHANGED <<primary, shared, kept>>
    <3>1. kept \subseteq Assigned'
      BY <1>0, <2>5 DEF Assigned
    <3> QED
      BY <1>8, <2>3, <2>5, <3>1, KeepingRest DEF AssignNext
  <2> QED
    BY <1>8, <2>4, <2>5 DEF AssignNext
<1>9. ASSUME At(k, "unassign"), NEW u \in task[k].left, UnassignNext(k, u, task[k].change)
      PROVE  Keeping'
  <2>1. task[k].change.tenant # None
    BY <1>9, ChangeFacts DEF At, TypeOK
  <2>2. task[k].left \ {u} \in SUBSET Unit
    OBVIOUS
  <2>3. PICK r \in TaskState :
          /\ Become(k, r) /\ Continues(k, r)
          /\ r.left = task[k].left \ {u} /\ r.change = task[k].change
          /\ r.alone = task[k].alone
    BY <1>9, <2>1, <2>2, AmidstContinues DEF UnassignNext
  <2>4. Sparing(task[k])
    BY <1>9 DEF Keeping, At
  <2>5. Sparing(r)
    BY <2>3, <2>4 DEF Sparing
  <2>6. Sourced(r)
    BY <1>9, <2>3 DEF Continues, Keeping, Sourced, At
  <2>7. <<u, task[k].change.tenant>> \notin kept
    BY <2>4 DEF Sparing
  <2>8. kept \subseteq Assigned'
    BY <1>0, <1>9, <2>7 DEF UnassignNext, Unassign, Assigned
  <2> QED
    BY <1>9, <2>3, <2>5, <2>6, <2>8, KeepingTask DEF UnassignNext, world
<1>10. ASSUME At(k, "unassign"), Deactivate(k, task[k].change) PROVE Keeping'
  <2>1. PICK r \in TaskState : Become(k, r) /\ Continues(k, r) /\ r.pc # "unassign"
    BY <1>10, DoneContinues DEF Deactivate, Resting
  <2>2. Known \subseteq Known'
    BY <1>10 DEF Deactivate, Known, TypeOK
  <2>3. kept \subseteq Assigned'
    BY <1>0, <1>10 DEF Deactivate, Assigned
  <2> QED
    BY <1>10, <2>1, <2>2, <2>3, KeepingRest DEF Deactivate
<1> QED
  BY <1>1, <1>2, <1>3, <1>4, <1>5, <1>6, <1>7, <1>8, <1>9, <1>10 DEF Apply

(* What a sync detects is harmless: an assignment that is kept in the      *)
(* facility is due.                                                        *)
LEMMA DifferencesHarmless == TypeOK /\ Keeping => \A c \in Differences : Harmless(c)
<1> SUFFICES ASSUME TypeOK, Keeping, NEW c \in Differences, NEW p \in kept,
                    p[1] \in Here, p[2] = c.tenant
             PROVE  /\ c.kind # "tenant_removed"
                    /\ c.kind = "unassign" => p[1] \notin c.units
  BY DEF Harmless, Opposes
<1>0. /\ p \in Assigned /\ p = <<p[1], p[2]>>
      /\ p[2] \in Managed => p \in Due /\ p[2] \in Listed
  BY DEF Keeping, Lasting, Due, Assigned, TypeOK
<1>1. CASE c \in {UnitAdded(u) : u \in {v \in Here : unit[v] = "absent"}}
  BY <1>1 DEF UnitAdded
<1>2. CASE c \in {TenantAdded(t) : t \in Listed \ Known}
  BY <1>2 DEF TenantAdded
<1>3. CASE c \in {TenantRemoved(t) : t \in Gone}
  BY <1>0, <1>3 DEF TenantRemoved, Gone, TypeOK
<1>4. CASE c \in {OfPair("assign", q) : q \in Due \ Assigned}
  BY <1>4 DEF OfPair
<1>5. CASE c \in {OfPair("unassign", q) : q \in {q \in Assigned : q[2] \in Listed} \ Due}
  <2>1. PICK q \in {q \in Assigned : q[2] \in Listed} \ Due : c = OfPair("unassign", q)
    BY <1>5
  <2>2. q = <<q[1], q[2]>> /\ q[2] \in Managed
    BY <1>5, <2>1 DEF Assigned, TypeOK, Listed
  <2>3. c.kind = "unassign" /\ c.tenant = q[2] /\ c.units = {q[1]}
    BY <2>1 DEF OfPair
  <2> QED
    BY <1>0, <2>1, <2>2, <2>3
<1> QED
  BY <1>1, <1>2, <1>3, <1>4, <1>5 DEF Differences

LEMMA InitKeeping == Init => Keeping
<1> SUFFICES ASSUME Init PROVE Keeping
  OBVIOUS
<1>1. ASSUME NEW p \in kept PROVE Lasting(p)
  BY DEF Init, Lasting, Assigned, Unopposed
<1>2. \A k \in Task : task[k].todo = {} /\ task[k].pc = "idle"
  BY IdleType DEF Init
<1> QED
  BY <1>1, <1>2 DEF Keeping, Sourced, Init

LEMMA StepKeeping == TypeOK /\ Keeping /\ [Next]_vars => Keeping'
<1> SUFFICES ASSUME TypeOK, Keeping, [Next]_vars PROVE Keeping'
  OBVIOUS
<1>0. kept \subseteq Assigned
  BY DEF Keeping, Lasting
(* A step that leaves the tasks alone.                                     *)
<1>1. ASSUME UNCHANGED <<task, recorded, fms, account, unit>>, kept' \subseteq kept,
             kept' \subseteq Assigned'
      PROVE  Keeping'
  <2>1. \A p \in kept' : Lasting(p)'
    <3>1. Due' = Due
      BY <1>1 DEF Due, Listed, Known, Mapped
    <3> QED
      BY <1>1, <3>1 DEF Keeping, Lasting
  <2>2. \A c \in recorded' : Harmless(c)'
    BY <1>1 DEF Keeping, Harmless, Opposes
  <2>3. \A k \in Task : /\ Sourced(task[k])'
                        /\ task'[k].pc = "unassign" => Sparing(task[k])'
    BY <1>1 DEF Keeping, Sparing, Sourced
  <2> QED
    BY <2>1, <2>2, <2>3 DEF Keeping
<1>2. ASSUME NEW p \in Ask, RequestPrimary(p) PROVE Keeping'
  <2>1. Assigned \cup {p} \subseteq Assigned' /\ {p} \in SUBSET (Unit \X Tenant)
    BY <1>2 DEF RequestPrimary, AssignPrimary, Assigned
  <2>2. kept' = kept \cup {q \in {p} : Unopposed(q)}
    BY <1>2 DEF RequestPrimary, AssignPrimary
  <2> QED
    BY <1>2, <2>1, <2>2, KeepingMore DEF RequestPrimary
<1>3. ASSUME NEW p \in Ask, RequestUnassign(p) PROVE Keeping'
  <2>1. kept' \subseteq Assigned' /\ kept' \subseteq kept
    BY <1>0, <1>3 DEF RequestUnassign, Unassign, Assigned
  <2> QED
    BY <1>1, <1>3, <2>1 DEF RequestUnassign
<1>4. ASSUME NEW k \in Task, NEW p \in Ask, CheckShared(k, p) PROVE Keeping'
  <2> DEFINE r == [Idle EXCEPT !.pc = "insert", !.change = OfPair("share", p)]
  <2>1. OfPair("share", p) \in Change
    BY DEF OfPair, Change
  <2>2. r \in TaskState /\ r.todo = {} /\ r.pc = "insert"
    BY <2>1 DEF Idle, TaskState
  <2>3. Become(k, r)
    BY <1>4 DEF CheckShared
  <2> HIDE DEF r
  <2>4. kept \subseteq Assigned'
    BY <1>0, <1>4 DEF CheckShared, Assigned
  <2> QED
    BY <1>4, <2>2, <2>3, <2>4, KnownMapped, KeepingTask DEF CheckShared, Sourced
<1>5. ASSUME NEW k \in Task, InsertShared(k) PROVE Keeping'
  <2> DEFINE ps == task[k].change.units \X {task[k].change.tenant}
  <2>1. ps \in SUBSET (Unit \X Tenant)
    BY <1>5, Changes, ChangeFacts DEF InsertShared, At
  <2>2. kept' = kept \cup {p \in ps : Unopposed(p)} /\ Assigned \cup ps \subseteq Assigned'
    BY <1>5 DEF InsertShared, Assigned
  <2> HIDE DEF ps
  <2>3. \A j \in Task : task'[j] = task[j] \/ task'[j] = Idle
    BY <1>5, IdleType, Moved DEF InsertShared
  <2>4. UNCHANGED <<recorded, fms, account, unit>>
    BY <1>5 DEF InsertShared, world
  <2> QED
    BY <2>1, <2>2, <2>3, <2>4, IdleType, KeepingMore
<1>6. ASSUME NEW k \in Task, NEW auto \in BOOLEAN, Sync(k, auto) PROVE Keeping'
  <2> DEFINE r == [Idle EXCEPT !.pc = "next", !.todo = Differences]
  <2>1. r \in TaskState /\ r.todo = Differences /\ r.pc # "unassign"
    BY DifferencesType, NextType DEF Resting
  <2>2. UNCHANGED task \/ Become(k, r)
    BY <1>6 DEF Sync
  <2> HIDE DEF r
  <2>3. \A p \in kept' : Lasting(p)'
    BY <1>6 DEF Sync, Keeping, Lasting, Due, Listed, Known, Mapped, Assigned
  <2>4. \A c \in recorded' : Harmless(c)'
    BY <1>6, DifferencesHarmless DEF Sync, Keeping, Harmless, Opposes
  <2>5. \A j \in Task : task'[j] = task[j] \/ task'[j] = r
    BY <2>1, <2>2, Moved
  <2>6. \A j \in Task : Sourced(task[j])'
    BY <1>6, <2>1, <2>5 DEF Keeping, Sourced, Sync
  <2>7. \A j \in Task : task'[j].pc = "unassign" => Sparing(task[j])'
    BY <1>6, <2>1, <2>5 DEF Keeping, Sparing, Sync
  <2> QED
    BY <2>3, <2>4, <2>6, <2>7 DEF Keeping
<1>7. ASSUME NEW k \in Task, NEW c \in recorded, Review(k, c) PROVE Keeping'
  <2> DEFINE r == [Idle EXCEPT !.pc = "next", !.todo = {c}]
  <2>0. {c} \in SUBSET Change
    BY DEF TypeOK
  <2>1. r \in TaskState /\ r.todo = {c} /\ r.pc # "unassign"
    BY <2>0, NextType DEF Resting
  <2>2. Become(k, r)
    BY <1>7 DEF Review
  <2> HIDE DEF r
  <2>3. Sourced(r)
    BY <2>1 DEF Sourced
  <2>4. kept \subseteq Assigned'
    BY <1>0, <1>7 DEF Review, Assigned
  <2> QED
    BY <1>7, <2>1, <2>2, <2>3, <2>4, KnownMapped, KeepingTask DEF Review
<1>8. ASSUME NEW k \in Task, Apply(k) PROVE Keeping'
  BY <1>8, KeepingApply
<1>9. ASSUME NEW k \in Task, ChangeFails(k) PROVE Keeping'
  <2>1. PICK r \in TaskState : Become(k, r) /\ Continues(k, r) /\ Resting(r)
    BY <1>9, DealtContinues, DoneContinues DEF ChangeFails
  <2>2. Sourced(r) /\ r.pc # "unassign"
    BY <2>1 DEF Continues, Keeping, Resting, Sourced
  <2>3. kept \subseteq Assigned'
    BY <1>0, <1>9 DEF ChangeFails, Assigned
  <2> QED
    BY <1>9, <2>1, <2>2, <2>3, KnownMapped, KeepingTask DEF ChangeFails
<1>10. CASE Restart
  <2>1. \A p \in kept' : Lasting(p)'
    BY <1>10 DEF Restart, Keeping, Lasting, Due, Listed, Known, Mapped, Assigned
  <2>2. \A c \in recorded' : Harmless(c)'
    BY <1>10 DEF Restart, Keeping, Harmless, Opposes
  <2>3. \A k \in Task : task'[k].todo = {} /\ task'[k].pc = "idle"
    BY <1>10, IdleType DEF Restart
  <2> QED
    BY <2>1, <2>2, <2>3 DEF Keeping, Sourced
<1>11. ASSUME NEW t \in Managed, NEW units \in {None} \cup SUBSET Here, FmsChanges(t, units)
       PROVE  Keeping'
  <2>1. kept' \subseteq kept
    BY <1>11 DEF FmsChanges
  <2>2. ASSUME NEW p \in kept' PROVE Lasting(p)'
    <3>1. Lasting(p)
      BY <2>1 DEF Keeping
    <3>2. Known' = Known /\ Mapped' = Mapped /\ Assigned' = Assigned
      BY <1>11 DEF FmsChanges, Known, Mapped, Assigned
    <3>3. p[2] = t /\ p[1] \in Here => units # None /\ p[1] \in units
      BY <1>11, <2>2 DEF FmsChanges
    <3>4. fms' = [fms EXCEPT ![t] = units]
      BY <1>11 DEF FmsChanges
    <3>5. CASE p[1] \in Here /\ p[2] \in Managed
      <4>1. PICK s \in Listed \cap Known : p \in (fms[s] \cap Mapped) \X {s}
        BY <3>1, <3>5 DEF Lasting, Due
      <4>2. s \in Managed /\ p[2] = s /\ p[1] \in Mapped /\ p[1] \in fms[s]
        BY <4>1 DEF Listed
      <4>3. fms'[s] # None /\ p[1] \in fms'[s]
        BY <3>3, <3>4, <3>5, <4>1, <4>2 DEF Listed, TypeOK
      <4>4. s \in Listed' /\ s \in Known'
        BY <3>2, <4>1, <4>2, <4>3 DEF Listed
      <4>5. p \in (fms'[s] \cap Mapped') \X {s}
        BY <3>2, <4>1, <4>3
      <4> QED
        BY <3>1, <3>2, <4>4, <4>5 DEF Lasting, Due
    <3> QED
      BY <3>1, <3>2, <3>5 DEF Lasting
  <2>3. \A c \in recorded' : Harmless(c)'
    BY <1>11, <2>1 DEF Keeping, FmsChanges, Harmless, Opposes
  <2>4. \A k \in Task : /\ Sourced(task[k])'
                        /\ task'[k].pc = "unassign" => Sparing(task[k])'
    BY <1>11, <2>1 DEF Keeping, Sparing, Sourced, FmsChanges
  <2> QED
    BY <2>2, <2>3, <2>4 DEF Keeping
<1>12. CASE UNCHANGED vars
  <2>1. kept' \subseteq Assigned'
    BY <1>0, <1>12 DEF vars, world, Assigned
  <2> QED
    BY <1>1, <1>12, <2>1 DEF vars, world
<1> QED
  BY <1>2, <1>3, <1>4, <1>5, <1>6, <1>7, <1>8, <1>9, <1>10, <1>11, <1>12 DEF Next

(* An assignment, made at any time, of a tenant the FMS cannot list, of a  *)
(* mapped unit that the FMS has listed ever since and no earlier change    *)
(* asks to end, or in another facility while its tenant is not being       *)
(* removed, ends with a request of the API only, whatever syncs, reviews   *)
(* and outdated changes there are (applyChanges).                          *)
THEOREM KeptAssignments == Spec => []KeptHeld
<1>1. Keeping => KeptHeld
  BY DEF Keeping, Lasting, KeptHeld
<1> QED
  BY <1>1, InitType, StepType, InitKeeping, StepKeeping, PTL DEF Spec

LEMMA StepActive ==
  ASSUME TypeOK, Keeping, [Next]_vars, NEW t \in Managed, account[t] = "active",
         NEW u \in Unit \ Here, <<u, t>> \in kept
  PROVE  account'[t] = "active"
<1>1. CASE UNCHANGED account
  BY <1>1
<1>2. ASSUME NEW k \in Task, NEW c \in task[k].todo, AddTenant(k, c)
      PROVE  account'[t] = "active"
  BY <1>2 DEF AddTenant, TypeOK
<1>3. ASSUME NEW k \in Task, At(k, "unassign"), Deactivate(k, task[k].change)
      PROVE  account'[t] = "active"
  <2>1. CASE t = task[k].change.tenant
    <3>1. ~task[k].alone
      BY <1>3, <2>1 DEF Keeping, Sparing, At
    <3> QED
      BY <1>3, <3>1 DEF Deactivate
  <2>2. CASE t # task[k].change.tenant
    BY <1>3, <2>2 DEF Deactivate, TypeOK
  <2> QED
    BY <2>1, <2>2
<1>4. ASSUME NEW k \in Task, Apply(k) PROVE account'[t] = "active"
  BY <1>1, <1>2, <1>3, <1>4 DEF Apply, AddUnit, MapUnit, MapUser, AssignNext, RemoveTenant,
     UnassignNext, AssignUnit, UnassignUnit
<1> QED
  BY <1>1, <1>4 DEF Next, RequestPrimary, RequestUnassign, CheckShared, InsertShared, Sync,
     Review, ChangeFails, Restart, FmsChanges, vars, world

(* A tenant who keeps a unit in another facility is not deactivated by any *)
(* removal, however late it is applied, but one that had read the tenant's *)
(* assignments before this one was made (applyTenantRemoved).              *)
THEOREM KeptAccounts == Spec => KeptActive
<1>1. TypeOK /\ Keeping /\ [Next]_vars
      => [\A t \in Managed :
            /\ account[t] = "active"
            /\ \E u \in Unit \ Here : <<u, t>> \in kept
            => account'[t] = "active"]_vars
  BY StepActive
<1> QED
  BY <1>1, InitType, StepType, InitKeeping, StepKeeping, PTL DEF Spec, KeptActive
=============================================================================
