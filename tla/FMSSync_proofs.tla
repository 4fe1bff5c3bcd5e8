--------------------------- MODULE FMSSync_proofs ---------------------------
(***************************************************************************)
(* What holds of FMSSync for every number of facilities, syncs, changes    *)
(* and apply requests, and under every choice of Faults.                   *)
(***************************************************************************)
EXTENDS FMSSync, TLAPS

USE FMSSyncAssumption

LEMMA NewSyncType == NewSync \in SyncState
<1>1. (CHOOSE f \in Facility : TRUE) \in Facility
  OBVIOUS
<1> QED
  BY <1>1 DEF NewSync, SyncState

LEMMA NewSyncShape == NewSync.pc = "new" /\ NewSync.old = {}
  BY DEF NewSync

-----------------------------------------------------------------------------
(* The ways in which a step may touch the calls, the map activeSyncs and   *)
(* the facilities with a cancellation.                                     *)

(* What a call has yet to discard is found once and only gets less.        *)
Recalls(s, old) ==
  old \subseteq sync[s].old \/ (At(s, "find") /\ old = Pending(sync[s].facility))

(* A call moves on; it is neither started nor ended nor told to stop.      *)
Advances(s, r) ==
  /\ Running(s)
  /\ Become(s, r)
  /\ r \in SyncState
  /\ r.pc \in Setup \cup Body \cup Failing
  /\ r.facility = sync[s].facility
  /\ r.aborted = sync[s].aborted
  /\ r.early = sync[s].early
  /\ Recalls(s, r.old)
  /\ UNCHANGED <<active, cancelled>>

Starts(s, f, auto) ==
  /\ At(s, "new")
  /\ MayStart(f)
  /\ Become(s, [NewSync EXCEPT !.pc = "find", !.facility = f, !.auto = auto])
  /\ active' = [active EXCEPT ![f] = s]
  /\ UNCHANGED cancelled

Abandons(s) == Running(s) /\ End(s, "setupFailed") /\ UNCHANGED active
Finishes(s) == Running(s) /\ Finally(s)
Rests == UNCHANGED <<sync, active, cancelled>>

LEMMA OverType ==
  ASSUME TypeOK, NEW s \in Sync, NEW p \in {"ended", "setupFailed"}
  PROVE  /\ Over(s, p) \in SyncState
         /\ Over(s, p).pc = p
         /\ Over(s, p).facility = sync[s].facility
         /\ Over(s, p).early = sync[s].early
         /\ Over(s, p).aborted = sync[s].aborted
         /\ Over(s, p).old = {}
<1> DEFINE r == [sync[s] EXCEPT !.pc = p, !.auto = FALSE]
<1>1. sync[s] \in SyncState
  BY DEF TypeOK
<1>2. r \in SyncState
  BY <1>1 DEF SyncState
<1>3. /\ r.pc = p
      /\ r.facility = sync[s].facility
      /\ r.early = sync[s].early
      /\ r.aborted = sync[s].aborted
  BY <1>1 DEF SyncState
<1>4. Over(s, p) = [r EXCEPT !.old = {}, !.cur = {}, !.todo = {}]
  BY <1>1 DEF Over, SyncState
<1> HIDE DEF r
<1>5. [r EXCEPT !.old = {}, !.cur = {}, !.todo = {}] \in SyncState
  BY <1>2 DEF SyncState
<1> QED
  BY <1>2, <1>3, <1>4, <1>5 DEF SyncState

(* Each of the awaited steps of a call moves it on or finishes it.         *)
LEMMA SyncStepEffect ==
  ASSUME TypeOK, NEW s \in Sync, SyncStep(s)
  PROVE  (\E r \in SyncState : Advances(s, r)) \/ Finishes(s) \/ Rests
<1>0. sync[s] \in SyncState /\ sync \in [Sync -> SyncState]
  BY DEF TypeOK
<1>1. ASSUME NEW p \in Body \cup Failing, Running(s), Goto(s, p),
             UNCHANGED <<active, cancelled>>
      PROVE  \E r \in SyncState : Advances(s, r)
  <2> DEFINE r == [sync[s] EXCEPT !.pc = p]
  <2>1. r \in SyncState
    BY <1>0, <1>1 DEF SyncState, Body, Failing
  <2>2. r.facility = sync[s].facility /\ r.aborted = sync[s].aborted
        /\ r.early = sync[s].early /\ r.pc = p /\ r.old = sync[s].old
    BY <1>0 DEF SyncState
  <2>3. Become(s, r)
    BY <1>0, <1>1 DEF Goto, Become, SyncState
  <2> HIDE DEF r
  <2> QED
    BY <1>1, <2>1, <2>2, <2>3 DEF Advances, Recalls
<1>2. ASSUME NEW p \in Setup \cup Body, NEW old \in SUBSET Sync, NEW cur \in SUBSET Sync,
             NEW todo \in SUBSET Change, Running(s), Recalls(s, old),
             Become(s, [sync[s] EXCEPT !.pc = p, !.old = old, !.cur = cur, !.todo = todo]),
             UNCHANGED <<active, cancelled>>
      PROVE  \E r \in SyncState : Advances(s, r)
  <2> DEFINE r == [sync[s] EXCEPT !.pc = p, !.old = old, !.cur = cur, !.todo = todo]
  <2>1. r \in SyncState
    BY <1>0, <1>2 DEF SyncState, Setup, Body
  <2>2. r.facility = sync[s].facility /\ r.aborted = sync[s].aborted
        /\ r.early = sync[s].early /\ r.pc = p /\ r.old = old
    BY <1>0 DEF SyncState
  <2> HIDE DEF r
  <2> QED
    BY <1>2, <2>1, <2>2 DEF r, Advances
<1>3. ASSUME NEW old \in SUBSET Sync, Running(s), Recalls(s, old), NextOld(s, old),
             UNCHANGED <<active, cancelled>>
      PROVE  \E r \in SyncState : Advances(s, r)
  <2> DEFINE p == IF old = {} THEN "create" ELSE "discard"
  <2>1. [sync[s] EXCEPT !.pc = p, !.old = old, !.cur = {}]
        = [sync[s] EXCEPT !.pc = p, !.old = old, !.cur = {}, !.todo = sync[s].todo]
    BY <1>0 DEF SyncState
  <2>2. p \in Setup /\ sync[s].todo \in SUBSET Change
    BY <1>0 DEF Setup, SyncState
  <2>3. Become(s, [sync[s] EXCEPT !.pc = p, !.old = old, !.cur = {}, !.todo = sync[s].todo])
    BY <1>3, <2>1 DEF NextOld
  <2> HIDE DEF p
  <2> QED
    BY <1>2, <1>3, <2>2, <2>3
<1>4. ASSUME NEW p \in Body, CheckCancelled(s, p) = "fail" \/ CheckCancelled(s, p) = p
      PROVE  CheckCancelled(s, p) \in Body \cup Failing
  BY <1>4 DEF Failing
<1>5. CASE FindPending(s)
  BY <1>3, <1>5 DEF FindPending, Pending, Recalls, At, Running, Setup
<1>6. CASE DiscardChanges(s)
  <2>1. PICK o \in sync[s].old : Become(s, [sync[s] EXCEPT !.pc = "supersede", !.cur = {o}])
    BY <1>6 DEF DiscardChanges
  <2>2. [sync[s] EXCEPT !.pc = "supersede", !.cur = {o}]
        = [sync[s] EXCEPT !.pc = "supersede", !.old = sync[s].old, !.cur = {o},
                          !.todo = sync[s].todo]
    BY <1>0 DEF SyncState
  <2>3. sync[s].old \in SUBSET Sync /\ {o} \in SUBSET Sync /\ sync[s].todo \in SUBSET Change
    BY <1>0 DEF SyncState
  <2>4. Running(s) /\ UNCHANGED <<active, cancelled>> /\ "supersede" \in Setup
    BY <1>6 DEF DiscardChanges, At, Running, Setup
  <2>5. Become(s, [sync[s] EXCEPT !.pc = "supersede", !.old = sync[s].old, !.cur = {o},
                                  !.todo = sync[s].todo])
    BY <2>1, <2>2
  <2> QED
    BY <1>2, <2>3, <2>4, <2>5 DEF Recalls
<1>7. CASE Supersede(s)
  <2>1. sync[s].old \ sync[s].cur \in SUBSET Sync
    BY <1>0 DEF SyncState
  <2> QED
    BY <1>3, <1>7, <2>1 DEF Supersede, Recalls, At, Running, Setup
<1>8. CASE CreateLog(s)
  <2>1. CheckCancelled(s, "connect") \in Body \cup Failing
    BY DEF CheckCancelled, Body, Failing
  <2> QED
    BY <1>1, <1>8, <2>1 DEF CreateLog, At, Running, Setup
<1>9. CASE Connect(s)
  <2>1. CheckCancelled(s, "fetch") \in Body \cup Failing
    BY DEF CheckCancelled, Body, Failing
  <2> QED
    BY <1>1, <1>9, <2>1 DEF Connect, At, Running, Body
<1>10. CASE Fetch(s)
  BY <1>1, <1>10 DEF Fetch, At, Running, Body, Failing
<1>11. CASE \E c \in Change : StoreChange(s, c)
  BY <1>11 DEF StoreChange, Rests
<1>12. CASE Detected(s)
  BY <1>1, <1>12 DEF Detected, At, Running, Body
<1>13. CASE Publish(s)
  <2>1. (IF sync[s].auto /\ Found(s) # {} THEN "load" ELSE "complete") \in Body \cup Failing
    BY DEF Body
  <2> QED
    BY <1>1, <1>13, <2>1 DEF Publish, At, Running, Body
<1>14. CASE LoadChanges(s)
  <2> DEFINE cs == {c \in Found(s) : Exists(c)}
             p == IF cs = {} THEN "complete" ELSE "apply"
  <2>1. cs \in SUBSET Change /\ p \in Body /\ sync[s].old \in SUBSET Sync
        /\ sync[s].cur \in SUBSET Sync
    BY <1>0 DEF Found, Body, SyncState
  <2>2. [sync[s] EXCEPT !.pc = p, !.todo = cs]
        = [sync[s] EXCEPT !.pc = p, !.old = sync[s].old, !.cur = sync[s].cur, !.todo = cs]
    BY <1>0 DEF SyncState
  <2>3. Become(s, [sync[s] EXCEPT !.pc = p, !.todo = cs])
        /\ UNCHANGED <<active, cancelled>> /\ Running(s)
    BY <1>14 DEF LoadChanges, At, Running, Body
  <2> HIDE DEF cs, p
  <2> QED
    BY <1>2, <2>1, <2>2, <2>3 DEF Recalls
<1>15. CASE ApplyChange(s)
  <2>1. PICK c \in sync[s].todo :
          Become(s, [sync[s] EXCEPT !.todo = @ \ {c},
                       !.pc = IF sync[s].todo = {c} THEN "complete" ELSE "apply"])
    BY <1>15 DEF ApplyChange
  <2> DEFINE p == IF sync[s].todo = {c} THEN "complete" ELSE "apply"
  <2>2. [sync[s] EXCEPT !.todo = @ \ {c}, !.pc = p]
        = [sync[s] EXCEPT !.pc = p, !.old = sync[s].old, !.cur = sync[s].cur,
                          !.todo = sync[s].todo \ {c}]
    BY <1>0 DEF SyncState
  <2>3. /\ sync[s].old \in SUBSET Sync /\ sync[s].cur \in SUBSET Sync
        /\ sync[s].todo \ {c} \in SUBSET Change /\ p \in Body
    BY <1>0 DEF SyncState, Body
  <2>4. Running(s) /\ UNCHANGED <<active, cancelled>>
    BY <1>15 DEF ApplyChange, At, Running, Body
  <2>5. Become(s, [sync[s] EXCEPT !.pc = p, !.old = sync[s].old, !.cur = sync[s].cur,
                                  !.todo = sync[s].todo \ {c}])
    BY <2>1, <2>2
  <2> HIDE DEF p
  <2> QED
    BY <1>2, <2>3, <2>4, <2>5 DEF Recalls
<1>16. CASE MarkCompleted(s)
  BY <1>1, <1>16 DEF MarkCompleted, At, Running, Body
<1>17. CASE RecordSuccess(s)
  BY <1>17 DEF RecordSuccess, Finishes, At, Running, Body
<1>18. CASE MarkFailed(s)
  BY <1>1, <1>18 DEF MarkFailed, At, Running, Failing
<1>19. CASE RecordFailure(s)
  BY <1>19 DEF RecordFailure, Finishes, At, Running, Failing
<1> QED
  BY <1>5, <1>6, <1>7, <1>8, <1>9, <1>10, <1>11, <1>12, <1>13, <1>14, <1>15,
     <1>16, <1>17, <1>18, <1>19 DEF SyncStep

LEMMA StepEffect ==
  ASSUME TypeOK, [Next]_vars
  PROVE  \/ Rests
         \/ \E s \in Sync, r \in SyncState : Advances(s, r)
         \/ \E s \in Sync, f \in Facility, auto \in BOOLEAN : Starts(s, f, auto)
         \/ \E s \in Sync : Abandons(s)
         \/ \E s \in Sync : Finishes(s)
         \/ \E f \in Facility : CancelSync(f)
         \/ Restart
<1>1. CASE UNCHANGED vars
  BY <1>1 DEF vars, Rests
<1>2. ASSUME NEW s \in Sync, NEW f \in Facility, NEW auto \in BOOLEAN, PerformSync(s, f, auto)
      PROVE  Starts(s, f, auto)
  BY <1>2 DEF PerformSync, Starts
<1>3. ASSUME NEW s \in Sync, SyncStep(s)
      PROVE  (\E r \in SyncState : Advances(s, r)) \/ Finishes(s) \/ Rests
  BY <1>3, SyncStepEffect
<1>4. ASSUME NEW s \in Sync, SetupFails(s) PROVE Abandons(s)
  BY <1>4 DEF SetupFails, Abandons, Running
<1>5. ASSUME NEW s \in Sync, BodyFails(s) PROVE \E r \in SyncState : Advances(s, r)
  <2> DEFINE r == [sync[s] EXCEPT !.pc = "fail"]
  <2>1. sync[s] \in SyncState
    BY DEF TypeOK
  <2>2. /\ r \in SyncState /\ r.pc = "fail"
        /\ r.facility = sync[s].facility
        /\ r.aborted = sync[s].aborted
        /\ r.early = sync[s].early
        /\ r.old = sync[s].old
    BY <2>1 DEF SyncState, Failing
  <2>3. Become(s, r)
    BY <1>5 DEF BodyFails, Goto, Become, TypeOK
  <2>4. Running(s) /\ UNCHANGED <<active, cancelled>>
    BY <1>5 DEF BodyFails, Running, Body
  <2> HIDE DEF r
  <2> QED
    BY <2>2, <2>3, <2>4 DEF Advances, Recalls, Failing
<1>6. ASSUME NEW s \in Sync, CatchFails(s) PROVE Finishes(s)
  BY <1>6 DEF CatchFails, Finishes, Running
<1>7. ASSUME NEW q \in Request,
             (\E cs \in SUBSET Change : ApplyRequest(q, cs)) \/ ApplyRequested(q)
      PROVE  Rests
  BY <1>7 DEF ApplyRequest, ApplyRequested, Rests
<1> QED
  BY <1>1, <1>2, <1>3, <1>4, <1>5, <1>6, <1>7 DEF Next

(* Cancelling changes nothing of a call but the two flags.                 *)
LEMMA CancelShape ==
  ASSUME TypeOK, NEW f \in Facility, CancelSync(f)
  PROVE  \E s \in Sync, r \in SyncState :
           /\ s = active[f]
           /\ Become(s, r)
           /\ r.pc = sync[s].pc
           /\ r.facility = sync[s].facility
           /\ r.old = sync[s].old
           /\ r.aborted
           /\ r.early => sync[s].early \/ At(s, "connect") \/ sync[s].pc \in Setup
<1>1. PICK s \in Sync :
        /\ s = active[f]
        /\ sync' = [sync EXCEPT ![s].aborted = TRUE,
                      ![s].early = @ \/ At(s, "connect") \/ sync[s].pc \in Setup]
  BY DEF CancelSync
<1> DEFINE e == sync[s].early \/ At(s, "connect") \/ sync[s].pc \in Setup
           r == [sync[s] EXCEPT !.aborted = TRUE, !.early = e]
<1>2. e \in BOOLEAN /\ (e => sync[s].early \/ At(s, "connect") \/ sync[s].pc \in Setup)
  BY Zenon
<1>3. sync[s] \in SyncState /\ sync \in [Sync -> SyncState]
  BY DEF TypeOK
<1>4. Become(s, r)
  BY <1>1, <1>3 DEF Become, SyncState
<1>5. /\ r \in SyncState /\ r.pc = sync[s].pc /\ r.facility = sync[s].facility
      /\ r.old = sync[s].old /\ r.aborted /\ r.early = e
  <2> HIDE DEF e
  <2> QED
    BY <1>2, <1>3 DEF SyncState
<1> HIDE DEF r, e
<1> QED
  BY <1>1, <1>2, <1>4, <1>5

-----------------------------------------------------------------------------
(* Every variable keeps its type.                                          *)
THEOREM SyncTypeCorrect == Spec => []TypeOK
<1>1. Init => TypeOK
  BY NewSyncType DEF Init, TypeOK, Status, ChangeState
<1>2. TypeOK /\ [Next]_vars => TypeOK'
  <2> SUFFICES ASSUME TypeOK, [Next]_vars PROVE TypeOK'
    OBVIOUS
  <2>1. /\ sync' \in [Sync -> SyncState]
        /\ active' \in [Facility -> Sync \cup {NoSync}]
        /\ cancelled' \subseteq Facility
    <3>1. CASE Rests
      BY <3>1 DEF Rests, TypeOK
    <3>2. CASE \E s \in Sync, r \in SyncState : Advances(s, r)
      BY <3>2 DEF Advances, Become, TypeOK
    <3>3. ASSUME NEW s \in Sync, NEW f \in Facility, NEW auto \in BOOLEAN, Starts(s, f, auto)
          PROVE  <2>1!1 /\ <2>1!2 /\ <2>1!3
      <4>1. [NewSync EXCEPT !.pc = "find", !.facility = f, !.auto = auto] \in SyncState
        BY NewSyncType DEF SyncState, Setup
      <4> QED
        BY <3>3, <4>1 DEF Starts, Become, TypeOK
    <3>4. CASE \E s \in Sync : Abandons(s)
      BY <3>4, OverType DEF Abandons, End, Become, TypeOK
    <3>5. CASE \E s \in Sync : Finishes(s)
      BY <3>5, OverType DEF Finishes, Finally, End, Become, TypeOK
    <3>6. ASSUME NEW f \in Facility, CancelSync(f) PROVE <2>1!1 /\ <2>1!2 /\ <2>1!3
      <4>1. PICK s \in Sync, r \in SyncState : Become(s, r)
        BY <3>6, CancelShape
      <4>2. sync' \in [Sync -> SyncState]
        BY <4>1 DEF TypeOK, Become
      <4> QED
        BY <3>6, <4>2 DEF CancelSync, TypeOK
    <3>7. CASE Restart
      BY <3>7, OverType DEF Restart, TypeOK
    <3> QED
      BY <3>1, <3>2, <3>3, <3>4, <3>5, <3>6, <3>7, StepEffect
  <2>2. log' \in [Sync -> Status]
    <3>1. \/ log' = log
          \/ \E s \in Sync, st \in Status : log' = [log EXCEPT ![s] = st]
          \/ \E os : log' = [o \in Sync |-> IF o \in os THEN "failed" ELSE log[o]]
      BY DEF Next, vars, PerformSync, SyncStep, FindPending, DiscardChanges, Supersede,
             CreateLog, Connect, Fetch, StoreChange, Detected, Publish, Outcome, LoadChanges,
             ApplyChange, MarkCompleted, RecordSuccess, MarkFailed, RecordFailure,
             SetupFails, BodyFails, CatchFails, CancelSync, ApplyRequest, ApplyRequested,
             Restart, Status
    <3> QED
      BY <3>1 DEF TypeOK, Status
  <2>3. change' \in [Change -> ChangeState]
    <3> USE DEF TypeOK, ChangeState
    <3>1. ASSUME NEW c \in Change, Applied(c) PROVE change' \in [Change -> ChangeState]
      BY <3>1 DEF Applied
    <3>2. CASE change' = change
      BY <3>2
    <3>3. ASSUME NEW s \in Sync, DiscardChanges(s) PROVE change' \in [Change -> ChangeState]
      BY <3>3 DEF DiscardChanges
    <3>4. ASSUME NEW s \in Sync, NEW c \in Change, StoreChange(s, c)
          PROVE change' \in [Change -> ChangeState]
      BY <3>4 DEF StoreChange
    <3>5. ASSUME NEW s \in Sync, ApplyChange(s) PROVE \E c \in Change : Applied(c)
      <4>1. sync[s].todo \subseteq Change
        BY DEF SyncState
      <4> QED
        BY <3>5, <4>1 DEF ApplyChange
    <3>6. ASSUME NEW q \in Request, ApplyRequested(q) PROVE \E c \in Change : Applied(c)
      <4>1. request[q] \subseteq Change
        OBVIOUS
      <4> QED
        BY <3>6, <4>1 DEF ApplyRequested
    <3>7. \/ change' = change
          \/ \E s \in Sync : \/ DiscardChanges(s) \/ ApplyChange(s)
                             \/ \E c \in Change : StoreChange(s, c)
          \/ \E q \in Request : ApplyRequested(q)
      BY DEF Next, vars, PerformSync, SyncStep, FindPending, Supersede,
             CreateLog, Connect, Fetch, Detected, Publish, LoadChanges,
             MarkCompleted, RecordSuccess, MarkFailed, RecordFailure,
             SetupFails, BodyFails, CatchFails, CancelSync, ApplyRequest, Restart
    <3> QED
      BY <3>1, <3>2, <3>3, <3>4, <3>5, <3>6, <3>7
  <2>4. request' \in [Request -> SUBSET Change]
    <3>1. \/ request' = request
          \/ \E q \in Request, cs \in SUBSET Change : request' = [request EXCEPT ![q] = cs]
          \/ \E q \in Request, c \in Change : request' = [request EXCEPT ![q] = @ \ {c}]
          \/ request' = [q \in Request |-> {}]
      BY DEF Next, vars, PerformSync, SyncStep, FindPending, DiscardChanges, Supersede,
             CreateLog, Connect, Fetch, StoreChange, Detected, Publish, LoadChanges,
             ApplyChange, MarkCompleted, RecordSuccess, MarkFailed, RecordFailure,
             SetupFails, BodyFails, CatchFails, CancelSync, ApplyRequest, ApplyRequested,
             Restart, TypeOK
    <3> QED
      BY <3>1 DEF TypeOK
  <2> QED
    BY <2>1, <2>2, <2>3, <2>4 DEF TypeOK
<1> QED
  BY <1>1, <1>2, PTL DEF Spec

-----------------------------------------------------------------------------
(* A step leaves all calls but one as they are.                            *)
LEMMA BecomeOne ==
  ASSUME TypeOK, NEW s \in Sync, NEW r, Become(s, r)
  PROVE  \A t \in Sync : sync'[t] = IF t = s THEN r ELSE sync[t]
  BY DEF TypeOK, Become

LEMMA StartShape ==
  ASSUME NEW f \in Facility, NEW auto \in BOOLEAN
  PROVE  LET r == [NewSync EXCEPT !.pc = "find", !.facility = f, !.auto = auto]
         IN  r.pc = "find" /\ r.facility = f /\ r.old = {} /\ ~r.early
  BY DEF NewSync

(* EntryHeld is inductive: an entry is made by the call that starts, no    *)
(* call starts twice, and the end of a call deletes what is under its      *)
(* facility.                                                               *)
LEMMA EntryStep == TypeOK /\ EntryHeld /\ [Next]_vars => EntryHeld'
<1> SUFFICES ASSUME TypeOK, EntryHeld, [Next]_vars,
                    NEW g \in Facility, NEW t \in Sync, active'[g] = t
             PROVE  /\ sync'[t].facility = g
                    /\ Running(t)' \/ At(t, "setupFailed")'
  BY DEF EntryHeld
<1>0. active \in [Facility -> Sync \cup {NoSync}]
  BY DEF TypeOK
<1>1. CASE Rests
  BY <1>1 DEF Rests, EntryHeld, Running, At
<1>2. ASSUME NEW s \in Sync, NEW r \in SyncState, Advances(s, r)
      PROVE  sync'[t].facility = g /\ (Running(t)' \/ At(t, "setupFailed")')
  BY <1>2, BecomeOne DEF Advances, EntryHeld, Running, At
<1>3. ASSUME NEW s \in Sync, NEW f \in Facility, NEW auto \in BOOLEAN, Starts(s, f, auto)
      PROVE  sync'[t].facility = g /\ (Running(t)' \/ At(t, "setupFailed")')
  <2> DEFINE r == [NewSync EXCEPT !.pc = "find", !.facility = f, !.auto = auto]
  <2>1. r.pc = "find" /\ r.facility = f /\ "find" \in Setup
    BY StartShape DEF Setup
  <2>2. \A u \in Sync : sync'[u] = IF u = s THEN r ELSE sync[u]
    BY <1>3, BecomeOne DEF Starts
  <2> HIDE DEF r
  <2>3. CASE g = f
    BY <1>0, <1>3, <2>1, <2>2, <2>3 DEF Starts, Running
  <2>4. CASE g # f
    <3>1. active[g] = t
      BY <1>0, <1>3, <2>4 DEF Starts
    <3>2. t # s
      BY <1>3, <3>1 DEF EntryHeld, Starts, At, Running, Setup, Body, Failing
    <3> QED
      BY <2>2, <3>1, <3>2 DEF EntryHeld, Running, At
  <2> QED
    BY <2>3, <2>4
<1>4. ASSUME NEW s \in Sync, Abandons(s)
      PROVE  sync'[t].facility = g /\ (Running(t)' \/ At(t, "setupFailed")')
  <2>1. \A u \in Sync : sync'[u] = IF u = s THEN Over(s, "setupFailed") ELSE sync[u]
    BY <1>4, BecomeOne DEF Abandons, End
  <2> QED
    BY <1>4, <2>1, OverType DEF Abandons, EntryHeld, Running, At
<1>5. ASSUME NEW s \in Sync, Finishes(s)
      PROVE  sync'[t].facility = g /\ (Running(t)' \/ At(t, "setupFailed")')
  <2>1. \A u \in Sync : sync'[u] = IF u = s THEN Over(s, "ended") ELSE sync[u]
    BY <1>5, BecomeOne DEF Finishes, Finally, End
  <2>2. g # sync[s].facility /\ active[g] = t
    BY <1>0, <1>5 DEF Finishes, Finally
  <2>3. t # s
    BY <2>2 DEF EntryHeld
  <2> QED
    BY <2>1, <2>2, <2>3 DEF EntryHeld, Running, At
<1>6. ASSUME NEW f \in Facility, CancelSync(f)
      PROVE  sync'[t].facility = g /\ (Running(t)' \/ At(t, "setupFailed")')
  <2>1. active[g] = t
    BY <1>0, <1>6 DEF CancelSync
  <2>2. sync'[t].pc = sync[t].pc /\ sync'[t].facility = sync[t].facility
    BY <1>6, CancelShape, BecomeOne
  <2> QED
    BY <2>1, <2>2 DEF EntryHeld, Running, At
<1>7. CASE Restart
  BY <1>7 DEF Restart
<1> QED
  BY <1>1, <1>2, <1>3, <1>4, <1>5, <1>6, <1>7, StepEffect

(* What keeps further syncs of a facility out is a sync of that facility   *)
(* that is running, or one that failed before its try block (activeSyncs). *)
THEOREM EntryCorrect == Spec => []EntryHeld
<1>1. Init => EntryHeld
  BY DEF Init, EntryHeld
<1> QED
  BY <1>1, EntryStep, SyncTypeCorrect, PTL DEF Spec

-----------------------------------------------------------------------------
(* ExclusiveUnlessCancelled says nothing of the map, so it is not          *)
(* inductive; what makes it true is that a running sync is the one its     *)
(* facility's entry names, as long as nobody has cancelled.                *)
Registered ==
  \A s \in Sync : Running(s) => \/ sync[s].facility \in cancelled
                                \/ active[sync[s].facility] = s

LEMMA RegisteredExclusive == Registered => ExclusiveUnlessCancelled
  BY DEF Registered, ExclusiveUnlessCancelled

(* The end of s: whoever else runs in its facility ran under a             *)
(* cancellation, which is not forgotten before the last of them has ended. *)
LEMMA EndRegistered ==
  ASSUME TypeOK, Registered, NEW s \in Sync, NEW p \in {"ended", "setupFailed"},
         Running(s), End(s, p),
         \A f \in Facility : f # sync[s].facility => active'[f] = active[f]
  PROVE  Registered'
<1> SUFFICES ASSUME NEW t \in Sync, Running(t)'
             PROVE  sync'[t].facility \in cancelled' \/ active'[sync'[t].facility] = t
  BY DEF Registered
<1>1. \A u \in Sync : sync'[u] = IF u = s THEN Over(s, p) ELSE sync[u]
  BY BecomeOne DEF End
<1>2. t # s
  BY <1>1, OverType DEF Running, Setup, Body, Failing
<1>3. Running(t) /\ sync'[t] = sync[t] /\ sync[t].facility \in Facility
  BY <1>1, <1>2 DEF Running, TypeOK, SyncState
<1>4. CASE sync[t].facility = sync[s].facility
  <2>1. sync[s].facility \in cancelled
    BY <1>2, <1>3, <1>4 DEF Registered
  <2>2. RunningAt(sync[s].facility) # {s}
    BY <1>2, <1>3, <1>4 DEF RunningAt
  <2> QED
    BY <1>3, <1>4, <2>1, <2>2 DEF End
<1>5. CASE sync[t].facility # sync[s].facility
  BY <1>3, <1>5 DEF Registered, End
<1> QED
  BY <1>4, <1>5

LEMMA RegisteredStep == TypeOK /\ Registered /\ [Next]_vars => Registered'
<1> SUFFICES ASSUME TypeOK, Registered, [Next]_vars PROVE Registered'
  OBVIOUS
<1>0. active \in [Facility -> Sync \cup {NoSync}]
      /\ \A s \in Sync : sync[s].facility \in Facility
  BY DEF TypeOK, SyncState
<1>1. CASE Rests
  BY <1>1 DEF Rests, Registered, Running
<1>2. ASSUME NEW s \in Sync, NEW r \in SyncState, Advances(s, r) PROVE Registered'
  BY <1>2, BecomeOne DEF Advances, Registered, Running
<1>3. ASSUME NEW s \in Sync, NEW f \in Facility, NEW auto \in BOOLEAN, Starts(s, f, auto)
      PROVE  Registered'
  <2> DEFINE r == [NewSync EXCEPT !.pc = "find", !.facility = f, !.auto = auto]
  <2>1. r.facility = f
    BY StartShape
  <2>2. \A u \in Sync : sync'[u] = IF u = s THEN r ELSE sync[u]
    BY <1>3, BecomeOne DEF Starts
  <2> HIDE DEF r
  <2>3. ASSUME NEW t \in Sync, Running(t)', t # s
        PROVE  sync'[t].facility \in cancelled' \/ active'[sync'[t].facility] = t
    <3>1. sync'[t] = sync[t] /\ Running(t)
      BY <2>2, <2>3 DEF Running
    <3>2. sync[t].facility = f => active[f] = NoSync
      BY <1>3 DEF Starts, MayStart
    <3> QED
      BY <1>0, <1>3, <3>1, <3>2 DEF Starts, Registered
  <2>4. active'[sync'[s].facility] = s
    BY <1>0, <1>3, <2>1, <2>2 DEF Starts
  <2> QED
    BY <2>3, <2>4 DEF Registered
<1>4. ASSUME NEW s \in Sync, Abandons(s) PROVE Registered'
  BY <1>4, EndRegistered DEF Abandons
<1>5. ASSUME NEW s \in Sync, Finishes(s) PROVE Registered'
  <2>1. \A f \in Facility : f # sync[s].facility => active'[f] = active[f]
    BY <1>0, <1>5 DEF Finishes, Finally
  <2> QED
    BY <1>5, <2>1, EndRegistered DEF Finishes, Finally
<1>6. ASSUME NEW f \in Facility, CancelSync(f) PROVE Registered'
  <2> SUFFICES ASSUME NEW t \in Sync, Running(t)'
               PROVE  sync'[t].facility \in cancelled' \/ active'[sync'[t].facility] = t
    BY DEF Registered
  <2>1. sync'[t].pc = sync[t].pc /\ sync'[t].facility = sync[t].facility
    BY <1>6, CancelShape, BecomeOne
  <2>2. Running(t)
    BY <2>1 DEF Running
  <2>3. CASE sync[t].facility = f
    <3>1. t \in RunningAt(f)
      BY <2>2, <2>3 DEF RunningAt
    <3> QED
      BY <1>6, <2>1, <2>3, <3>1 DEF CancelSync
  <2>4. CASE sync[t].facility # f
    BY <1>0, <1>6, <2>1, <2>2, <2>4 DEF CancelSync, Registered
  <2> QED
    BY <2>3, <2>4
<1>7. CASE Restart
  <2>1. ASSUME NEW t \in Sync PROVE ~Running(t)'
    BY <1>7, OverType DEF Restart, Running, Setup, Body, Failing
  <2> QED
    BY <2>1 DEF Registered
<1> QED
  BY <1>1, <1>2, <1>3, <1>4, <1>5, <1>6, <1>7, StepEffect

LEMMA RegisteredAlways == Spec => []Registered
<1>1. Init => Registered
  BY DEF Init, NewSync, Registered, Running, Setup, Body, Failing
<1> QED
  BY <1>1, RegisteredStep, SyncTypeCorrect, PTL DEF Spec

(* Without a cancellation no two syncs of a facility ever run at the same  *)
(* time, whatever fails and whenever the server restarts (performSync).    *)
THEOREM ExclusionCorrect == Spec => []ExclusiveUnlessCancelled
  BY RegisteredAlways, RegisteredExclusive, PTL

-----------------------------------------------------------------------------
(* Where a call may be before it stores changes, and where a call that was *)
(* told to stop before then may be.                                        *)
Prelude == {"new"} \cup Setup \cup {"connect", "fetch"}
Stopping == Setup \cup {"connect"} \cup Failing \cup {"ended", "setupFailed"}

(* Calls move forward only, and a call told to stop never gets to the      *)
(* fetch.                                                                  *)
LEMMA Forward ==
  ASSUME TypeOK, [Next]_vars, NEW s \in Sync
  PROVE  /\ sync'[s].pc \in Prelude => sync[s].pc \in Prelude
         /\ sync[s].aborted /\ sync[s].pc \in Stopping => sync'[s].pc \in Stopping
<1> DEFINE Goal == /\ sync'[s].pc \in Prelude => sync[s].pc \in Prelude
                   /\ sync[s].aborted /\ sync[s].pc \in Stopping => sync'[s].pc \in Stopping
<1>0. sync \in [Sync -> SyncState] /\ sync[s] \in SyncState
  BY DEF TypeOK
<1>1. ASSUME sync'[s] = sync[s] PROVE Goal
  BY <1>1
<1>2. ASSUME NEW r, Become(s, r),
             r.pc \in Prelude => sync[s].pc \in Prelude,
             sync[s].aborted /\ sync[s].pc \in Stopping => r.pc \in Stopping
      PROVE  Goal
  BY <1>0, <1>2 DEF Become
<1>3. ASSUME NEW p, Goto(s, p),
             p \in Prelude => sync[s].pc \in Prelude,
             sync[s].aborted /\ sync[s].pc \in Stopping => p \in Stopping
      PROVE  Goal
  <2>1. sync'[s].pc = p
    BY <1>0, <1>3 DEF Goto, SyncState
  <2> QED
    BY <1>3, <2>1
<1>4. ASSUME NEW t \in Sync, t # s, (\E r : Become(t, r)) \/ (\E p : Goto(t, p))
      PROVE  Goal
  <2>1. sync'[s] = sync[s]
    BY <1>0, <1>4 DEF Become, Goto
  <2> QED
    BY <1>1, <2>1
<1> HIDE DEF Goal
<1>5. ASSUME NEW t \in Sync, SyncStep(t) PROVE Goal
  <2>0. CASE t # s
    <3>1. (\E r : Become(t, r)) \/ (\E p : Goto(t, p)) \/ sync' = sync
      BY <1>5 DEF SyncStep, FindPending, NextOld, DiscardChanges, Supersede, CreateLog, Connect,
                  Fetch, StoreChange, Detected, Publish, LoadChanges, ApplyChange, MarkCompleted,
                  RecordSuccess, MarkFailed, RecordFailure, Finally, End
    <3> QED
      BY <1>1, <1>4, <2>0, <3>1
  <2> SUFFICES ASSUME t = s PROVE Goal
    BY <2>0
  <2> USE DEF At, Prelude, Stopping, Setup, Failing
  <2>1. CASE FindPending(s) \/ DiscardChanges(s) \/ Supersede(s)
    <3>1. sync[s].pc \in Setup
      BY <2>1 DEF FindPending, DiscardChanges, Supersede
    <3>2. CASE DiscardChanges(s)
      <4>1. PICK o : Become(s, [sync[s] EXCEPT !.pc = "supersede", !.cur = {o}])
        BY <3>2 DEF DiscardChanges
      <4>2. [sync[s] EXCEPT !.pc = "supersede", !.cur = {o}].pc = "supersede"
        BY <1>0 DEF SyncState
      <4> QED
        BY <1>2, <3>1, <4>1, <4>2
    <3>3. ASSUME NEW old, NextOld(s, old) PROVE Goal
      <4> DEFINE r == [sync[s] EXCEPT !.pc = IF old = {} THEN "create" ELSE "discard",
                                      !.old = old, !.cur = {}]
      <4>1. r.pc \in Setup /\ Become(s, r)
        BY <1>0, <3>3 DEF NextOld, SyncState
      <4> HIDE DEF r
      <4> QED
        BY <1>2, <3>1, <4>1
    <3> QED
      BY <2>1, <3>2, <3>3 DEF FindPending, Supersede
  <2>2. CASE CreateLog(s)
    BY <1>3, <2>2 DEF CreateLog, CheckCancelled
  <2>3. CASE Connect(s)
    BY <1>3, <2>3 DEF Connect, CheckCancelled
  <2>4. CASE Fetch(s)
    BY <1>3, <2>4 DEF Fetch
  <2>5. CASE \E c \in Change : StoreChange(s, c)
    BY <1>1, <2>5 DEF StoreChange
  <2>6. CASE Detected(s)
    BY <1>3, <2>6 DEF Detected
  <2>7. CASE Publish(s)
    <3>1. PICK p \in {"load", "complete"} : Goto(s, p)
      BY <2>7 DEF Publish
    <3> QED
      BY <1>3, <2>7, <3>1 DEF Publish
  <2>8. CASE LoadChanges(s) \/ ApplyChange(s)
    <3>1. sync[s].pc \in {"load", "apply"}
      BY <2>8 DEF LoadChanges, ApplyChange
    <3>2. ASSUME NEW p \in {"apply", "complete"}, NEW todo,
                 Become(s, [sync[s] EXCEPT !.pc = p, !.todo = todo])
          PROVE  Goal
      <4>1. [sync[s] EXCEPT !.pc = p, !.todo = todo].pc = p
        BY <1>0 DEF SyncState
      <4> QED
        BY <1>2, <3>1, <3>2, <4>1
    <3>3. CASE LoadChanges(s)
      BY <3>2, <3>3 DEF LoadChanges
    <3>4. CASE ApplyChange(s)
      <4>1. PICK c \in sync[s].todo :
              Become(s, [sync[s] EXCEPT !.todo = @ \ {c},
                           !.pc = IF sync[s].todo = {c} THEN "complete" ELSE "apply"])
        BY <3>4 DEF ApplyChange
      <4> DEFINE p == IF sync[s].todo = {c} THEN "complete" ELSE "apply"
      <4>2. [sync[s] EXCEPT !.todo = @ \ {c}, !.pc = p]
            = [sync[s] EXCEPT !.pc = p, !.todo = sync[s].todo \ {c}]
        BY <1>0 DEF SyncState
      <4>3. Become(s, [sync[s] EXCEPT !.pc = p, !.todo = sync[s].todo \ {c}])
        BY <4>1, <4>2
      <4> HIDE DEF p
      <4>4. p \in {"apply", "complete"}
        BY DEF p
      <4> QED
        BY <3>2, <4>3, <4>4
    <3> QED
      BY <2>8, <3>3, <3>4
  <2>9. CASE MarkCompleted(s)
    BY <1>3, <2>9 DEF MarkCompleted
  <2>10. CASE RecordSuccess(s) \/ RecordFailure(s)
    <3>1. Become(s, Over(s, "ended")) /\ Over(s, "ended").pc = "ended"
      BY <2>10, OverType DEF RecordSuccess, RecordFailure, Finally, End
    <3> QED
      BY <1>2, <3>1
  <2>11. CASE MarkFailed(s)
    BY <1>3, <2>11 DEF MarkFailed
  <2> QED
    BY <1>5, <2>1, <2>2, <2>3, <2>4, <2>5, <2>6, <2>7, <2>8, <2>9, <2>10, <2>11 DEF SyncStep
<1>6. ASSUME NEW t \in Sync, NEW f \in Facility, NEW auto \in BOOLEAN, PerformSync(t, f, auto)
      PROVE  Goal
  <2> DEFINE r == [NewSync EXCEPT !.pc = "find", !.facility = f, !.auto = auto]
  <2>1. Become(t, r) /\ sync[t].pc = "new"
    BY <1>6 DEF PerformSync, At
  <2>2. r.pc = "find"
    BY StartShape
  <2> HIDE DEF r
  <2>3. CASE t = s
    BY <1>2, <2>1, <2>2, <2>3 DEF Prelude, Stopping, Setup, Failing
  <2> QED
    BY <1>4, <2>1, <2>3
<1>7. ASSUME NEW t \in Sync, SetupFails(t) \/ CatchFails(t) PROVE Goal
  <2>1. PICK p \in {"ended", "setupFailed"} : Become(t, Over(t, p))
    BY <1>7 DEF SetupFails, CatchFails, Finally, End
  <2>2. Over(t, p).pc = p
    BY OverType
  <2>3. CASE t = s
    BY <1>2, <2>1, <2>2, <2>3 DEF Prelude, Stopping, Setup
  <2> QED
    BY <1>4, <2>1, <2>3
<1>8. ASSUME NEW t \in Sync, BodyFails(t) PROVE Goal
  <2>1. CASE t = s
    BY <1>3, <1>8, <2>1 DEF BodyFails, Prelude, Stopping, Setup, Failing
  <2> QED
    BY <1>4, <1>8, <2>1 DEF BodyFails
<1>9. ASSUME NEW f \in Facility, CancelSync(f) PROVE Goal
  <2>1. PICK t \in Sync, r \in SyncState : Become(t, r) /\ r.pc = sync[t].pc
    BY <1>9, CancelShape
  <2>2. CASE t = s
    BY <1>2, <2>1, <2>2
  <2> QED
    BY <1>4, <2>1, <2>2
<1>10. ASSUME Restart PROVE Goal
  <2>1. sync'[s] = sync[s] \/ sync'[s].pc = "ended"
    BY <1>10, OverType DEF Restart
  <2> QED
    BY <1>1, <2>1 DEF Goal, Prelude, Stopping, Setup
<1>11. ASSUME UNCHANGED vars PROVE Goal
  BY <1>1, <1>11 DEF vars
<1>12. ASSUME NEW q \in Request,
              (\E cs \in SUBSET Change : ApplyRequest(q, cs)) \/ ApplyRequested(q)
       PROVE  Goal
  BY <1>1, <1>12 DEF ApplyRequest, ApplyRequested
<1>13. ASSUME Next PROVE Goal
  BY <1>5, <1>6, <1>7, <1>8, <1>9, <1>10, <1>12, <1>13 DEF Next
<1>14. Goal
  BY <1>11, <1>13
<1> QED
  BY <1>14 DEF Goal

(* A call is told to stop early only by a cancellation, and then keeps     *)
(* what it was told.                                                       *)
LEMMA Flags ==
  ASSUME TypeOK, [Next]_vars, NEW s \in Sync, sync'[s].early
  PROVE  \/ sync[s].early /\ (sync[s].aborted => sync'[s].aborted)
         \/ /\ sync'[s].aborted
            /\ sync'[s].pc = sync[s].pc
            /\ sync[s].pc \in Setup \cup {"connect"}
<1> DEFINE Goal == \/ sync[s].early /\ (sync[s].aborted => sync'[s].aborted)
                   \/ /\ sync'[s].aborted
                      /\ sync'[s].pc = sync[s].pc
                      /\ sync[s].pc \in Setup \cup {"connect"}
<1>1. CASE Rests
  BY <1>1 DEF Rests
<1>2. ASSUME NEW t \in Sync, NEW r \in SyncState, Advances(t, r) PROVE Goal
  BY <1>2, BecomeOne DEF Advances
<1>3. ASSUME NEW t \in Sync, NEW f \in Facility, NEW auto \in BOOLEAN, Starts(t, f, auto)
      PROVE  Goal
  <2> DEFINE r == [NewSync EXCEPT !.pc = "find", !.facility = f, !.auto = auto]
  <2>1. ~r.early
    BY StartShape
  <2>2. \A u \in Sync : sync'[u] = IF u = t THEN r ELSE sync[u]
    BY <1>3, BecomeOne DEF Starts
  <2> HIDE DEF r
  <2> QED
    BY <2>1, <2>2
<1>4. ASSUME NEW t \in Sync, NEW p \in {"ended", "setupFailed"}, End(t, p) PROVE Goal
  <2>1. \A u \in Sync : sync'[u] = IF u = t THEN Over(t, p) ELSE sync[u]
    BY <1>4, BecomeOne DEF End
  <2> QED
    BY <2>1, OverType
<1>5. ASSUME NEW f \in Facility, CancelSync(f) PROVE Goal
  BY <1>5, CancelShape, BecomeOne DEF At
<1>6. CASE Restart
  BY <1>6, OverType DEF Restart
<1> QED
  BY <1>1, <1>2, <1>3, <1>4, <1>5, <1>6, StepEffect DEF Abandons, Finishes, Finally

(* Only a call that compares stores changes of its own.                    *)
LEMMA FoundStep ==
  ASSUME TypeOK, [Next]_vars, NEW s \in Sync, ~At(s, "detect")
  PROVE  Found(s)' \subseteq Found(s)
<1> SUFFICES ASSUME NEW c \in Change PROVE change'[c].log = s => change[c].log = s
  BY DEF Found
<1> USE DEF TypeOK, ChangeState
<1>1. ASSUME NEW d, Applied(d) PROVE change'[c].log = s => change[c].log = s
  BY <1>1 DEF Applied
<1>2. ASSUME NEW t \in Sync, DiscardChanges(t) PROVE change'[c].log = s => change[c].log = s
  BY <1>2 DEF DiscardChanges
<1>3. ASSUME NEW t \in Sync, NEW d \in Change, StoreChange(t, d)
      PROVE  change'[c].log = s => change[c].log = s
  BY <1>3 DEF StoreChange, At
<1>4. \/ change' = change
      \/ \E d : Applied(d)
      \/ \E t \in Sync : DiscardChanges(t) \/ \E d \in Change : StoreChange(t, d)
  BY DEF Next, vars, PerformSync, SyncStep, FindPending, Supersede,
         CreateLog, Connect, Fetch, Detected, Publish, LoadChanges, ApplyChange,
         MarkCompleted, RecordSuccess, MarkFailed, RecordFailure,
         SetupFails, BodyFails, CatchFails, CancelSync, ApplyRequest, ApplyRequested, Restart
<1> QED
  BY <1>1, <1>2, <1>3, <1>4

(* EarlyCancelHonoured does not say why the call stops: it has yet to get  *)
(* past a place that looks at the signal, and has stored nothing so far.   *)
Quiet ==
  \A s \in Sync :
    /\ sync[s].pc \in Prelude => Found(s) = {}
    /\ sync[s].early => sync[s].aborted /\ sync[s].pc \in Stopping /\ Found(s) = {}

LEMMA QuietStep == TypeOK /\ Quiet /\ [Next]_vars => Quiet'
<1> SUFFICES ASSUME TypeOK, Quiet, [Next]_vars, NEW s \in Sync
             PROVE  /\ sync'[s].pc \in Prelude => Found(s)' = {}
                    /\ sync'[s].early => /\ sync'[s].aborted /\ sync'[s].pc \in Stopping
                                         /\ Found(s)' = {}
  BY DEF Quiet
<1>1. "detect" \notin Prelude /\ "detect" \notin Stopping
  BY DEF Prelude, Stopping, Setup, Failing
<1>2. ASSUME sync[s].pc \in Prelude PROVE Found(s)' = {}
  BY <1>1, <1>2, FoundStep DEF Quiet, At
<1>3. sync'[s].pc \in Prelude => Found(s)' = {}
  BY <1>2, Forward
<1>4. ASSUME sync'[s].early, sync[s].early, sync[s].aborted => sync'[s].aborted
      PROVE  sync'[s].aborted /\ sync'[s].pc \in Stopping /\ Found(s)' = {}
  BY <1>1, <1>4, FoundStep, Forward DEF Quiet, At
<1>5. ASSUME sync'[s].aborted, sync'[s].pc = sync[s].pc, sync[s].pc \in Setup \cup {"connect"}
      PROVE  sync'[s].aborted /\ sync'[s].pc \in Stopping /\ Found(s)' = {}
  BY <1>2, <1>5 DEF Prelude, Stopping
<1> QED
  BY <1>3, <1>4, <1>5, Flags

(* A sync that is cancelled before it has connected stores no change,      *)
(* whatever else happens meanwhile (checkCancelled after the wait).        *)
THEOREM EarlyCancelCorrect == Spec => []EarlyCancelHonoured
<1>1. Init => Quiet
  BY DEF Init, NewSync, Quiet, Found
<1>2. Quiet => EarlyCancelHonoured
  BY DEF Quiet, EarlyCancelHonoured
<1> QED
  BY <1>1, <1>2, QuietStep, SyncTypeCorrect, PTL DEF Spec

-----------------------------------------------------------------------------
(* What a sync has yet to discard was found by it, of its own facility.    *)
LEMMA OldStep ==
  ASSUME TypeOK, [Next]_vars, NEW s \in Sync
  PROVE  /\ ~At(s, "new") => ~At(s, "new")' /\ sync'[s].facility = sync[s].facility
         /\ \A o \in sync'[s].old :
              /\ sync'[s].facility = sync[s].facility
              /\ o \in sync[s].old \/ (At(s, "find") /\ o \in Pending(sync[s].facility))
<1> DEFINE Goal == /\ ~At(s, "new") => ~At(s, "new")' /\ sync'[s].facility = sync[s].facility
                   /\ \A o \in sync'[s].old :
                        /\ sync'[s].facility = sync[s].facility
                        /\ \/ o \in sync[s].old
                           \/ At(s, "find") /\ o \in Pending(sync[s].facility)
<1>1. CASE sync'[s] = sync[s]
  BY <1>1 DEF At
<1>2. ASSUME NEW t \in Sync, NEW r \in SyncState, Advances(t, r) PROVE Goal
  <2>1. CASE t = s
    BY <1>2, <2>1, BecomeOne DEF Advances, Recalls, At, Setup, Body, Failing
  <2> QED
    BY <1>1, <1>2, <2>1, BecomeOne DEF Advances
<1>3. ASSUME NEW t \in Sync, NEW f \in Facility, NEW auto \in BOOLEAN, Starts(t, f, auto)
      PROVE  Goal
  <2> DEFINE r == [NewSync EXCEPT !.pc = "find", !.facility = f, !.auto = auto]
  <2>1. r.old = {}
    BY StartShape
  <2>2. At(t, "new") /\ \A u \in Sync : sync'[u] = IF u = t THEN r ELSE sync[u]
    BY <1>3, BecomeOne DEF Starts
  <2> HIDE DEF r
  <2> QED
    BY <1>1, <2>1, <2>2
<1>4. ASSUME NEW t \in Sync, NEW p \in {"ended", "setupFailed"}, End(t, p) PROVE Goal
  <2>1. \A u \in Sync : sync'[u] = IF u = t THEN Over(t, p) ELSE sync[u]
    BY <1>4, BecomeOne DEF End
  <2>2. CASE t = s
    BY <2>1, <2>2, OverType DEF At
  <2> QED
    BY <1>1, <2>1, <2>2
<1>5. ASSUME NEW f \in Facility, CancelSync(f) PROVE Goal
  BY <1>5, CancelShape, BecomeOne DEF At
<1>6. CASE Restart
  <2>1. sync'[s] = sync[s] \/ sync'[s] = Over(s, "ended")
    BY <1>6 DEF Restart
  <2> QED
    BY <1>1, <2>1, OverType DEF At
<1>7. CASE Rests
  BY <1>1, <1>7 DEF Rests
<1> QED
  BY <1>2, <1>3, <1>4, <1>5, <1>6, <1>7, StepEffect DEF Abandons, Finishes, Finally

(* A log gets to "pending_review" when its sync has published it.          *)
LEMMA PendingStep ==
  ASSUME TypeOK, [Next]_vars, NEW s \in Sync, log'[s] = "pending_review"
  PROVE  log[s] = "pending_review" \/ sync'[s].pc \in {"load", "complete"}
<1>1. ASSUME NEW t \in Sync, Publish(t)
      PROVE  log[s] = "pending_review" \/ sync'[s].pc \in {"load", "complete"}
  BY <1>1 DEF Publish, Goto, TypeOK, SyncState
<1>2. \/ log' = log
      \/ \E t \in Sync, st \in {"in_progress", "completed", "failed"} : log' = [log EXCEPT ![t] = st]
      \/ \E os : log' = [o \in Sync |-> IF o \in os THEN "failed" ELSE log[o]]
      \/ \E t \in Sync : Publish(t)
  BY DEF Next, vars, PerformSync, SyncStep, FindPending, DiscardChanges, Supersede,
         CreateLog, Connect, Fetch, StoreChange, Detected, LoadChanges,
         ApplyChange, MarkCompleted, RecordSuccess, MarkFailed, RecordFailure,
         SetupFails, BodyFails, CatchFails, CancelSync, ApplyRequest, ApplyRequested, Restart
<1> QED
  BY <1>1, <1>2 DEF TypeOK

(* A sync that awaits review has got past its own clean-up, so that what a *)
(* clean-up finds is never the sync that looks, nor one yet to start.      *)
OldOfFacility ==
  \A s \in Sync :
    /\ log[s] = "pending_review" => sync[s].pc \notin Prelude
    /\ \A o \in sync[s].old : /\ o # s /\ ~At(o, "new")
                              /\ sync[o].facility = sync[s].facility

LEMMA OldOfFacilityStep == TypeOK /\ OldOfFacility /\ [Next]_vars => OldOfFacility'
<1> SUFFICES ASSUME TypeOK, OldOfFacility, [Next]_vars, NEW s \in Sync
             PROVE  /\ log'[s] = "pending_review" => sync'[s].pc \notin Prelude
                    /\ \A o \in sync'[s].old : /\ o # s /\ ~At(o, "new")'
                                               /\ sync'[o].facility = sync'[s].facility
  BY DEF OldOfFacility
<1>1. log'[s] = "pending_review" => sync'[s].pc \notin Prelude
  BY PendingStep, Forward DEF OldOfFacility, Prelude, Setup
<1>2. ASSUME NEW o \in sync'[s].old
      PROVE  o # s /\ ~At(o, "new")' /\ sync'[o].facility = sync'[s].facility
  <2>1. /\ o \in Sync /\ o # s /\ ~At(o, "new")
        /\ sync[o].facility = sync[s].facility
    <3>1. CASE o \in sync[s].old
      BY <3>1 DEF OldOfFacility, TypeOK, SyncState
    <3>2. CASE At(s, "find") /\ o \in Pending(sync[s].facility)
      BY <3>2 DEF OldOfFacility, Pending, At, Prelude, Setup
    <3> QED
      BY <1>2, <3>1, <3>2, OldStep
  <2> QED
    BY <1>2, <2>1, OldStep
<1> QED
  BY <1>1, <1>2

(* The clean-up of a sync spares the syncs of its facility that are still  *)
(* at work, unless there was a cancellation (performSync): what it deletes *)
(* is of its own facility, whose entry names only itself.                  *)
THEOREM DiscardCorrect == Spec => DiscardsOnlyEnded
<1> DEFINE Spares == \A c \in Change :
                       change[c].row # "deleted" /\ change'[c].row = "deleted"
                         => LET s == change[c].log
                            IN  ~Running(s) \/ sync[s].facility \in cancelled
<1>1. Init => OldOfFacility
  BY NewSyncShape DEF Init, OldOfFacility
<1>2. TypeOK /\ OldOfFacility /\ Registered /\ [Next]_vars => [Spares]_vars
  <2> SUFFICES ASSUME TypeOK, OldOfFacility, Registered, [Next]_vars,
                      NEW c \in Change, change[c].row # "deleted", change'[c].row = "deleted",
                      Running(change[c].log)
               PROVE  sync[change[c].log].facility \in cancelled
    OBVIOUS
  <2>1. PICK t \in Sync : DiscardChanges(t)
    <3>1. ASSUME NEW d, Applied(d) PROVE change'[c].row # "deleted"
      BY <3>1 DEF Applied, TypeOK, ChangeState
    <3>2. ASSUME NEW t \in Sync, NEW d \in Change, StoreChange(t, d)
          PROVE  change'[c].row # "deleted"
      BY <3>2 DEF StoreChange, TypeOK, ChangeState
    <3>3. \/ change' = change
          \/ \E d : Applied(d)
          \/ \E t \in Sync : DiscardChanges(t) \/ \E d \in Change : StoreChange(t, d)
      BY DEF Next, vars, PerformSync, SyncStep, FindPending, Supersede,
             CreateLog, Connect, Fetch, Detected, Publish, LoadChanges, ApplyChange,
             MarkCompleted, RecordSuccess, MarkFailed, RecordFailure,
             SetupFails, BodyFails, CatchFails, CancelSync, ApplyRequest, ApplyRequested, Restart
    <3> QED
      BY <3>1, <3>2, <3>3
  <2>2. change[c].log \in sync[t].old
    BY <2>1 DEF DiscardChanges, TypeOK, ChangeState
  <2>3. Running(t) /\ change[c].log \in Sync
    BY <2>1, <2>2 DEF DiscardChanges, At, Running, Setup, TypeOK, SyncState
  <2> QED
    BY <2>2, <2>3 DEF OldOfFacility, Registered
<1> QED
  BY <1>1, <1>2, OldOfFacilityStep, RegisteredAlways, SyncTypeCorrect, PTL
     DEF Spec, DiscardsOnlyEnded

-----------------------------------------------------------------------------
(* Syncs come to an end.                                                    *)

(* A loop that is not over has logs, or changes, left.                      *)
Fed(s) ==
  /\ s.pc = "discard" => s.old # {} /\ s.cur = {}
  /\ s.pc = "supersede" => s.cur # {} /\ s.cur \subseteq s.old
  /\ s.pc = "apply" => s.todo # {}

LoopsFed == \A s \in Sync : Fed(sync[s])

Ahead(r, s) ==
  \/ Stage(r) > Stage(s)
  \/ Stage(r) = Stage(s) /\ LessLeft(r, s)

Loops == {"discard", "supersede", "apply"}

LEMMA GotoAhead ==
  ASSUME TypeOK, NEW s \in Sync, NEW p, p \notin Loops, Goto(s, p),
         \A r \in {[sync[s] EXCEPT !.pc = p]} : Stage(r) > Stage(sync[s])
  PROVE  \E r : Become(s, r) /\ Fed(r) /\ Ahead(r, sync[s])
<1> DEFINE r == [sync[s] EXCEPT !.pc = p]
<1>1. r.pc = p
  BY DEF TypeOK, SyncState
<1>2. Become(s, r)
  BY DEF Goto, Become, TypeOK
<1>3. Stage(r) > Stage(sync[s])
  OBVIOUS
<1> HIDE DEF r
<1> QED
  BY <1>1, <1>2, <1>3 DEF Fed, Ahead, Loops

LEMMA EndAhead ==
  ASSUME TypeOK, NEW s \in Sync, Running(s), NEW p \in {"ended", "setupFailed"}, End(s, p)
  PROVE  \E r : Become(s, r) /\ Fed(r) /\ Ahead(r, sync[s])
<1>1. Become(s, Over(s, p)) /\ Over(s, p).pc = p
  BY OverType DEF End
<1>2. Stage(Over(s, p)) > Stage(sync[s])
  BY <1>1 DEF Stage, Running, Setup, Body, Failing
<1> QED
  BY <1>1, <1>2 DEF Fed, Ahead

LEMMA SyncStepAhead ==
  ASSUME TypeOK, LoopsFed, NEW s \in Sync, SyncStep(s)
  PROVE  sync' = sync \/ \E r : Become(s, r) /\ Fed(r) /\ Ahead(r, sync[s])
<1> DEFINE a == sync[s]
<1>0. a \in SyncState /\ Fed(a)
  BY DEF TypeOK, LoopsFed
<1>1. ASSUME NEW p, p \notin Loops, Goto(s, p),
             \A r \in {[sync[s] EXCEPT !.pc = p]} : r.pc = p => Stage(r) > Stage(a)
      PROVE  \E r : Become(s, r) /\ Fed(r) /\ Ahead(r, a)
  <2>1. [sync[s] EXCEPT !.pc = p].pc = p
    BY <1>0 DEF SyncState
  <2> QED
    BY <1>1, <2>1, GotoAhead
<1>2. ASSUME NEW old \in SUBSET Sync, NextOld(s, old),
             \/ a.pc = "find"
             \/ a.pc = "supersede" /\ old = a.old \ a.cur
      PROVE  \E r : Become(s, r) /\ Fed(r) /\ Ahead(r, a)
  <2> DEFINE r == [a EXCEPT !.pc = IF old = {} THEN "create" ELSE "discard",
                            !.old = old, !.cur = {}]
  <2>1. Become(s, r)
    BY <1>2 DEF NextOld
  <2>2. /\ r.pc = IF old = {} THEN "create" ELSE "discard"
        /\ r.old = old /\ r.cur = {} /\ r.todo = a.todo
    BY <1>0 DEF SyncState
  <2> HIDE DEF r
  <2>3. Fed(r)
    BY <2>2 DEF Fed
  <2>4. Ahead(r, a)
    <3>1. CASE old = {} \/ a.pc = "find"
      BY <1>2, <2>2, <3>1 DEF Ahead, Stage
    <3>2. CASE old # {} /\ a.pc = "supersede"
      <4>1. a.cur # {} /\ a.cur \subseteq a.old /\ old = a.old \ a.cur
        BY <1>0, <1>2, <3>2 DEF Fed
      <4>2. LessLeft(r, a)
        BY <2>2, <4>1 DEF LessLeft
      <4>3. Stage(r) = Stage(a)
        BY <2>2, <3>2 DEF Stage
      <4> QED
        BY <4>2, <4>3 DEF Ahead
    <3> QED
      BY <1>2, <3>1, <3>2
  <2> QED
    BY <2>1, <2>3, <2>4
<1>5. CASE FindPending(s)
  BY <1>2, <1>5 DEF FindPending, Pending, At
<1>6. CASE DiscardChanges(s)
  <2> DEFINE r(o) == [a EXCEPT !.pc = "supersede", !.cur = {o}]
  <2>1. PICK o \in a.old : a.pc = "discard" /\ Become(s, r(o))
    BY <1>6 DEF DiscardChanges, At
  <2>2. /\ r(o).pc = "supersede" /\ r(o).old = a.old /\ r(o).cur = {o} /\ a.cur = {}
        /\ r(o).todo = a.todo
    BY <1>0, <2>1 DEF SyncState, Fed
  <2> HIDE DEF r
  <2>3. LessLeft(r(o), a)
    BY <2>1, <2>2 DEF LessLeft
  <2>4. Stage(r(o)) = Stage(a) /\ Fed(r(o))
    BY <2>1, <2>2 DEF Stage, Fed
  <2> QED
    BY <2>1, <2>3, <2>4 DEF Ahead
<1>7. CASE Supersede(s)
  <2>1. a.old \ a.cur \in SUBSET Sync
    BY <1>0 DEF SyncState
  <2> QED
    BY <1>2, <1>7, <2>1 DEF Supersede, At
<1>8. CASE CreateLog(s)
  BY <1>1, <1>8 DEF CreateLog, CheckCancelled, At, Loops, Stage
<1>9. CASE Connect(s)
  BY <1>1, <1>9 DEF Connect, CheckCancelled, At, Loops, Stage
<1>10. CASE Fetch(s)
  <2>1. PICK p \in {"detect", "fail"} : a.pc = "fetch" /\ Goto(s, p)
    BY <1>10 DEF Fetch, At
  <2> QED
    BY <1>1, <2>1 DEF Loops, Stage
<1>11. CASE \E c \in Change : StoreChange(s, c)
  BY <1>11 DEF StoreChange
<1>12. CASE Detected(s)
  BY <1>1, <1>12 DEF Detected, At, Loops, Stage
<1>13. CASE Publish(s)
  <2>1. PICK p \in {"load", "complete"} : a.pc = "publish" /\ Goto(s, p)
    BY <1>13 DEF Publish, At
  <2> QED
    BY <1>1, <2>1 DEF Loops, Stage
<1>14. CASE LoadChanges(s)
  <2> DEFINE cs == {c \in Found(s) : Exists(c)}
             r == [a EXCEPT !.pc = IF cs = {} THEN "complete" ELSE "apply", !.todo = cs]
  <2>1. a.pc = "load" /\ Become(s, r)
    BY <1>14 DEF LoadChanges, At
  <2>2. r.pc = (IF cs = {} THEN "complete" ELSE "apply") /\ r.todo = cs
    BY <1>0 DEF SyncState
  <2> HIDE DEF r, cs
  <2>3. Stage(r) > Stage(a) /\ Fed(r)
    BY <2>1, <2>2 DEF Stage, Fed
  <2> QED
    BY <2>1, <2>3 DEF Ahead
<1>15. CASE ApplyChange(s)
  <2> DEFINE r(c) == [a EXCEPT !.todo = @ \ {c},
                               !.pc = IF a.todo = {c} THEN "complete" ELSE "apply"]
  <2>1. PICK c \in a.todo : a.pc = "apply" /\ Become(s, r(c))
    BY <1>15 DEF ApplyChange, At
  <2>2. /\ r(c).pc = IF a.todo = {c} THEN "complete" ELSE "apply"
        /\ r(c).old = a.old /\ r(c).cur = a.cur /\ r(c).todo = a.todo \ {c}
    BY <1>0 DEF SyncState
  <2> HIDE DEF r
  <2>3. LessLeft(r(c), a)
    BY <2>1, <2>2 DEF LessLeft
  <2>4. Fed(r(c)) /\ (Stage(r(c)) = Stage(a) \/ Stage(r(c)) > Stage(a))
    BY <2>1, <2>2 DEF Stage, Fed
  <2> QED
    BY <2>1, <2>3, <2>4 DEF Ahead
<1>16. CASE MarkCompleted(s)
  BY <1>1, <1>16 DEF MarkCompleted, At, Loops, Stage
<1>17. CASE RecordSuccess(s)
  BY <1>17, EndAhead DEF RecordSuccess, Finally, At, Running, Body
<1>18. CASE MarkFailed(s)
  BY <1>1, <1>18 DEF MarkFailed, At, Loops, Stage
<1>19. CASE RecordFailure(s)
  BY <1>19, EndAhead DEF RecordFailure, Finally, At, Running, Failing
<1> QED
  BY <1>5, <1>6, <1>7, <1>8, <1>9, <1>10, <1>11, <1>12, <1>13, <1>14, <1>15,
     <1>16, <1>17, <1>18, <1>19 DEF SyncStep

(* What a step does not look at: the loop variables and the place.          *)
Same(r, s) == r.pc = s.pc /\ r.old = s.old /\ r.cur = s.cur /\ r.todo = s.todo

LEMMA AheadStep ==
  ASSUME TypeOK, LoopsFed, [Next]_vars, NEW s \in Sync
  PROVE  Fed(sync'[s]) /\ (Ahead(sync'[s], sync[s]) \/ Same(sync'[s], sync[s]))
<1> DEFINE Goal == Fed(sync'[s]) /\ (Ahead(sync'[s], sync[s]) \/ Same(sync'[s], sync[s]))
<1> SUFFICES Goal
  OBVIOUS
<1>1. ASSUME sync'[s] = sync[s] PROVE Goal
  BY <1>1 DEF LoopsFed, Same
<1>2. ASSUME NEW t \in Sync, NEW r, Become(t, r),
             t = s => Fed(r) /\ (Ahead(r, sync[s]) \/ Same(r, sync[s]))
      PROVE  Goal
  <2>1. sync'[s] = IF s = t THEN r ELSE sync[s]
    BY <1>2 DEF Become, TypeOK
  <2> QED
    BY <1>1, <1>2, <2>1
<1> HIDE DEF Goal
<1>3. ASSUME NEW t \in Sync, NEW f \in Facility, NEW auto \in BOOLEAN, PerformSync(t, f, auto)
      PROVE  Goal
  <2> DEFINE r == [NewSync EXCEPT !.pc = "find", !.facility = f, !.auto = auto]
  <2>1. r.pc = "find" /\ At(t, "new") /\ Become(t, r)
    BY <1>3 DEF PerformSync, NewSync
  <2> HIDE DEF r
  <2>2. Fed(r) /\ Stage(r) > Stage(sync[t])
    BY <2>1 DEF Fed, Stage, At
  <2> QED
    BY <1>2, <2>1, <2>2 DEF Ahead
<1>4. ASSUME NEW t \in Sync, \E r : Become(t, r) /\ Fed(r) /\ Ahead(r, sync[t]) PROVE Goal
  BY <1>2, <1>4
<1>5. ASSUME NEW t \in Sync, SyncStep(t) PROVE Goal
  BY <1>1, <1>4, <1>5, SyncStepAhead
<1>6. ASSUME NEW t \in Sync, SetupFails(t) \/ CatchFails(t) PROVE Goal
  <2>1. Running(t) /\ (End(t, "setupFailed") \/ End(t, "ended"))
    BY <1>6 DEF SetupFails, CatchFails, Finally, Running
  <2> QED
    BY <1>4, <2>1, EndAhead
<1>7. ASSUME NEW t \in Sync, BodyFails(t) PROVE Goal
  <2>1. [sync[t] EXCEPT !.pc = "fail"].pc = "fail"
    BY DEF TypeOK, SyncState
  <2>2. Goto(t, "fail") /\ Stage([sync[t] EXCEPT !.pc = "fail"]) > Stage(sync[t])
    BY <1>7, <2>1 DEF BodyFails, Stage
  <2> QED
    BY <1>4, <2>2, GotoAhead DEF Loops
<1>8. ASSUME NEW f \in Facility, CancelSync(f) PROVE Goal
  <2>1. PICK t \in Sync : \E e : sync' = [sync EXCEPT ![t].aborted = TRUE, ![t].early = e]
    BY <1>8 DEF CancelSync
  <2>2. \E r : Become(t, r) /\ Same(r, sync[t])
    <3>1. PICK e : sync' = [sync EXCEPT ![t].aborted = TRUE, ![t].early = e]
      BY <2>1
    <3>2. sync[t] \in SyncState /\ sync \in [Sync -> SyncState]
      BY DEF TypeOK
    <3> DEFINE r == [sync[t] EXCEPT !.aborted = TRUE, !.early = e]
    <3>3. Become(t, r)
      BY <3>1, <3>2 DEF Become, SyncState
    <3>4. Same(r, sync[t])
      BY <3>2 DEF Same, SyncState
    <3> HIDE DEF r
    <3> QED
      BY <3>3, <3>4
  <2>3. PICK r : Become(t, r) /\ Same(r, sync[t])
    BY <2>2
  <2>4. Fed(r)
    BY <2>3 DEF Same, Fed, LoopsFed
  <2> QED
    BY <1>2, <2>3, <2>4
<1>9. ASSUME NEW q \in Request,
             (\E cs \in SUBSET Change : ApplyRequest(q, cs)) \/ ApplyRequested(q)
      PROVE  Goal
  BY <1>1, <1>9 DEF ApplyRequest, ApplyRequested
<1>10. CASE Restart
  <2>1. CASE Running(s)
    <3>1. sync'[s] = Over(s, "ended") /\ Over(s, "ended").pc = "ended"
      BY <1>10, <2>1, OverType DEF Restart
    <3>2. Stage(Over(s, "ended")) > Stage(sync[s])
      BY <2>1, <3>1 DEF Stage, Running, Setup, Body, Failing
    <3> QED
      BY <3>1, <3>2 DEF Goal, Fed, Ahead
  <2>2. CASE ~Running(s)
    BY <1>1, <1>10, <2>2 DEF Restart
  <2> QED
    BY <2>1, <2>2
<1>11. CASE UNCHANGED vars
  BY <1>1, <1>11 DEF vars
<1> QED
  BY <1>3, <1>5, <1>6, <1>7, <1>8, <1>9, <1>10, <1>11 DEF Next

(* Each step of a sync leaves it with less to do, whatever fails, restarts *)
(* or is cancelled and whoever applies or discards the same changes: what  *)
(* is left of the release of a facility is that syncs are resumed.         *)
THEOREM SyncsComeToAnEnd == Spec => SyncsAdvance
<1> DEFINE Advance == \A s \in Sync : Ahead(sync'[s], sync[s]) \/ Same(sync'[s], sync[s])
<1>1. Init => LoopsFed
  BY NewSyncShape DEF Init, LoopsFed, Fed
<1>2. TypeOK /\ LoopsFed /\ [Next]_vars => LoopsFed' /\ [Advance]_vars
  BY AheadStep DEF LoopsFed
<1>3. Advance =>
        \A s \in Sync :
          \/ Stage(sync'[s]) > Stage(sync[s])
          \/ Stage(sync'[s]) = Stage(sync[s]) /\ LessLeft(sync'[s], sync[s])
          \/ UNCHANGED <<sync[s].pc, sync[s].old, sync[s].cur, sync[s].todo>>
  BY DEF Ahead, Same
<1>4. [Advance]_vars =>
        [\A s \in Sync :
          \/ Stage(sync'[s]) > Stage(sync[s])
          \/ Stage(sync'[s]) = Stage(sync[s]) /\ LessLeft(sync'[s], sync[s])
          \/ UNCHANGED <<sync[s].pc, sync[s].old, sync[s].cur, sync[s].todo>>]_vars
  BY <1>3
<1> HIDE DEF Advance
<1> QED
  BY <1>1, <1>2, <1>4, SyncTypeCorrect, PTL DEF Spec, SyncsAdvance
=============================================================================
