----------------------- MODULE AccessRevocation_proofs -----------------------
(***************************************************************************)
(* What holds of AccessRevocation for every number of users, units, locks, *)
(* facilities and handlers, and under every choice of Faults.              *)
(***************************************************************************)
EXTENDS AccessRevocation, TLAPS

USE RevocationAssumption

(* The record of no handler is a legal one.                                *)
LEMMA IdleType == Idle \in JobState
<1>1. (CHOOSE u \in User : TRUE) \in User
  OBVIOUS
<1>2. (CHOOSE u \in Unit : TRUE) \in Unit
  OBVIOUS
<1>3. 0 \in Time
  BY DEF Time
<1> QED
  BY <1>1, <1>2, <1>3 DEF Idle, JobState

(* A decision taken while the clock runs expires within Time.              *)
LEMMA ExpiryType ==
  ASSUME now \in 0 .. MaxTime
  PROVE  /\ ExpirationDate \in Time
         /\ now + TTL \in Time
         /\ 0 \in Time
  BY DEF ExpirationDate, Time

(* Replacing the record of one handler by a legal one keeps "jobs" typed.  *)
LEMMA BecomeType ==
  ASSUME jobs \in [Job -> JobState], NEW j \in Job, NEW s \in JobState, Become(j, s)
  PROVE  jobs' \in [Job -> JobState]
  BY DEF Become

LEMMA FinishType ==
  ASSUME jobs \in [Job -> JobState], NEW j \in Job, Finish(j)
  PROVE  jobs' \in [Job -> JobState]
  BY IdleType DEF Finish

LEMMA StartingType ==
  ASSUME jobs \in [Job -> JobState], NEW j \in Job,
         NEW t \in User, NEW u \in Unit,
         NEW k \in {"assigned", "pass"} \cup Revoking,
         NEW p \in {"devices", "find", "audience"},
         Starting(j, k, p, t, u)
  PROVE  jobs' \in [Job -> JobState]
<1>1. [Idle EXCEPT !.kind = k, !.pc = p, !.user = t, !.unit = u] \in JobState
  BY IdleType DEF JobState, Revoking
<1> QED
  BY <1>1 DEF Starting

(* Replacing one entry of the table of rows, or the denials of one user at  *)
(* some locks, keeps the tables typed.                                      *)
LEMMA RowType ==
  ASSUME row \in [Device -> [User -> Row]], NEW d \in Device, NEW t \in User,
         NEW r \in Row, row' = [row EXCEPT ![d][t] = r]
  PROVE  row' \in [Device -> [User -> Row]]
<1>1. [row[d] EXCEPT ![t] = r] \in [User -> Row]
  OBVIOUS
<1>2. row' = [row EXCEPT ![d] = [row[d] EXCEPT ![t] = r]]
  OBVIOUS
<1> QED
  BY <1>1, <1>2

(* The row a handler inserts, and the row it has read back.                 *)
LEMMA NewRowType ==
  ASSUME NEW j \in Job, jobs[j] \in JobState
  PROVE  NewRow(j) \in Row /\ NewRow(j).exp = jobs[j].exp
  BY DEF NewRow, JobState, Row, SourceOf, Source

LEMMA ReadBackType ==
  ASSUME NEW r \in Row
  PROVE  LET q == [r EXCEPT !.by = {}]
         IN  q \in Row /\ q.exp = r.exp /\ q.source = r.source /\ q.by = {}
  BY DEF Row

LEMMA UnicastType ==
  ASSUME lockDeny \in [Device -> [User -> Time]], NEW f, NEW ds, NEW t \in User,
         NEW x \in Time, Unicast(f, ds, t, x)
  PROVE  lockDeny' \in [Device -> [User -> Time]]
<1>1. ASSUME NEW d \in Device PROVE [lockDeny[d] EXCEPT ![t] = x] \in [User -> Time]
  OBVIOUS
<1> QED
  BY <1>1 DEF Unicast

-----------------------------------------------------------------------------
(* Every variable keeps its type, under every schedule and every fault.    *)
THEOREM TypeCorrect == Spec => []TypeOK
<1>1. Init => TypeOK
  <2> SUFFICES ASSUME Init PROVE TypeOK
    OBVIOUS
  <2>1. 0 \in Time /\ 0 \in 0 .. MaxTime
    BY DEF Time
  <2>2. NoRow \in Row
    BY <2>1 DEF NoRow, Row
  <2> QED
    BY <2>1, <2>2, IdleType DEF Init, TypeOK
<1>2. TypeOK /\ [Next]_vars => TypeOK'
  <2> SUFFICES ASSUME TypeOK, [Next]_vars PROVE TypeOK'
    OBVIOUS
  <2> USE DEF TypeOK
  <2>0. /\ ExpirationDate \in Time /\ now + TTL \in Time /\ 0 \in Time
        /\ NoRow \in Row
    BY ExpiryType DEF NoRow, Row
  <2>1. CASE Operation
    <3>1. PICK j \in Job, t \in User :
             \/ \E u \in Unit : \/ AssignTenant(u, t, j)
                                \/ UnassignTenant(u, t, j)
                                \/ RevokeSharing(u, t, j)
             \/ DeactivateUser(t, j)
             \/ RequestPass(t, j)
      BY <2>1 DEF Operation
    <3>2. ASSUME NEW ds \in SUBSET Device PROVE Held(t, ds) \subseteq Access
      BY DEF Held, Access, Pass
    <3>3. ASSUME NEW u \in Unit, AssignTenant(u, t, j) PROVE TypeOK'
      BY <3>3, StartingType DEF AssignTenant
    <3>4. ASSUME NEW u \in Unit, UnassignTenant(u, t, j) PROVE TypeOK'
      BY <3>2, <3>4, StartingType DEF UnassignTenant, Revoking, DevicesOf
    <3>5. ASSUME NEW u \in Unit, RevokeSharing(u, t, j) PROVE TypeOK'
      BY <3>5, StartingType DEF RevokeSharing, Revoking
    <3>6. Idle.unit \in Unit
      BY IdleType DEF JobState
    <3>7. CASE DeactivateUser(t, j)
      BY <3>2, <3>6, <3>7, StartingType DEF DeactivateUser, Revoking, AssignedDevices
    <3>8. CASE RequestPass(t, j)
      BY <3>6, <3>8, StartingType DEF RequestPass
    <3> QED
      BY <3>1, <3>3, <3>4, <3>5, <3>7, <3>8
  <2>2. CASE Account
    BY <2>2 DEF Account, SetActive, Login, SessionExpires
  <2>3. CASE \E j \in Job : JobStep(j)
    <3>1. PICK j \in Job : JobStep(j)
      BY <2>3
    <3>2. jobs[j] \in JobState /\ jobs[j].user \in User
      BY DEF JobState
    <3>3. CASE ReadDevices(j)
      <4> DEFINE s == jobs[j]
                 ds == IF s.kind = "deactivated" THEN AssignedDevices(s.user)
                                                 ELSE DevicesOf(s.unit)
      <4>1. ds \in SUBSET Device
        BY DEF AssignedDevices, DevicesOf
      <4>2. [s EXCEPT !.pc = "check", !.targets = ds, !.todo = ds,
                      !.exp = ExpirationDate] \in JobState
        BY <2>0, <3>2, <4>1 DEF JobState
      <4> QED
        BY <3>3, <4>2, BecomeType, FinishType DEF ReadDevices
    <3>4. CASE CheckPass(j)
      <4> DEFINE s == jobs[j]
      <4>1. ASSUME NEW b \in BOOLEAN
            PROVE  [s EXCEPT !.pc = "clear", !.skip = b,
                             !.exp = IF s.kind = "share_revoked"
                                       THEN s.exp ELSE ExpirationDate] \in JobState
        BY <2>0, <3>2 DEF JobState
      <4> QED
        BY <3>4, <4>1, BecomeType DEF CheckPass
    <3>5. CASE ClearRow(j)
      <4> DEFINE s == jobs[j]
      <4>1. PICK d \in s.todo :
              /\ row' = [row EXCEPT ![d][s.user] = NoRow]
              /\ Become(j, [s EXCEPT !.pc = "insert", !.cur = {d}, !.todo = @ \ {d}])
        BY <3>5 DEF ClearRow
      <4>2. /\ d \in Device
            /\ [s EXCEPT !.pc = "insert", !.cur = {d}, !.todo = @ \ {d}] \in JobState
        BY <3>2 DEF JobState
      <4>3. jobs' \in [Job -> JobState]
        BY <4>1, <4>2, BecomeType
      <4>4. row' \in [Device -> [User -> Row]]
        BY <2>0, <3>2, <4>1, <4>2
      <4> QED
        BY <3>5, <4>3, <4>4 DEF ClearRow
    <3>6. CASE InsertRow(j)
      <4> DEFINE s == jobs[j]
                 q == [s EXCEPT !.pc = "reread"]
      <4>1. q \in JobState
        BY <3>2 DEF JobState
      <4> HIDE DEF q
      <4>3. PICK d \in s.cur :
              IF row[d][s.user] # NoRow
                THEN Finish(j) /\ row' = row
                ELSE /\ row' = [row EXCEPT ![d][s.user] = NewRow(j)]
                     /\ Become(j, q)
        BY <3>6 DEF InsertRow, q
      <4>4. d \in Device /\ NewRow(j) \in Row
        BY <3>2, NewRowType DEF JobState
      <4>5. jobs' \in [Job -> JobState]
        BY <4>1, <4>3, BecomeType, FinishType
      <4>6. row' \in [Device -> [User -> Row]]
        <5>1. CASE row' = row
          BY <5>1
        <5>2. CASE row' = [row EXCEPT ![d][s.user] = NewRow(j)]
          BY <3>2, <4>4, <5>2, RowType
        <5> QED
          BY <4>3, <5>1, <5>2
      <4> QED
        BY <3>6, <4>5, <4>6 DEF InsertRow
    <3>6b. CASE ReadBack(j)
      <4> DEFINE s == jobs[j]
      <4>1. AfterInsert(s) \in JobState
        BY <3>2, IdleType DEF JobState, AfterInsert
      <4>3. PICK d \in s.cur :
              IF row[d][s.user].by = {j}
                THEN /\ row' = [row EXCEPT ![d][s.user] = [@ EXCEPT !.by = {}]]
                     /\ Become(j, AfterInsert(s))
                ELSE Finish(j) /\ row' = row
        BY <3>6b DEF ReadBack
      <4> DEFINE r == [row[d][s.user] EXCEPT !.by = {}]
      <4>4. d \in Device /\ r \in Row
        BY <3>2, ReadBackType DEF JobState
      <4>5. jobs' \in [Job -> JobState]
        BY <4>1, <4>3, BecomeType, FinishType
      <4>6. row' \in [Device -> [User -> Row]]
        <5>1. CASE row' = row
          BY <5>1
        <5>2. CASE row' = [row EXCEPT ![d][s.user] = r]
          BY <3>2, <4>4, <5>2, RowType
        <5> QED
          BY <4>3, <5>1, <5>2
      <4> QED
        BY <3>6b, <4>5, <4>6 DEF ReadBack
    <3>7. CASE SendAdd(j)
      <4> DEFINE s == jobs[j]
      <4> DEFINE to(f) == {d \in s.todo : FacilityOfDevice(d) = f}
                 x == IF s.exp > now THEN s.exp ELSE 0
      <4>1. PICK f : /\ Unicast(f, to(f), s.user, x)
                     /\ \/ Finish(j)
                        \/ Become(j, [s EXCEPT !.todo = s.todo \ to(f)])
        BY <3>7 DEF SendAdd
      <4>2. [s EXCEPT !.todo = s.todo \ to(f)] \in JobState
        BY <3>2 DEF JobState
      <4>3. jobs' \in [Job -> JobState]
        BY <4>1, <4>2, BecomeType, FinishType
      <4>4. x \in Time
        BY <2>0, <3>2 DEF JobState
      <4>5. lockDeny' \in [Device -> [User -> Time]]
        BY <3>2, <4>1, <4>4, UnicastType
      <4> QED
        BY <3>7, <4>3, <4>5 DEF SendAdd
    <3>8. CASE FindRows(j)
      <4> DEFINE s == jobs[j]
                 ds == LiveRows(s.unit, s.user)
      <4>1. ds \in SUBSET Device
        BY DEF LiveRows, DevicesOf
      <4>2. ASSUME NEW d \in ds
            PROVE  [s EXCEPT !.pc = "filter", !.targets = ds, !.todo = ds,
                             !.exp = row[d][s.user].exp] \in JobState
        <5>1. row[d][s.user].exp \in Time
          BY <3>2, <4>1 DEF Row
        <5> QED
          BY <3>2, <4>1, <5>1 DEF JobState
      <4> QED
        BY <3>8, <4>2, BecomeType, FinishType DEF FindRows
    <3>9. CASE FilterRows(j)
      <4>1. RowExpired(jobs[j].exp) \in BOOLEAN
        BY DEF RowExpired
      <4>2. [jobs[j] EXCEPT !.pc = "remove", !.skip = RowExpired(jobs[j].exp)] \in JobState
        BY <3>2, <4>1 DEF JobState
      <4> QED
        BY <3>9, <4>2, BecomeType DEF FilterRows
    <3>10. CASE RemoveRow(j)
      <4> DEFINE s == jobs[j]
      <4>1. PICK d \in s.todo :
              /\ row' = [row EXCEPT ![d][s.user] = NoRow]
              /\ IF s.todo = {d}
                   THEN IF s.skip THEN Finish(j)
                        ELSE Become(j, [s EXCEPT !.pc = "sendRemove", !.todo = {}])
                   ELSE Become(j, [s EXCEPT !.todo = @ \ {d}])
        BY <3>10 DEF RemoveRow
      <4>2. /\ d \in Device
            /\ [s EXCEPT !.pc = "sendRemove", !.todo = {}] \in JobState
            /\ [s EXCEPT !.todo = @ \ {d}] \in JobState
        BY <3>2 DEF JobState
      <4>3. jobs' \in [Job -> JobState]
        BY <4>1, <4>2, BecomeType, FinishType
      <4>4. row' \in [Device -> [User -> Row]]
        BY <2>0, <3>2, <4>1, <4>2
      <4> QED
        BY <3>10, <4>3, <4>4 DEF RemoveRow
    <3>11. CASE SendRemove(j)
      <4>1. lockDeny' \in [Device -> [User -> Time]]
        BY <2>0, <3>2, <3>11 DEF SendRemove, Unicast
      <4> QED
        BY <3>11, <4>1, FinishType DEF SendRemove
    <3>12. CASE ResolveAudiences(j)
      <4>1. [jobs[j] EXCEPT !.pc = "sign",
                            !.targets = AssignedDevices(jobs[j].user)] \in JobState
        BY <3>2 DEF JobState, AssignedDevices
      <4> QED
        BY <3>12, <4>1, BecomeType DEF ResolveAudiences
    <3>13. CASE SignPass(j)
      <4>1. [jobs[j] EXCEPT !.pc = "log", !.exp = now + TTL] \in JobState
        BY <2>0, <3>2 DEF JobState
      <4> QED
        BY <3>13, <4>1, BecomeType DEF SignPass
    <3>14. CASE LogAndRespond(j)
      <4> DEFINE s == jobs[j]
      <4>1. s.exp \in Time /\ s.targets \subseteq Device
        BY <3>2 DEF JobState
      <4>2. lastExp' \in [User -> Time]
        BY <3>2, <3>14, <4>1 DEF LogAndRespond, LogIssuance
      <4>3. passes' \subseteq Pass
        BY <3>2, <3>14, <4>1 DEF LogAndRespond, Pass
      <4> QED
        BY <3>14, <4>2, <4>3, FinishType DEF LogAndRespond
    <3> QED
      BY <3>1, <3>3, <3>4, <3>5, <3>6, <3>6b, <3>7, <3>8, <3>9, <3>10, <3>11, <3>12,
         <3>13, <3>14 DEF JobStep
  <2>4. CASE Environment
    <3>1. CASE Tick
      <4>1. now' \in 0 .. MaxTime
        BY <3>1 DEF Tick
      <4>2. lockDeny' \in [Device -> [User -> Time]]
        BY <2>0, <3>1 DEF Tick
      <4> QED
        BY <3>1, <4>1, <4>2 DEF Tick
    <3>2. CASE Prune
      BY <2>0, <3>2 DEF Prune
    <3>3. CASE Restart
      BY <3>3, IdleType DEF Restart
    <3>4. CASE \E j \in Job : JobFails(j)
      BY <3>4, FinishType DEF JobFails
    <3>5. CASE \E f \in Facility : GatewayConnects(f) \/ GatewayCloses(f)
      BY <3>5 DEF GatewayConnects, GatewayCloses
    <3> QED
      BY <2>4, <3>1, <3>2, <3>3, <3>4, <3>5 DEF Environment
  <2>5. CASE UNCHANGED vars
    BY <2>5 DEF vars
  <2> QED
    BY <2>1, <2>2, <2>3, <2>4, <2>5 DEF Next
<1> QED
  BY <1>1, <1>2, PTL DEF Spec

-----------------------------------------------------------------------------
(* No denial outlives a pass signed now.  The bound has to be carried from  *)
(* the decision (a handler's record) to the row, where an assignment may    *)
(* pick it up again, and to the lock.                                       *)
ExpiryBounded ==
  /\ \A j \in Job : jobs[j].exp <= now + TTL
  /\ \A d \in Device, t \in User : row[d][t].exp <= now + TTL
  /\ LockoutBounded

(* The bound survives every step that leaves the handlers alone except for  *)
(* giving one of them a record within the bound.                            *)
LEMMA JobBound ==
  ASSUME TypeOK, ExpiryBounded, NEW j \in Job, NEW s,
         s.exp <= now + TTL, Become(j, s)
  PROVE  \A i \in Job : jobs'[i].exp <= now + TTL
  BY DEF TypeOK, ExpiryBounded, Become

LEMMA IdleBound ==
  ASSUME TypeOK, ExpiryBounded, NEW j \in Job, Finish(j)
  PROVE  \A i \in Job : jobs'[i].exp <= now + TTL
<1>1. Idle.exp <= now + TTL
  BY DEF Idle, TypeOK
<1>2. Become(j, Idle)
  BY DEF Finish, Become
<1> QED
  BY <1>1, <1>2, JobBound

LEMMA StartingBound ==
  ASSUME TypeOK, ExpiryBounded, NEW j \in Job, NEW k, NEW p, NEW t, NEW u,
         Starting(j, k, p, t, u)
  PROVE  \A i \in Job : jobs'[i].exp <= now + TTL
<1>1. [Idle EXCEPT !.kind = k, !.pc = p, !.user = t, !.unit = u].exp = 0
  BY DEF Idle
<1> QED
  BY <1>1 DEF Starting, TypeOK, ExpiryBounded

LEMMA RowBound ==
  ASSUME TypeOK, ExpiryBounded, NEW d \in Device, NEW t \in User, NEW r \in Row,
         r.exp <= now + TTL, row' = [row EXCEPT ![d][t] = r]
  PROVE  \A e \in Device, v \in User : row'[e][v].exp <= now + TTL
<1>1. ASSUME NEW e \in Device, NEW v \in User
      PROVE  row'[e][v] = IF e = d /\ v = t THEN r ELSE row[e][v]
  BY DEF TypeOK
<1> QED
  BY <1>1 DEF ExpiryBounded

LEMMA DenyBound ==
  ASSUME TypeOK, ExpiryBounded, NEW f, NEW ds, NEW t \in User, NEW x \in Time,
         x <= now + TTL, Unicast(f, ds, t, x)
  PROVE  \A e \in Device, v \in User : lockDeny'[e][v] <= now + TTL
<1>1. ASSUME NEW e \in Device, NEW v \in User
      PROVE  lockDeny'[e][v] \in {lockDeny[e][v], x}
  BY DEF TypeOK, Unicast
<1> QED
  BY <1>1 DEF ExpiryBounded, LockoutBounded

LEMMA ExpiriesBounded == Spec => []ExpiryBounded
<1>1. Init => ExpiryBounded
  BY DEF Init, ExpiryBounded, LockoutBounded, Idle, NoRow
<1>2. TypeOK /\ TypeOK' /\ ExpiryBounded /\ [Next]_vars => ExpiryBounded'
  <2> SUFFICES ASSUME TypeOK, TypeOK', ExpiryBounded, [Next]_vars
               PROVE  ExpiryBounded'
    OBVIOUS
  <2>0. /\ now \in Nat /\ TTL \in Nat
        /\ ExpirationDate = now + TTL
        /\ ExpirationDate \in Time /\ 0 \in Time
        /\ NoRow \in Row /\ NoRow.exp <= now + TTL
    BY ExpiryType DEF TypeOK, ExpirationDate, NoRow, Row
  <2>1. CASE Operation
    BY <2>1, StartingBound
    DEF Operation, AssignTenant, UnassignTenant, RevokeSharing, DeactivateUser,
        RequestPass, ExpiryBounded, LockoutBounded
  <2>2. CASE Account
    BY <2>2 DEF Account, SetActive, Login, SessionExpires, ExpiryBounded, LockoutBounded
  <2>3. CASE \E j \in Job : JobStep(j)
    <3>1. PICK j \in Job : JobStep(j)
      BY <2>3
    <3> DEFINE s == jobs[j]
    <3>2. s \in JobState /\ s.user \in User /\ s.exp \in Time /\ s.exp <= now + TTL
      BY DEF TypeOK, ExpiryBounded, JobState
    <3> SUFFICES /\ \A i \in Job : jobs'[i].exp <= now' + TTL
                 /\ \A d \in Device, t \in User : row'[d][t].exp <= now' + TTL
                 /\ \A d \in Device, t \in User : lockDeny'[d][t] <= now' + TTL
      BY DEF ExpiryBounded, LockoutBounded
    <3> USE DEF ExpiryBounded, LockoutBounded
    <3> HIDE DEF s
    <3>3. CASE ReadDevices(j)
      <4>1. \/ Finish(j)
            \/ \E r : r.exp = ExpirationDate /\ Become(j, r)
        <5> DEFINE ds == IF s.kind = "deactivated" THEN AssignedDevices(s.user)
                                                  ELSE DevicesOf(s.unit)
                   r == [s EXCEPT !.pc = "check", !.targets = ds, !.todo = ds,
                                  !.exp = ExpirationDate]
        <5>1. Finish(j) \/ Become(j, r)
          BY <3>3 DEF ReadDevices, s
        <5>2. r.exp = ExpirationDate
          BY <3>2 DEF JobState
        <5> QED
          BY <5>1, <5>2
      <4>2. \A i \in Job : jobs'[i].exp <= now + TTL
        BY <2>0, <4>1, IdleBound, JobBound
      <4> QED
        BY <3>3, <4>2 DEF ReadDevices
    <3>4. CASE CheckPass(j)
      <4>1. \E b \in BOOLEAN :
              Become(j, [s EXCEPT !.pc = "clear", !.skip = b,
                                  !.exp = IF s.kind = "share_revoked"
                                            THEN s.exp ELSE ExpirationDate])
        BY <3>4 DEF CheckPass, s
      <4>2. \A i \in Job : jobs'[i].exp <= now + TTL
        BY <2>0, <3>2, <4>1 DEF Become, TypeOK, JobState
      <4> QED
        BY <3>4, <4>2 DEF CheckPass
    <3>5. CASE ClearRow(j)
      <4>1. PICK d \in s.todo :
              /\ row' = [row EXCEPT ![d][s.user] = NoRow]
              /\ Become(j, [s EXCEPT !.pc = "insert", !.cur = {d}, !.todo = @ \ {d}])
        BY <3>5 DEF ClearRow, s
      <4>2. \A e \in Device, v \in User : row'[e][v].exp <= now + TTL
        BY <2>0, <3>2, <4>1, RowBound DEF JobState
      <4>3. \A i \in Job : jobs'[i].exp <= now + TTL
        BY <3>2, <4>1 DEF Become, TypeOK, JobState
      <4> QED
        BY <3>5, <4>2, <4>3 DEF ClearRow
    <3>6. CASE InsertRow(j)
      <4> DEFINE r == NewRow(j)
                 q == [s EXCEPT !.pc = "reread"]
      <4>1. r \in Row /\ r.exp <= now + TTL
        BY <3>2, NewRowType DEF s
      <4>4. q \in JobState /\ q.exp <= now + TTL
        BY <3>2 DEF JobState
      <4> HIDE DEF r, q
      <4>2. PICK d \in s.cur :
              \/ Finish(j) /\ row' = row
              \/ row' = [row EXCEPT ![d][s.user] = r] /\ Become(j, q)
        BY <3>6 DEF InsertRow, s, r, q
      <4>3. \A e \in Device, v \in User : row'[e][v].exp <= now + TTL
        BY <3>2, <4>1, <4>2, RowBound DEF JobState
      <4>5. \A i \in Job : jobs'[i].exp <= now + TTL
        BY <4>2, <4>4, JobBound, IdleBound
      <4> QED
        BY <3>6, <4>3, <4>5 DEF InsertRow
    <3>6b. CASE ReadBack(j)
      <4>2. PICK d \in s.cur :
              \/ Finish(j) /\ row' = row
              \/ /\ row' = [row EXCEPT ![d][s.user] = [@ EXCEPT !.by = {}]]
                 /\ Become(j, AfterInsert(s))
        BY <3>6b DEF ReadBack, s
      <4>3. \A e \in Device, v \in User : row'[e][v].exp <= now + TTL
        <5> DEFINE r == [row[d][s.user] EXCEPT !.by = {}]
        <5>1. CASE row' = row
          BY <2>0, <5>1
        <5>2. CASE row' = [row EXCEPT ![d][s.user] = r]
          <6>1. d \in Device /\ row[d][s.user] \in Row
            BY <3>2 DEF JobState, TypeOK
          <6>2. r \in Row /\ r.exp <= now + TTL
            BY <3>2, <6>1, ReadBackType
          <6> QED
            BY <3>2, <5>2, <6>1, <6>2, RowBound
        <5> QED
          BY <4>2, <5>1, <5>2
      <4>4. AfterInsert(s) \in JobState /\ AfterInsert(s).exp <= now + TTL
        <5>1. AfterInsert(s) \in {Idle, [s EXCEPT !.pc = "clear", !.cur = {}],
                 [s EXCEPT !.pc = "sendAdd", !.cur = {}, !.todo = s.targets]}
          BY DEF AfterInsert
        <5>2. Idle.exp <= now + TTL
          BY <2>0 DEF Idle
        <5> QED
          BY <3>2, <5>1, <5>2, IdleType DEF JobState
      <4>5. \A i \in Job : jobs'[i].exp <= now + TTL
        BY <4>2, <4>4, JobBound, IdleBound
      <4> QED
        BY <3>6b, <4>3, <4>5 DEF ReadBack
    <3>7. CASE SendAdd(j)
      <4> DEFINE to(f) == {d \in s.todo : FacilityOfDevice(d) = f}
                 x == IF s.exp > now THEN s.exp ELSE 0
      <4>1. PICK f : /\ Unicast(f, to(f), s.user, x)
                     /\ \/ Finish(j)
                        \/ Become(j, [s EXCEPT !.todo = s.todo \ to(f)])
        BY <3>7 DEF SendAdd, s
      <4>2. /\ [s EXCEPT !.todo = s.todo \ to(f)] \in JobState
            /\ [s EXCEPT !.todo = s.todo \ to(f)].exp <= now + TTL
        BY <3>2 DEF JobState
      <4>3. \A i \in Job : jobs'[i].exp <= now + TTL
        BY <4>1, <4>2, JobBound, IdleBound
      <4>4. x \in Time /\ x <= now + TTL
        BY <2>0, <3>2
      <4>5. \A e \in Device, v \in User : lockDeny'[e][v] <= now + TTL
        BY <3>2, <4>1, <4>4, DenyBound
      <4> QED
        BY <3>7, <4>3, <4>5 DEF SendAdd
    <3>8. CASE FindRows(j)
      <4>1. \/ Finish(j)
            \/ \E d \in Device : \E r : r.exp = row[d][s.user].exp /\ Become(j, r)
        <5> DEFINE ds == LiveRows(s.unit, s.user)
                   r(d) == [s EXCEPT !.pc = "filter", !.targets = ds, !.todo = ds,
                                     !.exp = row[d][s.user].exp]
        <5>1. Finish(j) \/ \E d \in ds : Become(j, r(d))
          BY <3>8 DEF FindRows, s
        <5>2. \A d \in ds : d \in Device /\ r(d).exp = row[d][s.user].exp
          BY <3>2 DEF JobState, LiveRows, DevicesOf
        <5> QED
          BY <5>1, <5>2
      <4>2. \A i \in Job : jobs'[i].exp <= now + TTL
        BY <3>2, <4>1, IdleBound, JobBound
      <4> QED
        BY <3>8, <4>2 DEF FindRows
    <3>9. CASE FilterRows(j)
      <4>1. \E b : Become(j, [s EXCEPT !.pc = "remove", !.skip = b])
        BY <3>9 DEF FilterRows, s
      <4>2. \A i \in Job : jobs'[i].exp <= now + TTL
        BY <3>2, <4>1 DEF Become, TypeOK, JobState
      <4> QED
        BY <3>9, <4>2 DEF FilterRows
    <3>10. CASE RemoveRow(j)
      <4>1. PICK d \in s.todo :
              /\ row' = [row EXCEPT ![d][s.user] = NoRow]
              /\ \/ Finish(j)
                 \/ \E r : r.exp = s.exp /\ Become(j, r)
        <5> DEFINE r1 == [s EXCEPT !.pc = "sendRemove", !.todo = {}]
                   r2(d) == [s EXCEPT !.todo = @ \ {d}]
        <5>1. PICK d \in s.todo :
                /\ row' = [row EXCEPT ![d][s.user] = NoRow]
                /\ Finish(j) \/ Become(j, r1) \/ Become(j, r2(d))
          BY <3>10 DEF RemoveRow, s
        <5>2. r1.exp = s.exp /\ r2(d).exp = s.exp
          BY <3>2 DEF JobState
        <5> QED
          BY <5>1, <5>2
      <4>2. \A e \in Device, v \in User : row'[e][v].exp <= now + TTL
        BY <2>0, <3>2, <4>1, RowBound DEF JobState
      <4>3. \A i \in Job : jobs'[i].exp <= now + TTL
        BY <3>2, <4>1, IdleBound, JobBound
      <4> QED
        BY <3>10, <4>2, <4>3 DEF RemoveRow
    <3>11. CASE SendRemove(j)
      <4>1. \A e \in Device, v \in User : lockDeny'[e][v] <= now + TTL
        BY <2>0, <3>2, <3>11, DenyBound DEF SendRemove, s
      <4>2. \A i \in Job : jobs'[i].exp <= now + TTL
        BY <3>11, IdleBound DEF SendRemove
      <4> QED
        BY <3>11, <4>1, <4>2 DEF SendRemove
    <3>12. CASE ResolveAudiences(j)
      BY <3>2, <3>12 DEF ResolveAudiences, Become, TypeOK, JobState
    <3>13. CASE SignPass(j)
      BY <2>0, <3>13 DEF SignPass, Become, TypeOK, JobState
    <3>14. CASE LogAndRespond(j)
      BY <3>14, IdleBound DEF LogAndRespond
    <3> QED
      BY <3>1, <3>3, <3>4, <3>5, <3>6, <3>6b, <3>7, <3>8, <3>9, <3>10, <3>11, <3>12,
         <3>13, <3>14 DEF JobStep
  <2>4. CASE Environment
    <3>1. CASE Tick
      <4>1. now' = now + 1
        BY <3>1 DEF Tick
      <4>2. \A d \in Device, t \in User : lockDeny'[d][t] \in {lockDeny[d][t], 0}
        BY <3>1 DEF Tick
      <4>3. /\ \A j \in Job : jobs[j].exp \in Int
            /\ \A d \in Device, t \in User : row[d][t].exp \in Int /\ lockDeny[d][t] \in Int
        BY DEF TypeOK, JobState, Row, Time
      <4> QED
        BY <2>0, <3>1, <4>1, <4>2, <4>3 DEF Tick, ExpiryBounded, LockoutBounded
    <3>2. CASE Prune
      <4>1. \A d \in Device, t \in User : row'[d][t] \in {row[d][t], NoRow}
        BY <3>2 DEF Prune
      <4> QED
        BY <2>0, <3>2, <4>1 DEF Prune, ExpiryBounded, LockoutBounded
    <3>3. CASE Restart
      <4>1. Idle.exp <= now + TTL
        BY <2>0 DEF Idle
      <4> QED
        BY <3>3, <4>1 DEF Restart, ExpiryBounded, LockoutBounded
    <3>4. CASE \E j \in Job : JobFails(j)
      BY <3>4, IdleBound DEF JobFails, ExpiryBounded, LockoutBounded
    <3>5. CASE \E f \in Facility : GatewayConnects(f) \/ GatewayCloses(f)
      BY <3>5 DEF GatewayConnects, GatewayCloses, ExpiryBounded, LockoutBounded
    <3> QED
      BY <2>4, <3>1, <3>2, <3>3, <3>4, <3>5 DEF Environment
  <2>5. CASE UNCHANGED vars
    BY <2>5 DEF vars, ExpiryBounded, LockoutBounded
  <2> QED
    BY <2>1, <2>2, <2>3, <2>4, <2>5 DEF Next
<1> QED
  BY <1>1, <1>2, TypeCorrect, PTL DEF Spec

(* No lock denies a user for longer than the lifetime of a Route Pass from  *)
(* now on, whatever is lost, delayed or cut short.                          *)
THEOREM LockoutCorrect == Spec => []LockoutBounded
<1>1. ExpiryBounded => LockoutBounded
  BY DEF ExpiryBounded
<1> QED
  BY <1>1, ExpiriesBounded, PTL

-----------------------------------------------------------------------------
(* What the decision to skip rests on: the log knows of every logged pass   *)
(* that has not expired, and only an assignment handler ever looks for rows *)
(* to remove (the other place where "skip" is set).                         *)
SoleFinder ==
  \A j \in Job : jobs[j].pc \in {"find", "filter"} => jobs[j].kind = "assigned"

LogComplete ==
  /\ \A p \in passes : p.exp > now /\ (p.logged => p.exp <= lastExp[p.user])
  /\ SoleFinder

LEMMA LogCompleteInitially == Init => LogComplete
  BY DEF Init, LogComplete, SoleFinder, Idle

(* A step of a handler replaces its own record; it leads to the look-up of  *)
(* rows only in assignment handlers, and apart from those it turns "skip"   *)
(* on only in CheckPass.                                                    *)
LEMMA JobStepShape ==
  ASSUME TypeOK, SoleFinder, NEW j \in Job, JobStep(j)
  PROVE  \E r : /\ Become(j, r)
                /\ r.pc \in {"find", "filter"} => r.kind = "assigned"
                /\ \/ CheckPass(j)
                   \/ jobs[j].kind = "assigned"
                   \/ r.skip => jobs[j].skip
<1> DEFINE s == jobs[j]
           ok(r) == /\ r.pc \in {"find", "filter"} => r.kind = "assigned"
                    /\ s.kind = "assigned" \/ (r.skip => s.skip)
<1>1. s \in JobState
  BY DEF TypeOK
<1>2. ok(Idle) /\ (Finish(j) <=> Become(j, Idle))
  BY DEF Idle, Finish, Become
<1>3. CASE ReadDevices(j)
  <2> DEFINE ds == IF s.kind = "deactivated" THEN AssignedDevices(s.user)
                                             ELSE DevicesOf(s.unit)
             r == [s EXCEPT !.pc = "check", !.targets = ds, !.todo = ds,
                            !.exp = ExpirationDate]
  <2>1. Finish(j) \/ Become(j, r)
    BY <1>3 DEF ReadDevices
  <2>2. r.pc = "check" /\ r.skip = s.skip
    BY <1>1 DEF JobState
  <2>3. ok(r)
    BY <2>2
  <2> HIDE DEF r
  <2> QED
    BY <1>2, <2>1, <2>3
<1>4. CASE CheckPass(j)
  <2> DEFINE r(b) == [s EXCEPT !.pc = "clear", !.skip = b,
                               !.exp = IF s.kind = "share_revoked"
                                         THEN s.exp ELSE ExpirationDate]
  <2>1. \E b \in BOOLEAN : Become(j, r(b))
    BY <1>4 DEF CheckPass
  <2>2. \A b : r(b).pc = "clear"
    BY <1>1 DEF JobState
  <2> HIDE DEF r
  <2> QED
    BY <1>4, <2>1, <2>2
<1>5. CASE ClearRow(j)
  <2> DEFINE r(d) == [s EXCEPT !.pc = "insert", !.cur = {d}, !.todo = @ \ {d}]
  <2>1. \E d : Become(j, r(d))
    BY <1>5 DEF ClearRow
  <2>2. \A d : r(d).pc = "insert" /\ r(d).skip = s.skip
    BY <1>1 DEF JobState
  <2>3. \A d : ok(r(d))
    BY <2>2
  <2> HIDE DEF r
  <2> QED
    BY <2>1, <2>3
<1>6. CASE InsertRow(j)
  <2> DEFINE r == [s EXCEPT !.pc = "reread"]
  <2>1. Finish(j) \/ Become(j, r)
    BY <1>6 DEF InsertRow
  <2>2. r.pc = "reread" /\ r.skip = s.skip
    BY <1>1 DEF JobState
  <2>3. ok(r)
    BY <2>2
  <2> HIDE DEF r
  <2> QED
    BY <1>2, <2>1, <2>3
<1>6b. CASE ReadBack(j)
  <2>1. Finish(j) \/ Become(j, AfterInsert(s))
    BY <1>6b DEF ReadBack
  <2>2. CASE AfterInsert(s) = Idle
    BY <1>2, <2>1, <2>2
  <2>3. CASE AfterInsert(s) # Idle
    <3>1. AfterInsert(s).pc \in {"clear", "sendAdd"} /\ AfterInsert(s).skip = s.skip
      BY <1>1, <2>3 DEF JobState, AfterInsert
    <3>2. ok(AfterInsert(s))
      BY <3>1
    <3> QED
      BY <1>2, <2>1, <3>2
  <2> QED
    BY <2>2, <2>3
<1>7. CASE SendAdd(j)
  <2> DEFINE r(f) == [s EXCEPT !.todo = s.todo \ {d \in s.todo : FacilityOfDevice(d) = f}]
  <2>1. At(j, "sendAdd") /\ (Finish(j) \/ \E f : Become(j, r(f)))
    BY <1>7 DEF SendAdd
  <2>2. \A f : r(f).pc = "sendAdd" /\ r(f).skip = s.skip
    BY <1>1, <2>1 DEF JobState, At
  <2>3. \A f : ok(r(f))
    BY <2>2
  <2> HIDE DEF r
  <2> QED
    BY <1>2, <2>1, <2>3
<1>8. CASE FindRows(j)
  <2> DEFINE ds == LiveRows(s.unit, s.user)
             r(d) == [s EXCEPT !.pc = "filter", !.targets = ds, !.todo = ds,
                               !.exp = row[d][s.user].exp]
  <2>1. s.kind = "assigned" /\ (Finish(j) \/ \E d : Become(j, r(d)))
    BY <1>8 DEF FindRows, At, SoleFinder
  <2>2. \A d : r(d).kind = "assigned"
    BY <1>1, <2>1 DEF JobState
  <2>3. \A d : ok(r(d))
    BY <2>1, <2>2
  <2> HIDE DEF r
  <2> QED
    BY <1>2, <2>1, <2>3
<1>9. CASE FilterRows(j)
  <2> DEFINE r == [s EXCEPT !.pc = "remove", !.skip = RowExpired(s.exp)]
  <2>1. s.kind = "assigned" /\ Become(j, r)
    BY <1>9 DEF FilterRows, At, SoleFinder
  <2>2. r.pc = "remove"
    BY <1>1 DEF JobState
  <2>3. ok(r)
    BY <2>1, <2>2
  <2> HIDE DEF r
  <2> QED
    BY <2>1, <2>3
<1>10. CASE RemoveRow(j)
  <2> DEFINE r1 == [s EXCEPT !.pc = "sendRemove", !.todo = {}]
             r2(d) == [s EXCEPT !.todo = @ \ {d}]
  <2>1. At(j, "remove") /\ (Finish(j) \/ Become(j, r1) \/ \E d : Become(j, r2(d)))
    BY <1>10 DEF RemoveRow
  <2>2. /\ r1.pc = "sendRemove" /\ r1.skip = s.skip
        /\ \A d : r2(d).pc = "remove" /\ r2(d).skip = s.skip
    BY <1>1, <2>1 DEF JobState, At
  <2>3. ok(r1) /\ \A d : ok(r2(d))
    BY <2>2
  <2> HIDE DEF r1, r2
  <2> QED
    BY <1>2, <2>1, <2>3
<1>11. CASE SendRemove(j)
  BY <1>2, <1>11 DEF SendRemove
<1>12. CASE ResolveAudiences(j)
  <2> DEFINE r == [s EXCEPT !.pc = "sign", !.targets = AssignedDevices(s.user)]
  <2>1. Become(j, r)
    BY <1>12 DEF ResolveAudiences
  <2>2. r.pc = "sign" /\ r.skip = s.skip
    BY <1>1 DEF JobState
  <2>3. ok(r)
    BY <2>2
  <2> HIDE DEF r
  <2> QED
    BY <2>1, <2>3
<1>13. CASE SignPass(j)
  <2> DEFINE r == [s EXCEPT !.pc = "log", !.exp = now + TTL]
  <2>1. Become(j, r)
    BY <1>13 DEF SignPass
  <2>2. r.pc = "log" /\ r.skip = s.skip
    BY <1>1 DEF JobState
  <2>3. ok(r)
    BY <2>2
  <2> HIDE DEF r
  <2> QED
    BY <2>1, <2>3
<1>14. CASE LogAndRespond(j)
  BY <1>2, <1>14 DEF LogAndRespond
<1> QED
  BY <1>3, <1>4, <1>5, <1>6, <1>6b, <1>7, <1>8, <1>9, <1>10, <1>11, <1>12, <1>13, <1>14
  DEF JobStep

(* A pass is handed out only after the log was written, if it was.          *)
LEMMA IssuanceLogged ==
  ASSUME TypeOK, LogComplete, NEW j \in Job, LogAndRespond(j)
  PROVE  \A p \in passes' : p.exp > now' /\ (p.logged => p.exp <= lastExp'[p.user])
<1> DEFINE s == jobs[j]
<1>0. s \in JobState
  BY DEF TypeOK
<1>1. PICK logged \in BOOLEAN :
        /\ IF logged THEN LogIssuance(s.user, s.exp)
                     ELSE "logfail" \in Faults /\ lastExp' = lastExp
        /\ passes' = IF s.exp > now /\ s.targets # {}
                       THEN passes \cup {[user |-> s.user, aud |-> s.targets,
                                          exp |-> s.exp, logged |-> logged]}
                       ELSE passes
  BY DEF LogAndRespond
<1>2. now' = now
  BY DEF LogAndRespond
<1>3. /\ \A u \in User : lastExp[u] \in Int /\ lastExp'[u] \in Int /\ lastExp[u] <= lastExp'[u]
      /\ logged => s.exp <= lastExp'[s.user]
  BY <1>0, <1>1 DEF LogIssuance, TypeOK, JobState, Time
<1>4. ASSUME NEW p \in passes'
      PROVE  p.exp > now /\ (p.logged => p.exp <= lastExp'[p.user])
  <2>1. CASE p \in passes
    <3>1. p.user \in User /\ p.exp \in Int
      BY <2>1 DEF TypeOK, Pass, Time
    <3> QED
      BY <1>3, <2>1, <3>1 DEF LogComplete
  <2>2. CASE p \notin passes
    <3>1. s.exp > now /\ p = [user |-> s.user, aud |-> s.targets,
                              exp |-> s.exp, logged |-> logged]
      BY <1>1, <2>2
    <3> QED
      BY <1>3, <3>1
  <2> QED
    BY <2>1, <2>2
<1> QED
  BY <1>2, <1>4

LEMMA LogCompleteStep == TypeOK /\ LogComplete /\ [Next]_vars => LogComplete'
<1> SUFFICES ASSUME TypeOK, LogComplete, [Next]_vars PROVE LogComplete'
  OBVIOUS
<1>1. CASE Operation
  <2>1. PICK j, k, p, t, u : /\ j \in Job /\ Starting(j, k, p, t, u)
                             /\ p = "find" => k = "assigned"
                             /\ p # "filter"
                             /\ UNCHANGED <<now, passes, lastExp>>
    <3>1. PICK j \in Job, t \in User :
             \/ \E u \in Unit : \/ AssignTenant(u, t, j)
                                \/ UnassignTenant(u, t, j)
                                \/ RevokeSharing(u, t, j)
             \/ DeactivateUser(t, j)
             \/ RequestPass(t, j)
      BY <1>1 DEF Operation
    <3>2. UNCHANGED <<now, passes, lastExp>>
      BY <3>1 DEF AssignTenant, UnassignTenant, RevokeSharing, DeactivateUser, RequestPass
    <3>3. \E u : \/ Starting(j, "assigned", "find", t, u)
                 \/ Starting(j, "unassigned", "devices", t, u)
                 \/ Starting(j, "share_revoked", "devices", t, u)
                 \/ Starting(j, "deactivated", "devices", t, u)
                 \/ Starting(j, "pass", "audience", t, u)
      BY <3>1 DEF AssignTenant, UnassignTenant, RevokeSharing, DeactivateUser, RequestPass
    <3>4. ASSUME NEW u, NEW k, NEW p, Starting(j, k, p, t, u),
                 p = "find" => k = "assigned", p # "filter"
          PROVE  \E i, l, q, v, w : /\ i \in Job /\ Starting(i, l, q, v, w)
                                    /\ q = "find" => l = "assigned"
                                    /\ q # "filter"
      BY <3>4, Zenon
    <3> QED
      BY <3>2, <3>3, <3>4
  <2> DEFINE r == [Idle EXCEPT !.kind = k, !.pc = p, !.user = t, !.unit = u]
  <2>2. r.kind = k /\ r.pc = p
    BY DEF Idle
  <2>3. jobs' = [jobs EXCEPT ![j] = r]
    BY <2>1 DEF Starting
  <2> HIDE DEF r
  <2>4. \A i \in Job : jobs'[i].pc \in {"find", "filter"} => jobs'[i].kind = "assigned"
    BY <2>1, <2>2, <2>3 DEF TypeOK, LogComplete, SoleFinder
  <2> QED
    BY <2>1, <2>4 DEF LogComplete, SoleFinder
<1>2. CASE Account
  BY <1>2 DEF Account, SetActive, Login, SessionExpires, LogComplete, SoleFinder
<1>3. CASE \E j \in Job : JobStep(j)
  <2>1. PICK j \in Job : JobStep(j)
    BY <1>3
  <2>2. \A i \in Job : jobs'[i].pc \in {"find", "filter"} => jobs'[i].kind = "assigned"
    BY <2>1, JobStepShape DEF Become, TypeOK, LogComplete, SoleFinder
  <2>3. CASE LogAndRespond(j)
    BY <2>2, <2>3, IssuanceLogged DEF LogComplete, SoleFinder
  <2>4. CASE ~LogAndRespond(j)
    <3>1. UNCHANGED <<now, passes, lastExp>>
      BY <2>1, <2>4
      DEF JobStep, ReadDevices, CheckPass, ClearRow, InsertRow, ReadBack, SendAdd, FindRows,
          FilterRows, RemoveRow, SendRemove, ResolveAudiences, SignPass
    <3> QED
      BY <2>2, <3>1 DEF LogComplete, SoleFinder
  <2> QED
    BY <2>3, <2>4
<1>4. CASE Environment
  <2>1. CASE Tick
    BY <2>1 DEF Tick, LogComplete, SoleFinder, TypeOK
  <2>2. CASE Prune
    BY <2>2 DEF Prune, LogComplete, SoleFinder
  <2>3. CASE Restart
    BY <2>3 DEF Restart, LogComplete, SoleFinder, Idle
  <2>4. CASE \E j \in Job : JobFails(j)
    BY <2>4 DEF JobFails, Finish, Idle, LogComplete, SoleFinder, TypeOK
  <2>5. CASE \E f \in Facility : GatewayConnects(f) \/ GatewayCloses(f)
    BY <2>5 DEF GatewayConnects, GatewayCloses, LogComplete, SoleFinder
  <2> QED
    BY <1>4, <2>1, <2>2, <2>3, <2>4, <2>5 DEF Environment
<1>5. CASE UNCHANGED vars
  BY <1>5 DEF vars, LogComplete, SoleFinder
<1> QED
  BY <1>1, <1>2, <1>3, <1>4, <1>5 DEF Next

(* DENYLIST_ADD is skipped only for a user without an unexpired logged pass *)
(* (denylist-optimization.service.ts): for any number of passes and          *)
(* revocations of the user in flight, and under every fault.                *)
THEOREM SkipCorrect == Spec => SkipSafe
<1>1. TypeOK /\ LogComplete /\ [Next]_vars =>
        [\A j \in Job :
           jobs[j].kind \in Revoking /\ ~jobs[j].skip /\ jobs'[j].skip
             => \A p \in passes : p.user = jobs[j].user => ~p.logged]_vars
  <2> SUFFICES ASSUME TypeOK, LogComplete, Next, NEW j \in Job,
                      jobs[j].kind \in Revoking, ~jobs[j].skip, jobs'[j].skip,
                      NEW p \in passes, p.user = jobs[j].user
               PROVE  ~p.logged
    OBVIOUS
  <2>0. /\ jobs[j] \in JobState /\ ~Idle.skip
        /\ jobs[j].kind # "assigned" /\ jobs[j].kind # "idle"
    BY DEF TypeOK, Idle, Revoking
  <2>1. ASSUME PassExpired(jobs[j].user) PROVE ~p.logged
    <3>1. p.exp \in Int /\ p.user \in User /\ now \in Nat /\ lastExp[p.user] \in Int
      BY DEF TypeOK, Pass, Time
    <3> QED
      BY <2>1, <3>1 DEF PassExpired, LogComplete
  <2>2. ASSUME NEW i \in Job, JobStep(i) PROVE PassExpired(jobs[j].user)
    <3>1. PICK r : /\ Become(i, r)
                   /\ \/ CheckPass(i)
                      \/ jobs[i].kind = "assigned"
                      \/ r.skip => jobs[i].skip
      BY <2>2, JobStepShape DEF LogComplete
    <3>2. i = j
      BY <3>1 DEF Become, TypeOK
    <3>3. jobs'[j] = r
      BY <3>1, <3>2 DEF Become, TypeOK
    <3>4. CheckPass(j)
      BY <2>0, <3>1, <3>2, <3>3
    <3>5. PICK b \in BOOLEAN :
            /\ ShouldSkip(jobs[j].user, b)
            /\ Become(j, [jobs[j] EXCEPT !.pc = "clear", !.skip = b,
                             !.exp = IF jobs[j].kind = "share_revoked"
                                       THEN jobs[j].exp ELSE ExpirationDate])
      BY <3>4 DEF CheckPass
    <3>6. jobs'[j].skip = b
      BY <2>0, <3>5 DEF Become, TypeOK, JobState
    <3> QED
      BY <3>5, <3>6 DEF ShouldSkip, PassExpired
  <2>3. CASE Operation
    <3>1. PICK i, k, q, t, u : i \in Job /\ Starting(i, k, q, t, u)
      BY <2>3 DEF Operation, AssignTenant, UnassignTenant, RevokeSharing,
                  DeactivateUser, RequestPass
    <3>2. i # j
      BY <2>0, <3>1 DEF Starting
    <3> QED
      BY <3>1, <3>2 DEF Starting, TypeOK
  <2>4. CASE Account
    BY <2>4 DEF Account, SetActive, Login, SessionExpires
  <2>5. CASE Environment
    <3>1. \/ jobs' = jobs
          \/ \E i \in Job : Finish(i)
          \/ jobs' = [i \in Job |-> Idle]
      BY <2>5 DEF Environment, Tick, Prune, Restart, JobFails, GatewayConnects, GatewayCloses
    <3> QED
      BY <2>0, <3>1 DEF Finish, TypeOK
  <2> QED
    BY <2>1, <2>2, <2>3, <2>4, <2>5 DEF Next
<1> QED
  BY <1>1, TypeCorrect, LogCompleteInitially, LogCompleteStep, PTL DEF Spec, SkipSafe

-----------------------------------------------------------------------------
(* Handlers come to an end.                                                 *)

(* A loop that is not over has locks left, and the row it has deleted is    *)
(* not among those to delete.                                               *)
Fed(s) ==
  /\ s.kind = "idle" => s = Idle
  /\ s.pc \in {"check", "clear", "sendAdd", "filter", "remove"} => s.todo # {}
  /\ s.pc \in {"check", "clear", "insert", "reread", "sendAdd"} => s.targets # {}
  /\ s.pc \notin {"insert", "reread"} => s.cur = {}
  /\ s.pc \in {"insert", "reread"} => s.cur # {} /\ s.cur \cap s.todo = {}

LoopsFed == \A j \in Job : Fed(jobs[j])

Ahead(r, s) ==
  \/ Stage(r) > Stage(s)
  \/ Stage(r) = Stage(s) /\ LessLeft(r, s)

LEMMA IdleFed == Fed(Idle)
  BY DEF Fed, Idle

LEMMA StepAhead ==
  ASSUME TypeOK, LoopsFed, NEW j \in Job, JobStep(j)
  PROVE  \E r : Become(j, r) /\ Fed(r) /\ (r = Idle \/ Ahead(r, jobs[j]))
<1> DEFINE s == jobs[j]
           ok(r) == Fed(r) /\ (r = Idle \/ Ahead(r, s))
<1>1. s \in JobState /\ Fed(s)
  BY DEF TypeOK, LoopsFed
<1>2. ok(Idle) /\ (Finish(j) <=> Become(j, Idle))
  BY IdleFed DEF Finish, Become
<1>3. s.pc # "idle" => s.kind # "idle"
  BY <1>1 DEF Fed, Idle
(* Onward, to a later stage.                                                *)
<1>4. ASSUME NEW r, r.kind = s.kind, Stage(r) > Stage(s), s.pc # "idle", r.cur = {},
             r.pc \in {"sign", "log", "sendRemove"}
             \/ (r.pc \in {"filter", "remove"} /\ r.todo # {})
             \/ (r.pc \in {"check", "clear", "sendAdd"} /\ r.todo # {} /\ r.targets # {})
      PROVE  ok(r)
  BY <1>3, <1>4 DEF Fed, Ahead
<1>5. CASE ReadDevices(j)
  <2> DEFINE ds == IF s.kind = "deactivated" THEN AssignedDevices(s.user)
                                             ELSE DevicesOf(s.unit)
             r == [s EXCEPT !.pc = "check", !.targets = ds, !.todo = ds,
                            !.exp = ExpirationDate]
  <2>1. s.pc = "devices" /\ (Finish(j) \/ (ds # {} /\ Become(j, r)))
    BY <1>5 DEF ReadDevices, At
  <2>2. r.pc = "check" /\ r.kind = s.kind /\ r.cur = {} /\ r.todo = ds /\ r.targets = ds
    BY <1>1, <2>1 DEF JobState, Fed
  <2>3. Stage(r) > Stage(s)
    BY <2>1, <2>2 DEF Stage
  <2> HIDE DEF r, ds
  <2> QED
    BY <1>2, <1>4, <2>1, <2>2, <2>3
<1>6. CASE CheckPass(j)
  <2> DEFINE r(b) == [s EXCEPT !.pc = "clear", !.skip = b,
                               !.exp = IF s.kind = "share_revoked"
                                         THEN s.exp ELSE ExpirationDate]
  <2>1. PICK b \in BOOLEAN : s.pc = "check" /\ Become(j, r(b))
    BY <1>6 DEF CheckPass, At
  <2>2. /\ r(b).pc = "clear" /\ r(b).kind = s.kind /\ r(b).cur = {}
        /\ r(b).todo # {} /\ r(b).targets # {}
    BY <1>1, <2>1 DEF JobState, Fed
  <2>3. Stage(r(b)) > Stage(s)
    BY <2>1, <2>2 DEF Stage
  <2> HIDE DEF r
  <2> QED
    BY <1>4, <2>1, <2>2, <2>3
<1>7. CASE ClearRow(j)
  <2> DEFINE r(d) == [s EXCEPT !.pc = "insert", !.cur = {d}, !.todo = @ \ {d}]
  <2>1. PICK d \in s.todo : s.pc = "clear" /\ Become(j, r(d))
    BY <1>7 DEF ClearRow, At
  <2>2. /\ r(d).pc = "insert" /\ r(d).kind = s.kind /\ r(d).cur = {d}
        /\ r(d).todo = s.todo \ {d} /\ r(d).targets = s.targets
    BY <1>1, <2>1 DEF JobState
  <2> HIDE DEF r
  <2>3. Stage(r(d)) = Stage(s)
    BY <2>1, <2>2 DEF Stage
  <2>4. LessLeft(r(d), s)
    BY <2>1, <2>2 DEF LessLeft
  <2>5. Fed(r(d))
    BY <1>1, <1>3, <2>1, <2>2 DEF Fed
  <2> QED
    BY <2>1, <2>3, <2>4, <2>5 DEF Ahead
<1>8. CASE InsertRow(j)
  <2> DEFINE r == [s EXCEPT !.pc = "reread"]
  <2>1. s.pc = "insert" /\ (Finish(j) \/ Become(j, r))
    BY <1>8 DEF InsertRow, At
  <2>2. /\ r.pc = "reread" /\ r.kind = s.kind /\ r.cur = s.cur
        /\ r.todo = s.todo /\ r.targets = s.targets
    BY <1>1 DEF JobState
  <2> HIDE DEF r
  <2>3. Stage(r) = Stage(s) /\ LessLeft(r, s)
    BY <2>1, <2>2 DEF Stage, LessLeft
  <2>4. Fed(r)
    BY <1>1, <1>3, <2>1, <2>2 DEF Fed
  <2> QED
    BY <1>2, <2>1, <2>3, <2>4 DEF Ahead
<1>8b. CASE ReadBack(j)
  <2> DEFINE r1 == [s EXCEPT !.pc = "clear", !.cur = {}]
             r2 == [s EXCEPT !.pc = "sendAdd", !.cur = {}, !.todo = s.targets]
  <2>1. /\ s.pc = "reread"
        /\ \/ Finish(j)
           \/ s.todo # {} /\ Become(j, r1)
           \/ Become(j, r2)
    BY <1>8b, <1>2 DEF ReadBack, AfterInsert, At
  <2>2. /\ r1.pc = "clear" /\ r1.kind = s.kind /\ r1.cur = {}
        /\ r1.todo = s.todo /\ r1.targets = s.targets
        /\ r2.pc = "sendAdd" /\ r2.kind = s.kind /\ r2.cur = {}
        /\ r2.todo = s.targets /\ r2.targets = s.targets
    BY <1>1 DEF JobState
  <2> HIDE DEF r1, r2
  <2>3. s.targets # {} /\ s.cur # {} /\ s.cur \cap s.todo = {}
    BY <1>1, <2>1 DEF Fed
  <2>4. CASE s.todo # {} /\ Become(j, r1)
    <3>1. Stage(r1) = Stage(s) /\ LessLeft(r1, s)
      BY <2>1, <2>2, <2>3 DEF Stage, LessLeft
    <3>2. Fed(r1)
      BY <1>3, <2>1, <2>2, <2>3, <2>4 DEF Fed
    <3> QED
      BY <2>4, <3>1, <3>2 DEF Ahead
  <2>5. CASE Become(j, r2)
    <3>1. Stage(r2) > Stage(s)
      BY <2>1, <2>2 DEF Stage
    <3> QED
      BY <1>4, <2>1, <2>2, <2>3, <2>5, <3>1
  <2> QED
    BY <1>2, <2>1, <2>4, <2>5
<1>9. CASE SendAdd(j)
  <2> DEFINE rest(f) == s.todo \ {d \in s.todo : FacilityOfDevice(d) = f}
             r(f) == [s EXCEPT !.todo = rest(f)]
  <2>1. PICK d \in s.todo :
          /\ s.pc = "sendAdd"
          /\ \/ Finish(j)
             \/ rest(FacilityOfDevice(d)) # {} /\ Become(j, r(FacilityOfDevice(d)))
    BY <1>9 DEF SendAdd, At
  <2> DEFINE f == FacilityOfDevice(d)
  <2>2. /\ r(f).pc = "sendAdd" /\ r(f).kind = s.kind /\ r(f).cur = s.cur
        /\ r(f).todo = rest(f) /\ r(f).targets = s.targets
    BY <1>1, <2>1 DEF JobState
  <2>3. d \notin rest(f) /\ rest(f) \subseteq s.todo
    OBVIOUS
  <2> HIDE DEF r, f, rest
  <2>4. Stage(r(f)) = Stage(s) /\ LessLeft(r(f), s)
    BY <1>1, <2>1, <2>2, <2>3 DEF Stage, LessLeft, Fed
  <2>5. rest(f) # {} => Fed(r(f))
    BY <1>1, <1>3, <2>1, <2>2 DEF Fed
  <2> QED
    BY <1>2, <2>1, <2>4, <2>5 DEF Ahead, f
<1>10. CASE FindRows(j)
  <2> DEFINE ds == LiveRows(s.unit, s.user)
             r(d) == [s EXCEPT !.pc = "filter", !.targets = ds, !.todo = ds,
                               !.exp = row[d][s.user].exp]
  <2>1. s.pc = "find" /\ (Finish(j) \/ (ds # {} /\ \E d : Become(j, r(d))))
    BY <1>10 DEF FindRows, At
  <2>2. \A d : r(d).pc = "filter" /\ r(d).kind = s.kind /\ r(d).cur = {} /\ r(d).todo = ds
    BY <1>1, <2>1 DEF JobState, Fed
  <2> HIDE DEF r, ds
  <2>3. \A d : Stage(r(d)) > Stage(s)
    BY <2>1, <2>2 DEF Stage
  <2>4. ds # {} => \A d : ok(r(d))
    BY <1>4, <2>1, <2>2, <2>3
  <2> QED
    BY <1>2, <2>1, <2>4
<1>11. CASE FilterRows(j)
  <2> DEFINE r == [s EXCEPT !.pc = "remove", !.skip = RowExpired(s.exp)]
  <2>1. s.pc = "filter" /\ Become(j, r)
    BY <1>11 DEF FilterRows, At
  <2>2. r.pc = "remove" /\ r.kind = s.kind /\ r.cur = {} /\ r.todo # {}
    BY <1>1, <2>1 DEF JobState, Fed
  <2>3. Stage(r) > Stage(s)
    BY <2>1, <2>2 DEF Stage
  <2> HIDE DEF r
  <2> QED
    BY <1>4, <2>1, <2>2, <2>3
<1>12. CASE RemoveRow(j)
  <2> DEFINE r1 == [s EXCEPT !.pc = "sendRemove", !.todo = {}]
             r2(d) == [s EXCEPT !.todo = @ \ {d}]
  <2>1. PICK d \in s.todo :
          /\ s.pc = "remove"
          /\ Finish(j) \/ Become(j, r1) \/ (s.todo # {d} /\ Become(j, r2(d)))
    BY <1>12 DEF RemoveRow, At
  <2>2. /\ r1.pc = "sendRemove" /\ r1.kind = s.kind /\ r1.cur = {}
        /\ r2(d).pc = "remove" /\ r2(d).kind = s.kind /\ r2(d).cur = {} /\ s.cur = {}
        /\ r2(d).todo = s.todo \ {d}
    BY <1>1, <2>1 DEF JobState, Fed
  <2> HIDE DEF r1, r2
  <2>3. Stage(r1) > Stage(s) /\ Stage(r2(d)) = Stage(s)
    BY <2>1, <2>2 DEF Stage
  <2>4. ok(r1)
    BY <1>4, <2>1, <2>2, <2>3
  <2>5. LessLeft(r2(d), s)
    BY <2>1, <2>2 DEF LessLeft
  <2>6. s.todo # {d} => Fed(r2(d))
    BY <1>3, <2>1, <2>2 DEF Fed
  <2> QED
    BY <1>2, <2>1, <2>3, <2>4, <2>5, <2>6 DEF Ahead
<1>13. CASE SendRemove(j)
  BY <1>2, <1>13 DEF SendRemove
<1>14. CASE ResolveAudiences(j)
  <2> DEFINE r == [s EXCEPT !.pc = "sign", !.targets = AssignedDevices(s.user)]
  <2>1. s.pc = "audience" /\ Become(j, r)
    BY <1>14 DEF ResolveAudiences, At
  <2>2. r.pc = "sign" /\ r.kind = s.kind /\ r.cur = {}
    BY <1>1, <2>1 DEF JobState, Fed
  <2>3. Stage(r) > Stage(s)
    BY <2>1, <2>2 DEF Stage
  <2> HIDE DEF r
  <2> QED
    BY <1>4, <2>1, <2>2, <2>3
<1>15. CASE SignPass(j)
  <2> DEFINE r == [s EXCEPT !.pc = "log", !.exp = now + TTL]
  <2>1. s.pc = "sign" /\ Become(j, r)
    BY <1>15 DEF SignPass, At
  <2>2. r.pc = "log" /\ r.kind = s.kind /\ r.cur = {}
    BY <1>1, <2>1 DEF JobState, Fed
  <2>3. Stage(r) > Stage(s)
    BY <2>1, <2>2 DEF Stage
  <2> HIDE DEF r
  <2> QED
    BY <1>4, <2>1, <2>2, <2>3
<1>16. CASE LogAndRespond(j)
  BY <1>2, <1>16 DEF LogAndRespond
<1> QED
  BY <1>5, <1>6, <1>7, <1>8, <1>8b, <1>9, <1>10, <1>11, <1>12, <1>13, <1>14, <1>15,
     <1>16
  DEF JobStep

LEMMA AheadStep ==
  ASSUME TypeOK, LoopsFed, [Next]_vars
  PROVE  /\ LoopsFed'
         /\ \A j \in Job : jobs'[j] # jobs[j] /\ jobs[j] # Idle /\ jobs'[j] # Idle
                             => Ahead(jobs'[j], jobs[j])
<1> DEFINE Goal == /\ \A j \in Job : Fed(jobs'[j])
                   /\ \A j \in Job : jobs'[j] # jobs[j] /\ jobs[j] # Idle /\ jobs'[j] # Idle
                                       => Ahead(jobs'[j], jobs[j])
<1> SUFFICES Goal
  BY DEF LoopsFed
<1>1. ASSUME jobs' = jobs PROVE Goal
  BY <1>1 DEF LoopsFed
<1>2. ASSUME NEW j \in Job, NEW r, Become(j, r), Fed(r),
             r = Idle \/ jobs[j] = Idle \/ Ahead(r, jobs[j])
      PROVE  Goal
  <2>1. \A i \in Job : jobs'[i] = IF i = j THEN r ELSE jobs[i]
    BY <1>2 DEF Become, TypeOK
  <2> QED
    BY <1>2, <2>1 DEF LoopsFed
<1> HIDE DEF Goal
<1>3. CASE Operation
  <2>1. PICK j, k, p, t, u : /\ j \in Job /\ Starting(j, k, p, t, u)
                             /\ k # "idle" /\ p \in {"devices", "find", "audience"}
    BY <1>3 DEF Operation, AssignTenant, UnassignTenant, RevokeSharing,
                DeactivateUser, RequestPass
  <2> DEFINE r == [Idle EXCEPT !.kind = k, !.pc = p, !.user = t, !.unit = u]
  <2>2. r.kind = k /\ r.pc = p /\ r.cur = {}
    BY DEF Idle
  <2>3. Become(j, r) /\ jobs[j] = Idle
    BY <2>1 DEF Starting, Become, LoopsFed, Fed
  <2> HIDE DEF r
  <2>4. Fed(r)
    BY <2>1, <2>2 DEF Fed
  <2> QED
    BY <1>2, <2>1, <2>3, <2>4
<1>4. CASE Account
  BY <1>1, <1>4 DEF Account, SetActive, Login, SessionExpires
<1>5. CASE \E j \in Job : JobStep(j)
  <2>1. PICK j \in Job : JobStep(j)
    BY <1>5
  <2>2. PICK r : Become(j, r) /\ Fed(r) /\ (r = Idle \/ Ahead(r, jobs[j]))
    BY <2>1, StepAhead
  <2> QED
    BY <1>2, <2>2
<1>6. CASE Environment
  <2>1. \/ jobs' = jobs
        \/ \E j \in Job : Become(j, Idle)
        \/ jobs' = [j \in Job |-> Idle]
    BY <1>6 DEF Environment, Tick, Prune, Restart, JobFails, Finish, Become,
                GatewayConnects, GatewayCloses
  <2>2. CASE jobs' = [j \in Job |-> Idle]
    BY <2>2, IdleFed DEF Goal
  <2> QED
    BY <1>1, <1>2, <2>1, <2>2, IdleFed
<1>7. CASE UNCHANGED vars
  BY <1>1, <1>7 DEF vars
<1> QED
  BY <1>3, <1>4, <1>5, <1>6, <1>7 DEF Next

LEMMA LoopsFedAlways == Spec => []LoopsFed
<1>1. Init => LoopsFed
  BY IdleFed DEF Init, LoopsFed
<1> QED
  BY <1>1, AheadStep, TypeCorrect, PTL DEF Spec

(* Every handler gets nearer to its end with each of its steps, whatever   *)
(* fails and however many handlers delete and insert the same rows: what   *)
(* is left of "takes effect" is that handlers are resumed.                 *)
THEOREM HandlersComeToAnEnd == Spec => HandlersAdvance
<1> DEFINE Advance == \A j \in Job :
                        jobs'[j] # jobs[j] /\ jobs[j] # Idle /\ jobs'[j] # Idle
                          => Ahead(jobs'[j], jobs[j])
<1>1. TypeOK /\ LoopsFed /\ [Next]_vars => [Advance]_vars
  BY AheadStep
<1>2. [Advance]_vars =>
        [\A j \in Job :
           jobs'[j] # jobs[j] /\ jobs[j] # Idle /\ jobs'[j] # Idle
             => \/ Stage(jobs'[j]) > Stage(jobs[j])
                \/ Stage(jobs'[j]) = Stage(jobs[j]) /\ LessLeft(jobs'[j], jobs[j])]_vars
  BY DEF Ahead
<1> HIDE DEF Advance
<1> QED
  BY <1>1, <1>2, TypeCorrect, LoopsFedAlways, PTL DEF Spec, HandlersAdvance

=============================================================================
