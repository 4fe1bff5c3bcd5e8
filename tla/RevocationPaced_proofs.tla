----------------------- MODULE RevocationPaced_proofs -----------------------
(***************************************************************************)
(* What AccessRevocation promises, for every number of users, units,       *)
(* locks, facilities and handlers, and how much of the misbehaviour in     *)
(* Faults each promise stands:                                             *)
(*                                                                         *)
(* Orderly   how far a handler is tells what its record holds; which       *)
(*           handlers of one user never meet                               *)
(* Ledger    denials at the locks and rows of the table agree, but for     *)
(*           what a handler in flight is about to do                       *)
(* Foreseen  passes in hand are logged, and no denial outlasts its use:    *)
(*           a command is skipped, or a denial lifted, only when nothing   *)
(*           is to be shut out                                             *)
(* Promised  what a revocation took away is shut out, or some revocation   *)
(*           in flight is going to do it                                   *)
(***************************************************************************)
EXTENDS AccessRevocation_proofs

USE RevocationAssumption

(* Assignments and revocations of a user and a unit wait for one another.   *)
Separate == "overlap" \notin Faults

(* Handlers are done before the clock ticks.                                *)
Prompt == "slow" \notin Faults

(* Besides, nothing fails and every gateway stays.  Revocations of a user   *)
(* may meet, passes be requested and their issuance go unlogged any time.   *)
Undisturbed == Faults \subseteq {"clash", "passrace", "logfail"}

(* Operations wait for all they could disturb and nothing fails, but        *)
(* handlers may take as long as they like.                                  *)
Paced == Faults \subseteq {"slow"}

LEMMA Mildness ==
  /\ Undisturbed => Separate /\ Prompt
  /\ Paced => Separate
  BY DEF Undisturbed, Paced, Separate, Prompt

-----------------------------------------------------------------------------
(* The handlers in flight.                                                  *)

RevokeAt == {"devices", "check", "clear", "insert", "reread", "sendAdd"}
LiftAt == {"find", "filter", "remove", "sendRemove"}
PassAt == {"audience", "sign", "log"}

(* What the record of a handler says while it is suspended somewhere.       *)
Well(s) ==
  /\ \/ s.kind = "idle" /\ s.pc = "idle"
     \/ s.kind \in Revoking /\ s.pc \in RevokeAt
     \/ s.kind = "assigned" /\ s.pc \in LiftAt
     \/ s.kind = "pass" /\ s.pc \in PassAt
  /\ s.todo \subseteq s.targets /\ s.cur \subseteq s.targets
  /\ s.pc \in {"devices", "check", "clear", "find", "audience"} => s.cur = {}
  /\ s.pc = "audience" => s.todo = {}
  /\ s.kind # "deactivated" /\ s.pc \in {"check", "clear", "insert", "reread", "sendAdd"} =>
       s.targets = DevicesOf(s.unit)
  /\ s.pc = "check" => s.todo = s.targets
  /\ s.pc \in {"insert", "reread"} => \A d, e \in s.cur : d = e
  /\ s.pc \in {"filter", "remove", "sendRemove"} =>
       s.targets # {} /\ s.targets \subseteq DevicesOf(s.unit)

(* What it says of time as long as handlers are done before the clock ticks. *)
InTime(s) ==
  /\ s.pc \in {"check", "clear", "insert", "reread", "sendAdd"} => s.exp = now + TTL
  /\ s.pc \in {"filter", "remove"} => s.exp > now
  /\ s.pc \in {"remove", "sendRemove"} => ~s.skip

(* A revocation that has read the locks it is about.                        *)
Deciding == {"check", "clear", "insert", "reread", "sendAdd"}

(* A deactivation is about the locks its user has.                          *)
Whole(s) ==
  s.kind = "deactivated" /\ s.pc \in Deciding => s.targets = AssignedDevices(s.user)

(* Which handlers of one user are never in flight together.                 *)
MayMeet(s, r) ==
  s.user = r.user =>
    /\ s.kind = "assigned" => ~(r.kind = "assigned" /\ r.unit = s.unit)
    /\ s.kind = "assigned" /\ r.kind \in Revoking =>
         r.unit # s.unit /\ r.kind # "deactivated"

Meetings == \A i, j \in Job : i # j => MayMeet(jobs[i], jobs[j])

(* Handlers of an assignment or an unassignment are overtaken by no other.  *)
Current(s) ==
  /\ s.kind = "assigned" => <<s.unit, s.user>> \in assigned
  /\ s.kind = "unassigned" => <<s.unit, s.user>> \notin assigned

Orderly ==
  /\ \A j \in Job : Well(jobs[j]) /\ Current(jobs[j])
  /\ Meetings

Punctual == \A j \in Job : InTime(jobs[j])

Online == connected = Facility

(* The record with which an operation starts a handler.                     *)
Started(k, p, t, u) == [Idle EXCEPT !.kind = k, !.pc = p, !.user = t, !.unit = u]

LEMMA StartedShape ==
  ASSUME NEW k, NEW p, NEW t, NEW u
  PROVE  LET r == Started(k, p, t, u)
         IN  /\ r.kind = k /\ r.pc = p /\ r.user = t /\ r.unit = u
             /\ r.targets = {} /\ r.todo = {} /\ r.cur = {} /\ r.exp = 0 /\ ~r.skip
  BY DEF Started, Idle

LEMMA IdleWell ==
  /\ Well(Idle) /\ InTime(Idle) /\ Whole(Idle) /\ Current(Idle)
  /\ Idle.kind = "idle" /\ Idle.pc = "idle"
  BY DEF Well, InTime, Whole, Current, Idle

LEMMA Begins ==
  ASSUME TypeOK, NEW j \in Job, NEW k, NEW p, NEW t, NEW u, Starting(j, k, p, t, u)
  PROVE  /\ jobs[j].kind = "idle"
         /\ \A i \in Job : jobs'[i] = IF i = j THEN Started(k, p, t, u) ELSE jobs[i]
  BY DEF Starting, Started, TypeOK

LEMMA Becomes ==
  ASSUME TypeOK, NEW j \in Job, NEW r, Become(j, r)
  PROVE  \A i \in Job : jobs'[i] = IF i = j THEN r ELSE jobs[i]
  BY DEF Become, TypeOK

(* A step of a handler keeps its record well, in time and whole, and its    *)
(* kind, user and unit; what it decides lives as long as a pass signed now. *)
LEMMA WellStep ==
  ASSUME TypeOK, NEW j \in Job, Well(jobs[j]), JobStep(j)
  PROVE  \E r : /\ Become(j, r) /\ Well(r)
                /\ InTime(jobs[j]) => InTime(r)
                /\ Whole(jobs[j]) => Whole(r)
                /\ r.pc \in Deciding =>
                     \/ r.exp = now + TTL
                     \/ r.exp = jobs[j].exp /\ jobs[j].pc \in Deciding
                /\ \/ r = Idle
                   \/ /\ r.kind = jobs[j].kind /\ r.user = jobs[j].user
                      /\ r.unit = jobs[j].unit
                /\ r.pc = "reread" => InsertRow(j)
<1> DEFINE s == jobs[j]
           ok(r) == /\ Well(r) /\ (InTime(s) => InTime(r)) /\ (Whole(s) => Whole(r))
                    /\ r.pc \in Deciding =>
                         \/ r.exp = now + TTL
                         \/ r.exp = s.exp /\ s.pc \in Deciding
                    /\ \/ r = Idle
                       \/ r.kind = s.kind /\ r.user = s.user /\ r.unit = s.unit
                    /\ r.pc = "reread" => InsertRow(j)
<1>1. s \in JobState /\ Well(s)
  BY DEF TypeOK
<1>2. ok(Idle) /\ (Finish(j) <=> Become(j, Idle))
  BY IdleWell DEF Finish, Become, Deciding
<1>3. CASE ReadDevices(j)
  <2> DEFINE ds == IF s.kind = "deactivated" THEN AssignedDevices(s.user)
                                             ELSE DevicesOf(s.unit)
             r == [s EXCEPT !.pc = "check", !.targets = ds, !.todo = ds,
                            !.exp = ExpirationDate]
  <2>1. At(j, "devices") /\ (Finish(j) \/ Become(j, r))
    BY <1>3 DEF ReadDevices
  <2>2. /\ r.pc = "check" /\ r.targets = ds /\ r.todo = ds /\ r.exp = now + TTL
        /\ r.kind = s.kind /\ r.user = s.user /\ r.unit = s.unit /\ r.cur = s.cur
    BY <1>1 DEF JobState, ExpirationDate
  <2> HIDE DEF r
  <2>3. ok(r)
    BY <1>1, <2>1, <2>2 DEF Well, InTime, Whole, Deciding, At, RevokeAt, LiftAt, PassAt
  <2> QED
    BY <1>2, <2>1, <2>3
<1>4. CASE CheckPass(j)
  <2> DEFINE r(b) == [s EXCEPT !.pc = "clear", !.skip = b,
                               !.exp = IF s.kind = "share_revoked"
                                         THEN s.exp ELSE ExpirationDate]
  <2>1. At(j, "check") /\ \E b \in BOOLEAN : Become(j, r(b))
    BY <1>4 DEF CheckPass
  <2>2. \A b : /\ r(b).pc = "clear" /\ r(b).targets = s.targets /\ r(b).todo = s.todo
               /\ r(b).exp \in {s.exp, now + TTL} /\ r(b).cur = s.cur
               /\ r(b).kind = s.kind /\ r(b).user = s.user /\ r(b).unit = s.unit
    BY <1>1 DEF JobState, ExpirationDate
  <2> HIDE DEF r
  <2>3. \A b : ok(r(b))
    BY <1>1, <2>1, <2>2 DEF Well, InTime, Whole, Deciding, At, RevokeAt, LiftAt, PassAt
  <2> QED
    BY <2>1, <2>3
<1>5. CASE ClearRow(j)
  <2> DEFINE r(d) == [s EXCEPT !.pc = "insert", !.cur = {d}, !.todo = @ \ {d}]
  <2>1. At(j, "clear") /\ \E d \in s.todo : Become(j, r(d))
    BY <1>5 DEF ClearRow
  <2>2. \A d : /\ r(d).pc = "insert" /\ r(d).targets = s.targets
               /\ r(d).todo = s.todo \ {d} /\ r(d).cur = {d} /\ r(d).exp = s.exp
               /\ r(d).kind = s.kind /\ r(d).user = s.user /\ r(d).unit = s.unit
    BY <1>1 DEF JobState
  <2> HIDE DEF r
  <2>3. \A d \in s.todo : ok(r(d))
    BY <1>1, <2>1, <2>2 DEF Well, InTime, Whole, Deciding, At, RevokeAt, LiftAt, PassAt
  <2> QED
    BY <2>1, <2>3
<1>6. CASE InsertRow(j)
  <2> DEFINE r == [s EXCEPT !.pc = "reread"]
  <2>1. At(j, "insert") /\ (Finish(j) \/ Become(j, r))
    BY <1>6 DEF InsertRow
  <2>2. /\ r.pc = "reread" /\ r.targets = s.targets /\ r.exp = s.exp
        /\ r.todo = s.todo /\ r.cur = s.cur /\ r.skip = s.skip
        /\ r.kind = s.kind /\ r.user = s.user /\ r.unit = s.unit
    BY <1>1 DEF JobState
  <2> HIDE DEF r
  <2>3. ok(r)
    BY <1>1, <1>2, <1>6, <2>1, <2>2
    DEF Well, InTime, Whole, Deciding, At, RevokeAt, LiftAt, PassAt
  <2> QED
    BY <1>2, <2>1, <2>3
<1>6b. CASE ReadBack(j)
  <2> DEFINE r == AfterInsert(s)
  <2>1. At(j, "reread") /\ (Finish(j) \/ Become(j, r))
    BY <1>6b DEF ReadBack
  <2>2. \/ r = Idle
        \/ /\ r.pc \in {"clear", "sendAdd"} /\ r.targets = s.targets /\ r.exp = s.exp
           /\ r.todo \in {s.todo, s.targets} /\ r.cur = {}
           /\ r.kind = s.kind /\ r.user = s.user /\ r.unit = s.unit
    BY <1>1 DEF JobState, AfterInsert
  <2> HIDE DEF r
  <2>3. ok(r)
    BY <1>1, <1>2, <2>1, <2>2 DEF Well, InTime, Whole, Deciding, At, RevokeAt, LiftAt, PassAt
  <2> QED
    BY <1>2, <2>1, <2>3
<1>7. CASE SendAdd(j)
  <2> DEFINE r(f) == [s EXCEPT !.todo = s.todo \ {d \in s.todo : FacilityOfDevice(d) = f}]
  <2>1. At(j, "sendAdd") /\ (Finish(j) \/ \E f : Become(j, r(f)))
    BY <1>7 DEF SendAdd
  <2>2. \A f : /\ r(f).pc = s.pc /\ r(f).targets = s.targets /\ r(f).cur = s.cur
               /\ r(f).exp = s.exp /\ r(f).todo \subseteq s.todo
               /\ r(f).kind = s.kind /\ r(f).user = s.user /\ r(f).unit = s.unit
    BY <1>1 DEF JobState
  <2> HIDE DEF r
  <2>3. \A f : ok(r(f))
    BY <1>1, <2>1, <2>2 DEF Well, InTime, Whole, Deciding, At, RevokeAt, LiftAt, PassAt
  <2> QED
    BY <1>2, <2>1, <2>3
<1>8. CASE FindRows(j)
  <2> DEFINE ds == LiveRows(s.unit, s.user)
             r(d) == [s EXCEPT !.pc = "filter", !.targets = ds, !.todo = ds,
                               !.exp = row[d][s.user].exp]
  <2>1. At(j, "find") /\ (Finish(j) \/ \E d \in ds : Become(j, r(d)))
    BY <1>8 DEF FindRows
  <2>2. \A d : /\ r(d).pc = "filter" /\ r(d).targets = ds /\ r(d).todo = ds
               /\ r(d).cur = s.cur /\ r(d).exp = row[d][s.user].exp
               /\ r(d).kind = s.kind /\ r(d).user = s.user /\ r(d).unit = s.unit
    BY <1>1 DEF JobState
  <2>3. ds \subseteq DevicesOf(s.unit) /\ \A d \in ds : row[d][s.user].exp > now
    BY DEF LiveRows
  <2>4. s.cur = {}
    BY <1>1, <2>1 DEF Well, At
  <2> HIDE DEF r, ds
  <2>5. \A d \in ds : ok(r(d))
    BY <1>1, <2>1, <2>2, <2>3, <2>4 DEF Well, InTime, Whole, Deciding, At, RevokeAt, LiftAt, PassAt
  <2> QED
    BY <1>2, <2>1, <2>5
<1>9. CASE FilterRows(j)
  <2> DEFINE r == [s EXCEPT !.pc = "remove", !.skip = RowExpired(s.exp)]
  <2>1. At(j, "filter") /\ Become(j, r)
    BY <1>9 DEF FilterRows
  <2>2. InTime(s) => ~RowExpired(s.exp)
    BY <1>1, <2>1 DEF InTime, At, RowExpired, TypeOK, JobState, Time
  <2>3. /\ r.pc = "remove" /\ r.targets = s.targets /\ r.todo = s.todo
        /\ r.cur = s.cur /\ r.exp = s.exp /\ r.skip = RowExpired(s.exp)
        /\ r.kind = s.kind /\ r.user = s.user /\ r.unit = s.unit
    BY <1>1 DEF JobState
  <2> HIDE DEF r
  <2>4. ok(r)
    BY <1>1, <2>1, <2>2, <2>3 DEF Well, InTime, Whole, Deciding, At, RevokeAt, LiftAt, PassAt
  <2> QED
    BY <2>1, <2>4
<1>10. CASE RemoveRow(j)
  <2> DEFINE r1 == [s EXCEPT !.pc = "sendRemove", !.todo = {}]
             r2(d) == [s EXCEPT !.todo = @ \ {d}]
  <2>1. At(j, "remove") /\ (Finish(j) \/ Become(j, r1) \/ \E d : Become(j, r2(d)))
    BY <1>10 DEF RemoveRow
  <2>2. /\ r1.pc = "sendRemove" /\ r1.targets = s.targets /\ r1.todo = {}
        /\ r1.cur = s.cur /\ r1.exp = s.exp /\ r1.skip = s.skip
        /\ r1.kind = s.kind /\ r1.user = s.user /\ r1.unit = s.unit
    BY <1>1 DEF JobState
  <2>3. \A d : /\ r2(d).pc = s.pc /\ r2(d).targets = s.targets
               /\ r2(d).todo \subseteq s.todo
               /\ r2(d).cur = s.cur /\ r2(d).exp = s.exp /\ r2(d).skip = s.skip
               /\ r2(d).kind = s.kind /\ r2(d).user = s.user /\ r2(d).unit = s.unit
    BY <1>1 DEF JobState
  <2> HIDE DEF r1, r2
  <2>4. ok(r1) /\ \A d : ok(r2(d))
    BY <1>1, <2>1, <2>2, <2>3 DEF Well, InTime, Whole, Deciding, At, RevokeAt, LiftAt, PassAt
  <2> QED
    BY <1>2, <2>1, <2>4
<1>11. CASE SendRemove(j)
  BY <1>2, <1>11 DEF SendRemove
<1>12. CASE ResolveAudiences(j)
  <2> DEFINE ds == AssignedDevices(s.user)
             r == [s EXCEPT !.pc = "sign", !.targets = ds]
  <2>1. At(j, "audience") /\ Become(j, r)
    BY <1>12 DEF ResolveAudiences
  <2>2. /\ r.pc = "sign" /\ r.targets = ds /\ r.todo = s.todo /\ r.cur = s.cur
        /\ r.kind = s.kind /\ r.user = s.user /\ r.unit = s.unit
    BY <1>1 DEF JobState
  <2> HIDE DEF r, ds
  <2>3. ok(r)
    BY <1>1, <2>1, <2>2 DEF Well, InTime, Whole, Deciding, At, RevokeAt, LiftAt, PassAt
  <2> QED
    BY <2>1, <2>3
<1>13. CASE SignPass(j)
  <2> DEFINE r == [s EXCEPT !.pc = "log", !.exp = now + TTL]
  <2>1. At(j, "sign") /\ Become(j, r)
    BY <1>13 DEF SignPass
  <2>2. /\ r.pc = "log" /\ r.targets = s.targets /\ r.todo = s.todo /\ r.cur = s.cur
        /\ r.exp = now + TTL
        /\ r.kind = s.kind /\ r.user = s.user /\ r.unit = s.unit
    BY <1>1 DEF JobState
  <2> HIDE DEF r
  <2>3. ok(r)
    BY <1>1, <2>1, <2>2 DEF Well, InTime, Whole, Deciding, At, RevokeAt, LiftAt, PassAt
  <2> QED
    BY <2>1, <2>3
<1>14. CASE LogAndRespond(j)
  BY <1>2, <1>14 DEF LogAndRespond
<1> QED
  BY <1>3, <1>4, <1>5, <1>6, <1>6b, <1>7, <1>8, <1>9, <1>10, <1>11, <1>12, <1>13, <1>14
  DEF JobStep
(* Locks are told of, and their rows written, in steps that leave clock,    *)
(* assignments and gateways alone.                                          *)
LEMMA HandlerFrame ==
  ASSUME NEW j \in Job, JobStep(j)
  PROVE  UNCHANGED <<now, assigned, connected, cut>>
  BY DEF JobStep, ReadDevices, CheckPass, ClearRow, InsertRow, ReadBack, SendAdd, FindRows,
         FilterRows, RemoveRow, SendRemove, ResolveAudiences, SignPass, LogAndRespond

(* What operations wait for.                                                *)
LEMMA Waited ==
  ASSUME Separate, NEW t \in User, NEW u \in Unit
  PROVE  /\ MayAssign(t, u) => \A i \in Job :
              jobs[i].kind \in Revoking /\ jobs[i].user = t =>
                jobs[i].unit # u /\ jobs[i].kind # "deactivated"
         /\ MayRevoke(t, u) => \A i \in Job :
              ~(jobs[i].kind = "assigned" /\ jobs[i].user = t /\ jobs[i].unit = u)
  BY DEF Separate, MayAssign, MayRevoke, Busy

(* What an operation does to assignments, handlers and what is to be shut   *)
(* out.                                                                     *)
Starts(k, p, j, t, u) ==
  /\ Starting(j, k, p, t, u)
  /\ \/ /\ k = "assigned" /\ p = "find" /\ u \in Unit
        /\ MayAssign(t, u) /\ <<u, t>> \notin assigned
        /\ assigned' = assigned \cup {<<u, t>>}
        /\ cut' = {c \in cut : ~(c.user = t /\ UnitOf[c.device] = u)}
     \/ /\ k = "unassigned" /\ p = "devices" /\ u \in Unit
        /\ MayRevoke(t, u) /\ NoClash({"deactivated"}, t)
        /\ assigned' = assigned \ {<<u, t>>}
        /\ cut' = cut \cup Held(t, DevicesOf(u))
     \/ /\ k = "share_revoked" /\ p = "devices" /\ u \in Unit
        /\ MayRevoke(t, u) /\ NoClash({"deactivated"}, t)
        /\ assigned' = assigned /\ cut' = cut
     \/ /\ k = "deactivated" /\ p = "devices"
        /\ \A v \in Unit : MayRevoke(t, v)
        /\ NoClash({"unassigned", "share_revoked"}, t)
        /\ assigned' = assigned
        /\ cut' = cut \cup Held(t, AssignedDevices(t))
     \/ /\ k = "pass" /\ p = "audience" /\ MayRequest(t)
        /\ assigned' = assigned /\ cut' = cut

LEMMA OperationStarts ==
  ASSUME Operation
  PROVE  /\ UNCHANGED <<now, passes, lastExp, row, lockDeny, connected>>
         /\ \E j \in Job, t \in User : \E k, p, u : Starts(k, p, j, t, u)
<1>1. PICK j \in Job, t \in User :
         \/ \E u \in Unit : \/ AssignTenant(u, t, j)
                            \/ UnassignTenant(u, t, j)
                            \/ RevokeSharing(u, t, j)
         \/ DeactivateUser(t, j)
         \/ RequestPass(t, j)
  BY DEF Operation
<1>2. UNCHANGED <<now, passes, lastExp, row, lockDeny, connected>>
  BY <1>1 DEF AssignTenant, UnassignTenant, RevokeSharing, DeactivateUser, RequestPass
<1>3. \E k, p, u : Starts(k, p, j, t, u)
  <2>1. ASSUME NEW u \in Unit, AssignTenant(u, t, j)
        PROVE  Starts("assigned", "find", j, t, u)
    BY <2>1 DEF AssignTenant, Starts
  <2>2. ASSUME NEW u \in Unit, UnassignTenant(u, t, j)
        PROVE  Starts("unassigned", "devices", j, t, u)
    BY <2>2 DEF UnassignTenant, Starts
  <2>3. ASSUME NEW u \in Unit, RevokeSharing(u, t, j)
        PROVE  Starts("share_revoked", "devices", j, t, u)
    BY <2>3 DEF RevokeSharing, Starts
  <2>4. ASSUME DeactivateUser(t, j)
        PROVE  Starts("deactivated", "devices", j, t, Idle.unit)
    BY <2>4 DEF DeactivateUser, Starts
  <2>5. ASSUME RequestPass(t, j)
        PROVE  Starts("pass", "audience", j, t, Idle.unit)
    BY <2>5 DEF RequestPass, Starts
  <2> QED
    BY <1>1, <2>1, <2>2, <2>3, <2>4, <2>5
<1> QED
  BY <1>2, <1>3

LEMMA OrderlyStart ==
  ASSUME TypeOK, Separate, Orderly, Operation
  PROVE  Orderly' /\ (Punctual => Punctual')
<1>1. PICK j \in Job, t \in User : \E k, p, u : Starts(k, p, j, t, u)
  BY OperationStarts
<1>2. PICK k, p, u : Starts(k, p, j, t, u)
  BY <1>1
<1> DEFINE r == Started(k, p, t, u)
<1>3. /\ jobs[j].kind = "idle"
      /\ \A i \in Job : jobs'[i] = IF i = j THEN r ELSE jobs[i]
  BY <1>2, Begins DEF Starts
<1>4. /\ r.kind = k /\ r.pc = p /\ r.user = t /\ r.unit = u
      /\ r.targets = {} /\ r.todo = {} /\ r.cur = {}
  BY StartedShape
<1> HIDE DEF r
<1>5. /\ k = "assigned" => u \in Unit /\ MayAssign(t, u) /\ <<u, t>> \notin assigned
      /\ k \in {"unassigned", "share_revoked"} => u \in Unit /\ MayRevoke(t, u)
      /\ k = "deactivated" => \A v \in Unit : MayRevoke(t, v)
      /\ k \in {"assigned", "unassigned", "share_revoked", "deactivated", "pass"}
      /\ \/ k = "assigned" /\ assigned' = assigned \cup {<<u, t>>}
         \/ k = "unassigned" /\ assigned' = assigned \ {<<u, t>>}
         \/ k \notin {"assigned", "unassigned"} /\ assigned' = assigned
  BY <1>2 DEF Starts
(* Assignments wait for revocations, revocations for assignments.           *)
<1>6. ASSUME NEW i \in Job, jobs[i].user = t
      PROVE  /\ k = "assigned" /\ jobs[i].kind \in Revoking =>
                  jobs[i].unit # u /\ jobs[i].kind # "deactivated"
             /\ jobs[i].kind = "assigned" =>
                  /\ k \in {"unassigned", "share_revoked"} => jobs[i].unit # u
                  /\ k # "deactivated"
             /\ jobs[i].kind = "assigned" /\ k = "assigned" => jobs[i].unit # u
  <2>1. jobs[i].unit \in Unit /\ Current(jobs[i])
    BY DEF TypeOK, JobState, Orderly
  <2>2. k = "assigned" => /\ jobs[i].kind \in Revoking =>
                               jobs[i].unit # u /\ jobs[i].kind # "deactivated"
                          /\ jobs[i].kind = "assigned" => jobs[i].unit # u
    BY <1>5, <1>6, <2>1, Waited DEF Current
  <2>3. jobs[i].kind = "assigned" =>
          /\ k \in {"unassigned", "share_revoked"} => jobs[i].unit # u
          /\ k # "deactivated"
    BY <1>5, <1>6, <2>1, Waited
  <2> QED
    BY <2>2, <2>3
<1>7. \A i \in Job : Well(jobs[i])'
  <2>1. Well(r)
    BY <1>2, <1>4 DEF Starts, Well, Revoking, RevokeAt, LiftAt, PassAt
  <2>2. \A i \in Job : Well(jobs'[i])
    BY <1>3, <2>1 DEF Orderly
  <2> QED
    BY <2>2 DEF Well, DevicesOf
<1>8. \A i \in Job : Current(jobs[i])'
  <2> SUFFICES ASSUME NEW i \in Job PROVE Current(jobs[i])'
    OBVIOUS
  <2>1. CASE i = j
    BY <1>3, <1>4, <1>5, <2>1 DEF Current
  <2>2. CASE i # j
    <3>1. jobs'[i] = jobs[i] /\ Current(jobs[i])
      BY <1>3, <2>2 DEF Orderly
    <3>2. CASE jobs[i].user = t
      BY <1>5, <1>6, <3>1, <3>2 DEF Current, Revoking
    <3>3. CASE jobs[i].user # t
      BY <1>5, <3>1, <3>3 DEF Current
    <3> QED
      BY <3>2, <3>3
  <2> QED
    BY <2>1, <2>2
<1>9. Meetings'
  <2> SUFFICES ASSUME NEW i \in Job, NEW l \in Job, i # l
               PROVE  MayMeet(jobs'[i], jobs'[l])
    BY DEF Meetings, MayMeet
  <2>1. CASE i # j /\ l # j
    BY <1>3, <2>1 DEF Orderly, Meetings
  <2>2. CASE i = j
    BY <1>3, <1>4, <1>6, <2>2 DEF MayMeet, Revoking
  <2>3. CASE l = j
    BY <1>3, <1>4, <1>6, <2>3 DEF MayMeet, Revoking
  <2> QED
    BY <2>1, <2>2, <2>3
<1>10. ASSUME Punctual PROVE Punctual'
  <2>1. InTime(r)
    BY <1>2, <1>4 DEF Starts, InTime
  <2>2. now' = now
    BY OperationStarts
  <2>3. \A i \in Job : InTime(jobs'[i])
    BY <1>3, <1>10, <2>1 DEF Punctual
  <2> QED
    BY <2>2, <2>3 DEF Punctual, InTime
<1> QED
  BY <1>7, <1>8, <1>9, <1>10 DEF Orderly

(* Handlers that end, for whatever reason, leave the others in order.       *)
LEMMA OrderlyEnds ==
  ASSUME Orderly, assigned' = assigned,
         \A j \in Job : jobs'[j] \in {jobs[j], Idle}
  PROVE  Orderly' /\ (Punctual /\ now' = now => Punctual')
<1>1. \A j \in Job : Well(jobs'[j]) /\ (Punctual => InTime(jobs'[j]))
  BY IdleWell DEF Orderly, Punctual
<1>2. \A j \in Job : Well(jobs[j])'
  BY <1>1 DEF Well, DevicesOf
<1>3. \A j \in Job : Current(jobs[j])'
  BY IdleWell DEF Orderly, Current
<1>4. Meetings'
  BY IdleWell DEF Orderly, Meetings, MayMeet, Revoking
<1>5. Punctual /\ now' = now => Punctual'
  BY <1>1 DEF Punctual, InTime
<1> QED
  BY <1>2, <1>3, <1>4, <1>5 DEF Orderly

LEMMA OrderlyJob ==
  ASSUME TypeOK, Orderly, NEW j \in Job, JobStep(j)
  PROVE  Orderly' /\ (Punctual => Punctual')
<1>1. now' = now /\ assigned' = assigned
  BY HandlerFrame
<1>2. PICK r : /\ Become(j, r) /\ Well(r) /\ (InTime(jobs[j]) => InTime(r))
               /\ \/ r = Idle
                  \/ /\ r.kind = jobs[j].kind /\ r.user = jobs[j].user
                     /\ r.unit = jobs[j].unit
  BY WellStep DEF Orderly
<1>3. \A i \in Job : jobs'[i] = IF i = j THEN r ELSE jobs[i]
  BY <1>2, Becomes
<1>4. \A i \in Job : Well(jobs'[i]) /\ (Punctual => InTime(jobs'[i]))
  BY <1>2, <1>3 DEF Orderly, Punctual
<1>5. \A i \in Job : Well(jobs[i])'
  BY <1>4 DEF Well, DevicesOf
<1>6. \A i \in Job : Current(jobs[i])'
  BY <1>1, <1>2, <1>3, IdleWell DEF Orderly, Current
<1>7. Meetings'
  BY <1>2, <1>3, IdleWell DEF Orderly, Meetings, MayMeet, Revoking
<1>8. Punctual => Punctual'
  BY <1>1, <1>4 DEF Punctual, InTime
<1> QED
  BY <1>5, <1>6, <1>7, <1>8 DEF Orderly

(* The environment: clock and gateways, failures, pruning, restarts.        *)
LEMMA OrderlyRest ==
  ASSUME TypeOK, Orderly, Account \/ Environment \/ UNCHANGED vars
  PROVE  Orderly' /\ (Prompt /\ Punctual => Punctual')
<1>1. assigned' = assigned /\ \A j \in Job : jobs'[j] \in {jobs[j], Idle}
  <2>1. CASE \E j \in Job : JobFails(j)
    BY <2>1 DEF JobFails, Finish, TypeOK
  <2>2. CASE ~\E j \in Job : JobFails(j)
    BY <2>2 DEF Account, SetActive, Login, SessionExpires, Environment, Tick, Prune,
       Restart, GatewayConnects, GatewayCloses, vars
  <2> QED
    BY <2>1, <2>2
<1>2. CASE Tick
  <2>1. ASSUME Prompt PROVE Punctual'
    <3>1. \A j \in Job : jobs[j].kind = "idle" /\ jobs'[j] = jobs[j]
      BY <1>2, <2>1 DEF Prompt, Tick, AllIdle
    <3>2. \A j \in Job : jobs'[j].pc = "idle"
      BY <3>1 DEF Orderly, Well, Revoking
    <3> QED
      BY <3>2 DEF Punctual, InTime
  <2> QED
    BY <1>1, <2>1, OrderlyEnds
<1>3. CASE ~Tick
  <2>1. now' = now
    BY <1>3 DEF Account, SetActive, Login, SessionExpires, Environment, Prune, Restart,
       JobFails, GatewayConnects, GatewayCloses, vars
  <2> QED
    BY <1>1, <2>1, OrderlyEnds
<1> QED
  BY <1>2, <1>3

LEMMA OrderlyStep ==
  TypeOK /\ Separate /\ Orderly /\ [Next]_vars
    => Orderly' /\ (Prompt /\ Punctual => Punctual')
<1> SUFFICES ASSUME TypeOK, Separate, Orderly, [Next]_vars
             PROVE  Orderly' /\ (Prompt /\ Punctual => Punctual')
  OBVIOUS
<1>1. CASE Operation
  BY <1>1, OrderlyStart
<1>2. CASE \E j \in Job : JobStep(j)
  BY <1>2, OrderlyJob
<1>3. CASE Account \/ Environment \/ UNCHANGED vars
  BY <1>3, OrderlyRest
<1> QED
  BY <1>1, <1>2, <1>3 DEF Next

LEMMA OrderlyInitially == Init => Orderly /\ Punctual /\ Online
  BY IdleWell DEF Init, Orderly, Meetings, MayMeet, Revoking, Punctual, Online

LEMMA OnlineStep ==
  Faults \cap {"disconnect", "crash"} = {} /\ Online /\ [Next]_vars => Online'
<1> SUFFICES ASSUME Faults \cap {"disconnect", "crash"} = {}, Online, [Next]_vars
             PROVE  Online'
  OBVIOUS
<1>1. CASE Operation \/ (\E j \in Job : JobStep(j)) \/ Account \/ UNCHANGED vars
  BY <1>1, OperationStarts, HandlerFrame
  DEF Online, Account, SetActive, Login, SessionExpires, vars
<1>2. CASE Environment
  BY <1>2 DEF Environment, Tick, Prune, Restart, JobFails, GatewayConnects,
     GatewayCloses, Online
<1> QED
  BY <1>1, <1>2 DEF Next

-----------------------------------------------------------------------------
(* Rows and denials.                                                        *)

Lasting == {"user_deactivation", "key_sharing_revocation"}

(* A row as a revocation in flight writes it now.                           *)
Fresh(d, t) ==
  /\ row[d][t].exp = now + TTL
  /\ <<UnitOf[d], t>> \in assigned => row[d][t].source \in Lasting

(* A revocation has deleted the row and is about to insert it.              *)
Pending(d, t) ==
  \E i \in Job : jobs[i].pc = "insert" /\ jobs[i].user = t /\ d \in jobs[i].cur

(* An assignment is about to have the denial lifted, its row removed.       *)
Lifting(d, t) ==
  \E i \in Job : /\ jobs[i].pc \in {"remove", "sendRemove"}
                 /\ jobs[i].user = t /\ d \in jobs[i].targets

Assigning(d, t) ==
  \E i \in Job : /\ jobs[i].kind = "assigned"
                 /\ jobs[i].user = t /\ jobs[i].unit = UnitOf[d]

(* The locks whose rows a revocation has written.                           *)
Written(s) ==
  {d \in s.targets : \/ s.pc \in {"clear", "insert"} /\ d \notin s.todo /\ d \notin s.cur
                     \/ s.pc = "reread" /\ d \notin s.todo
                     \/ s.pc = "sendAdd"}

DenialsLive ==
  \A d \in Device, t \in User : lockDeny[d][t] = 0 \/ lockDeny[d][t] > now

(* A row that another revocation inserted meanwhile is as good as one's own. *)
ClearedRows ==
  \A i \in Job, d \in Device, t \in User :
    jobs[i].pc = "insert" /\ jobs[i].user = t /\ d \in jobs[i].cur =>
      row[d][t] = NoRow \/ Fresh(d, t)

WrittenRows ==
  \A i \in Job, d \in Device, t \in User :
    d \in Written(jobs[i]) /\ jobs[i].user = t => Fresh(d, t) \/ Pending(d, t)

Recorded ==
  \A d \in Device, t \in User :
    lockDeny[d][t] <= row[d][t].exp \/ Pending(d, t) \/ Lifting(d, t)

(* Whoever has the unit is denied only for a reason an assignment leaves.   *)
Excused ==
  \A d \in Device, t \in User : <<UnitOf[d], t>> \in assigned =>
    \/ lockDeny[d][t] = 0
    \/ row[d][t].source \in Lasting
    \/ Pending(d, t) \/ Assigning(d, t)

Ledger == DenialsLive /\ ClearedRows /\ WrittenRows /\ Recorded /\ Excused

LEMMA LedgerInitially == Init => Ledger
  BY IdleWell DEF Init, Ledger, DenialsLive, ClearedRows, WrittenRows, Recorded,
     Excused, Written, NoRow

(* A handler starts.                                                        *)
LEMMA LedgerStart ==
  ASSUME TypeOK, Separate, Orderly, Ledger, Operation
  PROVE  Ledger'
<1>1. PICK j \in Job, t \in User : \E k, p, u : Starts(k, p, j, t, u)
  BY OperationStarts
<1>2. UNCHANGED <<now, row, lockDeny>>
  BY OperationStarts
<1>3. PICK k, p, u : /\ Starting(j, k, p, t, u)
                     /\ p \in {"find", "devices", "audience"}
                     /\ \/ assigned' \subseteq assigned
                        \/ /\ MayAssign(t, u) /\ u \in Unit /\ k = "assigned"
                           /\ assigned' = assigned \cup {<<u, t>>}
  BY <1>1 DEF Starts
<1> DEFINE r == Started(k, p, t, u)
<1>4. /\ jobs[j].kind = "idle"
      /\ \A i \in Job : jobs'[i] = IF i = j THEN r ELSE jobs[i]
  BY <1>3, Begins
<1>5. r.kind = k /\ r.pc = p /\ r.user = t /\ r.unit = u
  BY StartedShape
<1> HIDE DEF r
<1>6. jobs[j].pc = "idle"
  BY <1>4 DEF Orderly, Well, Revoking
(* What the revocations in flight write stays as good as it is.             *)
<1>7. ASSUME NEW i \in Job, jobs[i].pc \in {"clear", "insert", "reread", "sendAdd"},
             NEW d \in jobs[i].targets, NEW v \in User, jobs[i].user = v, Fresh(d, v)
      PROVE  Fresh(d, v)'
  <2>1. Well(jobs[i]) /\ jobs[i].kind \in Revoking /\ d \in Device
    BY <1>7 DEF Orderly, Well, LiftAt, PassAt, TypeOK, JobState
  <2>2. jobs'[i] = jobs[i]
    BY <1>4, <1>6, <1>7
  <2>3. CASE assigned' \subseteq assigned
    BY <1>2, <1>7, <2>2, <2>3 DEF Fresh
  <2>4. CASE MayAssign(t, u) /\ u \in Unit /\ assigned' = assigned \cup {<<u, t>>}
    <3>1. v = t => UnitOf[d] # u
      <4>1. v = t => jobs[i].unit # u /\ jobs[i].kind # "deactivated"
        BY <1>7, <2>1, <2>4, Waited
      <4> QED
        BY <1>7, <2>1, <4>1 DEF Well, DevicesOf
    <3> QED
      BY <1>2, <1>7, <2>2, <2>4, <3>1 DEF Fresh
  <2> QED
    BY <1>3, <2>3, <2>4
<1>8. \A d, v : Pending(d, v) => Pending(d, v)'
  BY <1>4, <1>6 DEF Pending
<1>9. \A d, v : Lifting(d, v) => Lifting(d, v)'
  BY <1>4, <1>6 DEF Lifting
<1>10. \A d, v : Assigning(d, v) => Assigning(d, v)'
  BY <1>4 DEF Assigning
<1>11. DenialsLive'
  BY <1>2 DEF Ledger, DenialsLive
<1>12. ClearedRows'
  <2> SUFFICES ASSUME NEW i \in Job, NEW d \in Device, NEW v \in User,
                      jobs'[i].pc = "insert", jobs'[i].user = v, d \in jobs'[i].cur
               PROVE  row'[d][v] = NoRow \/ Fresh(d, v)'
    BY DEF ClearedRows
  <2>1. i # j /\ jobs'[i] = jobs[i]
    BY <1>3, <1>4, <1>5
  <2>2. d \in jobs[i].targets
    BY <2>1 DEF Orderly, Well
  <2> QED
    BY <1>2, <1>7, <2>1, <2>2 DEF Ledger, ClearedRows
<1>13. WrittenRows'
  <2> SUFFICES ASSUME NEW i \in Job, NEW d \in Device, NEW v \in User,
                      d \in Written(jobs'[i]), jobs'[i].user = v
               PROVE  Fresh(d, v)' \/ Pending(d, v)'
    BY DEF WrittenRows, Written
  <2>1. i # j /\ jobs'[i] = jobs[i]
    BY <1>3, <1>4, <1>5 DEF Written
  <2>2. jobs[i].pc \in {"clear", "insert", "reread", "sendAdd"} /\ d \in jobs[i].targets
    BY <2>1 DEF Written
  <2> QED
    BY <1>7, <1>8, <2>1, <2>2 DEF Ledger, WrittenRows
<1>14. Recorded'
  BY <1>2, <1>8, <1>9 DEF Ledger, Recorded
<1>15. Excused'
  <2> SUFFICES ASSUME NEW d \in Device, NEW v \in User, <<UnitOf[d], v>> \in assigned'
               PROVE  \/ lockDeny'[d][v] = 0
                      \/ row'[d][v].source \in Lasting
                      \/ Pending(d, v)' \/ Assigning(d, v)'
    BY DEF Excused
  <2>1. CASE <<UnitOf[d], v>> \in assigned
    BY <1>2, <1>8, <1>10, <2>1 DEF Ledger, Excused
  <2>2. CASE <<UnitOf[d], v>> \notin assigned
    <3>1. UnitOf[d] = u /\ v = t /\ k = "assigned"
      BY <1>3, <2>2
    <3> QED
      BY <1>4, <1>5, <3>1 DEF Assigning
  <2> QED
    BY <2>1, <2>2
<1> QED
  BY <1>11, <1>12, <1>13, <1>14, <1>15 DEF Ledger

(* Steps of handlers that touch neither rows nor locks.                     *)
LEMMA LedgerKept ==
  ASSUME TypeOK, Orderly, Ledger, NEW j \in Job, NEW r, Become(j, r),
         UNCHANGED <<now, assigned, row, lockDeny>>,
         jobs[j].pc \notin {"insert", "remove", "sendRemove"}, r.pc # "insert",
         Written(r) = {},
         \/ jobs[j].kind # "assigned"
         \/ r.kind = jobs[j].kind /\ r.user = jobs[j].user /\ r.unit = jobs[j].unit
  PROVE  Ledger'
<1>1. \A i \in Job : jobs'[i] = IF i = j THEN r ELSE jobs[i]
  BY Becomes
<1>2. \A d, v : Pending(d, v) => Pending(d, v)'
  BY <1>1 DEF Pending
<1>3. \A d, v : Lifting(d, v) => Lifting(d, v)'
  BY <1>1 DEF Lifting
<1>4. \A d, v : Assigning(d, v) => Assigning(d, v)'
  BY <1>1 DEF Assigning
<1>5. DenialsLive'
  BY DEF Ledger, DenialsLive
<1>6. ClearedRows'
  BY <1>1 DEF Ledger, ClearedRows, Fresh
<1>7. WrittenRows'
  <2> SUFFICES ASSUME NEW i \in Job, NEW d \in Device, NEW v \in User,
                      d \in Written(jobs'[i]), jobs'[i].user = v
               PROVE  Fresh(d, v)' \/ Pending(d, v)'
    BY DEF WrittenRows, Written
  <2>1. jobs'[i] = jobs[i]
    BY <1>1
  <2> QED
    BY <1>2, <2>1 DEF Ledger, WrittenRows, Fresh
<1>8. Recorded'
  BY <1>2, <1>3 DEF Ledger, Recorded
<1>9. Excused'
  BY <1>2, <1>4 DEF Ledger, Excused
<1> QED
  BY <1>5, <1>6, <1>7, <1>8, <1>9 DEF Ledger

(* A revocation deletes a row.                                              *)
LEMMA LedgerClear ==
  ASSUME TypeOK, Orderly, Ledger, NEW j \in Job, ClearRow(j),
         NEW t \in User, t = jobs[j].user
  PROVE  Ledger'
<1> DEFINE s == jobs[j]
<1>1. s \in JobState /\ Well(s)
  BY DEF TypeOK, Orderly
<1>2. PICK d0 \in s.todo :
        /\ row' = [row EXCEPT ![d0][t] = NoRow]
        /\ Become(j, [s EXCEPT !.pc = "insert", !.cur = {d0}, !.todo = s.todo \ {d0}])
  BY DEF ClearRow
<1>3. s.pc = "clear" /\ UNCHANGED <<now, assigned, lockDeny>>
  BY DEF ClearRow, At
<1> DEFINE r == [s EXCEPT !.pc = "insert", !.cur = {d0}, !.todo = s.todo \ {d0}]
<1>4. /\ r.pc = "insert" /\ r.cur = {d0} /\ r.todo = s.todo \ {d0}
      /\ r.targets = s.targets /\ r.kind = s.kind /\ r.user = t /\ r.unit = s.unit
  BY <1>1 DEF JobState
<1>5. \A i \in Job : jobs'[i] = IF i = j THEN r ELSE jobs[i]
  BY <1>2, Becomes
<1> HIDE DEF r
<1>6. d0 \in Device
  BY <1>1 DEF JobState
<1>7. \A e \in Device, v \in User :
        row'[e][v] = IF e = d0 /\ v = t THEN NoRow ELSE row[e][v]
  BY <1>2, <1>6 DEF TypeOK
<1>8. Pending(d0, t)' /\ \A d, v : Pending(d, v) => Pending(d, v)'
  BY <1>3, <1>4, <1>5 DEF Pending
<1>9. \A d, v : Lifting(d, v) => Lifting(d, v)'
  BY <1>3, <1>4, <1>5 DEF Lifting
<1>10. \A d, v : Assigning(d, v) => Assigning(d, v)'
  BY <1>4, <1>5 DEF Assigning
<1>11. \A d \in Device, v \in User :
         (d # d0 \/ v # t) /\ Fresh(d, v) => Fresh(d, v)'
  BY <1>3, <1>7 DEF Fresh
<1>12. DenialsLive'
  BY <1>3 DEF Ledger, DenialsLive
<1>13. ClearedRows'
  <2> SUFFICES ASSUME NEW i \in Job, NEW d \in Device, NEW v \in User,
                      jobs'[i].pc = "insert", jobs'[i].user = v, d \in jobs'[i].cur
               PROVE  row'[d][v] = NoRow \/ Fresh(d, v)'
    BY DEF ClearedRows
  <2>1. CASE i = j
    BY <1>4, <1>5, <1>6, <1>7, <2>1
  <2>2. CASE i # j
    <3>1. row[d][v] = NoRow \/ Fresh(d, v)
      BY <1>5, <2>2 DEF Ledger, ClearedRows
    <3> QED
      BY <1>7, <1>11, <3>1
  <2> QED
    BY <2>1, <2>2
<1>14. WrittenRows'
  <2> SUFFICES ASSUME NEW i \in Job, NEW d \in Device, NEW v \in User,
                      d \in Written(jobs'[i]), jobs'[i].user = v
               PROVE  Fresh(d, v)' \/ Pending(d, v)'
    BY DEF WrittenRows, Written
  <2>1. d \in Written(jobs[i])
    BY <1>1, <1>3, <1>4, <1>5 DEF Written, Well
  <2>2. jobs[i].user = v
    BY <1>4, <1>5
  <2>3. Fresh(d, v) \/ Pending(d, v)
    BY <2>1, <2>2 DEF Ledger, WrittenRows
  <2> QED
    BY <1>8, <1>11, <2>3
<1>15. Recorded'
  BY <1>3, <1>7, <1>8, <1>9 DEF Ledger, Recorded
<1>16. Excused'
  BY <1>3, <1>7, <1>8, <1>10 DEF Ledger, Excused
<1> QED
  BY <1>12, <1>13, <1>14, <1>15, <1>16 DEF Ledger

(* A revocation inserts a row, or dies on one that is as good.              *)
LEMMA LedgerInsert ==
  ASSUME TypeOK, Orderly, Punctual, LockoutBounded, Ledger, NEW j \in Job, InsertRow(j),
         NEW t \in User, t = jobs[j].user
  PROVE  Ledger'
<1> DEFINE s == jobs[j]
<1>1. s \in JobState /\ Well(s) /\ InTime(s) /\ Current(s)
  BY DEF TypeOK, Orderly, Punctual
<1>2. s.pc = "insert" /\ UNCHANGED <<now, assigned, lockDeny>>
  BY DEF InsertRow, At
<1> DEFINE q == [s EXCEPT !.pc = "reread"]
<1>3. PICK d0 \in s.cur : \E r :
        /\ Become(j, r)
        /\ \/ row[d0][t] # NoRow /\ row' = row /\ r = Idle
           \/ row' = [row EXCEPT ![d0][t] = NewRow(j)] /\ r = q
  BY DEF InsertRow, Finish, Become
<1>4. PICK r :
        /\ Become(j, r)
        /\ \/ row[d0][t] # NoRow /\ row' = row /\ r = Idle
           \/ row' = [row EXCEPT ![d0][t] = NewRow(j)] /\ r = q
  BY <1>3
<1>5. d0 \in Device
  BY <1>1 DEF JobState
<1>6. \A i \in Job : jobs'[i] = IF i = j THEN r ELSE jobs[i]
  BY <1>3, <1>4, Becomes
<1>7. /\ r.pc # "insert"
      /\ Written(r) # {} => r.user = t /\ Written(r) \subseteq Written(s) \cup {d0}
  <2>1. CASE r = Idle
    BY <2>1 DEF Idle, Written
  <2>2. CASE r = q
    <3>1. /\ r.pc = "reread" /\ r.user = t /\ r.targets = s.targets
          /\ r.todo = s.todo
      BY <1>1, <2>2 DEF JobState
    <3> QED
      BY <1>1, <1>2, <3>1 DEF Written, Well
  <2> QED
    BY <1>4, <2>1, <2>2
<1> HIDE DEF q
<1>8. Fresh(d0, t)'
  <2>1. CASE row' = row /\ row[d0][t] # NoRow
    BY <1>2, <1>5, <2>1 DEF Ledger, ClearedRows, Fresh
  <2>2. CASE row' = [row EXCEPT ![d0][t] = NewRow(j)]
    <3>1. row'[d0][t] = NewRow(j)
      BY <1>5, <2>2 DEF TypeOK
    <3>2. s.exp = now + TTL /\ s.kind \in Revoking
      BY <1>1, <1>2 DEF Well, InTime, LiftAt, PassAt
    <3>3. s.kind = "unassigned" => <<UnitOf[d0], t>> \notin assigned
      BY <1>1, <1>2 DEF Well, Current, DevicesOf
    <3>4. s.kind # "unassigned" => SourceOf(s.kind) \in Lasting
      BY <3>2 DEF SourceOf, Revoking, Lasting
    <3> QED
      BY <1>2, <3>1, <3>2, <3>3, <3>4 DEF Fresh, NewRow
  <2> QED
    BY <1>3, <1>4, <2>1, <2>2
<1>9. \A e \in Device, v \in User : e # d0 \/ v # t => row'[e][v] = row[e][v]
  BY <1>3, <1>4, <1>5 DEF TypeOK
<1>10. \A d, v : Pending(d, v) /\ (d # d0 \/ v # t) => Pending(d, v)'
  BY <1>1, <1>2, <1>6 DEF Pending, Well
<1>11. \A d, v : Lifting(d, v) => Lifting(d, v)'
  BY <1>2, <1>6 DEF Lifting
<1>12. \A d, v : Assigning(d, v) => Assigning(d, v)'
  BY <1>1, <1>2, <1>6 DEF Assigning, Well, LiftAt, Revoking
<1>13. \A d \in Device, v \in User : Fresh(d, v) => Fresh(d, v)'
  BY <1>2, <1>8, <1>9 DEF Fresh
<1>14. DenialsLive'
  BY <1>2 DEF Ledger, DenialsLive
<1>15. ClearedRows'
  <2> SUFFICES ASSUME NEW i \in Job, NEW d \in Device, NEW v \in User,
                      jobs'[i].pc = "insert", jobs'[i].user = v, d \in jobs'[i].cur
               PROVE  row'[d][v] = NoRow \/ Fresh(d, v)'
    BY DEF ClearedRows
  <2>1. row[d][v] = NoRow \/ Fresh(d, v)
    BY <1>6, <1>7 DEF Ledger, ClearedRows
  <2> QED
    BY <1>8, <1>9, <1>13, <2>1
<1>16. WrittenRows'
  <2> SUFFICES ASSUME NEW i \in Job, NEW d \in Device, NEW v \in User,
                      d \in Written(jobs'[i]), jobs'[i].user = v
               PROVE  Fresh(d, v)' \/ Pending(d, v)'
    BY DEF WrittenRows, Written
  <2>1. (d = d0 /\ v = t) \/ (d \in Written(jobs[i]) /\ jobs[i].user = v)
    BY <1>6, <1>7
  <2>2. (d = d0 /\ v = t) \/ Fresh(d, v) \/ Pending(d, v)
    BY <2>1 DEF Ledger, WrittenRows
  <2> QED
    BY <1>8, <1>10, <1>13, <2>2
<1>17. Recorded'
  <2>1. lockDeny[d0][t] <= row'[d0][t].exp
    BY <1>2, <1>5, <1>8 DEF LockoutBounded, Fresh
  <2> QED
    BY <1>2, <1>9, <1>10, <1>11, <2>1 DEF Ledger, Recorded
<1>18. Excused'
  <2>1. <<UnitOf[d0], t>> \in assigned' => row'[d0][t].source \in Lasting
    BY <1>8 DEF Fresh
  <2> QED
    BY <1>2, <1>9, <1>10, <1>12, <2>1 DEF Ledger, Excused
<1> QED
  BY <1>14, <1>15, <1>16, <1>17, <1>18 DEF Ledger

(* A revocation has read its row back: the same row, but for the id.        *)
LEMMA LedgerReadBack ==
  ASSUME TypeOK, Orderly, Ledger, NEW j \in Job, ReadBack(j),
         NEW t \in User, t = jobs[j].user
  PROVE  Ledger'
<1> DEFINE s == jobs[j]
<1>1. s \in JobState /\ Well(s)
  BY DEF TypeOK, Orderly
<1>2. s.pc = "reread" /\ UNCHANGED <<now, assigned, lockDeny>>
  BY DEF ReadBack, At
<1>3. CASE Finish(j) /\ row' = row
  <2>1. Become(j, Idle) /\ UNCHANGED <<now, assigned, row, lockDeny>>
    BY <1>2, <1>3 DEF Finish, Become
  <2>2. s.kind # "assigned"
    BY <1>1, <1>2 DEF Well, LiftAt, Revoking
  <2>3. Written(Idle) = {} /\ Idle.pc # "insert"
    BY IdleWell DEF Written
  <2> QED
    BY <1>2, <2>1, <2>2, <2>3, LedgerKept
<1>4. CASE ~(Finish(j) /\ row' = row)
  <2>1. PICK d0 \in s.cur :
          /\ row[d0][t].by = {j}
          /\ row' = [row EXCEPT ![d0][t] = [@ EXCEPT !.by = {}]]
          /\ Become(j, AfterInsert(s))
    BY <1>4 DEF ReadBack
  <2>2. d0 \in Device
    BY <1>1 DEF JobState
  <2> DEFINE r == AfterInsert(s)
  <2>3. \A i \in Job : jobs'[i] = IF i = j THEN r ELSE jobs[i]
    BY <2>1, Becomes
  <2>4. /\ r.pc # "insert"
        /\ Written(r) # {} => r.user = t /\ Written(r) \subseteq Written(s)
    <3>1. CASE r = Idle
      BY <3>1 DEF Idle, Written
    <3>2. CASE r # Idle
      <4>1. /\ r.user = t /\ r.targets = s.targets
            /\ \/ r.pc = "clear" /\ r.todo = s.todo
               \/ r.pc = "sendAdd" /\ s.todo = {}
        BY <1>1, <3>2 DEF AfterInsert, JobState
      <4> QED
        BY <1>2, <4>1 DEF Written
    <3> QED
      BY <3>1, <3>2
  <2> HIDE DEF r
  <2>5. \A e \in Device, v \in User :
          /\ row'[e][v].exp = row[e][v].exp /\ row'[e][v].source = row[e][v].source
          /\ row[e][v] = NoRow => row'[e][v] = NoRow
    <3> SUFFICES ASSUME NEW e \in Device, NEW v \in User
                 PROVE  /\ row'[e][v].exp = row[e][v].exp
                        /\ row'[e][v].source = row[e][v].source
                        /\ row[e][v] = NoRow => row'[e][v] = NoRow
      OBVIOUS
    <3> DEFINE z == [row[d0][t] EXCEPT !.by = {}]
    <3>1. row'[e][v] = IF e = d0 /\ v = t THEN z ELSE row[e][v]
      BY <2>1, <2>2 DEF TypeOK
    <3>2. row[d0][t] \in Row
      BY <2>2 DEF TypeOK
    <3>3. z.exp = row[d0][t].exp /\ z.source = row[d0][t].source
      BY <3>2, ReadBackType
    <3>4. row[d0][t] # NoRow
      BY <2>1 DEF NoRow
    <3> HIDE DEF z
    <3> QED
      BY <3>1, <3>3, <3>4
  <2>6. \A d \in Device, v \in User : Fresh(d, v) => Fresh(d, v)'
    BY <1>2, <2>5 DEF Fresh
  <2>7. \A d, v : Pending(d, v) => Pending(d, v)'
    BY <1>2, <2>3 DEF Pending
  <2>8. \A d, v : Lifting(d, v) => Lifting(d, v)'
    BY <1>2, <2>3 DEF Lifting
  <2>9. \A d, v : Assigning(d, v) => Assigning(d, v)'
    BY <1>1, <1>2, <2>3 DEF Assigning, Well, LiftAt, Revoking
  <2>10. DenialsLive'
    BY <1>2 DEF Ledger, DenialsLive
  <2>11. ClearedRows'
    BY <2>3, <2>4, <2>5, <2>6 DEF Ledger, ClearedRows
  <2>12. WrittenRows'
    <3> SUFFICES ASSUME NEW i \in Job, NEW d \in Device, NEW v \in User,
                        d \in Written(jobs'[i]), jobs'[i].user = v
                 PROVE  Fresh(d, v)' \/ Pending(d, v)'
      BY DEF WrittenRows, Written
    <3>1. d \in Written(jobs[i]) /\ jobs[i].user = v
      BY <2>3, <2>4
    <3> QED
      BY <2>6, <2>7, <3>1 DEF Ledger, WrittenRows
  <2>13. Recorded'
    BY <1>2, <2>5, <2>7, <2>8 DEF Ledger, Recorded
  <2>14. Excused'
    BY <1>2, <2>5, <2>7, <2>9 DEF Ledger, Excused
  <2> QED
    BY <2>10, <2>11, <2>12, <2>13, <2>14 DEF Ledger
<1> QED
  BY <1>3, <1>4

(* A revocation has the locks of a facility told.                           *)
LEMMA LedgerSend ==
  ASSUME TypeOK, Orderly, Punctual, Online, Ledger, NEW j \in Job, SendAdd(j),
         NEW t \in User, t = jobs[j].user
  PROVE  Ledger'
<1> DEFINE s == jobs[j]
<1>1. s \in JobState /\ Well(s) /\ InTime(s)
  BY DEF TypeOK, Orderly, Punctual
<1>2. s.pc = "sendAdd" /\ UNCHANGED <<now, assigned, row, connected>>
  BY DEF SendAdd, At
<1> DEFINE to(f) == {d \in s.todo : FacilityOfDevice(d) = f}
           x == IF s.exp > now THEN s.exp ELSE 0
<1>3. PICK f \in {FacilityOfDevice(d) : d \in s.todo} : \E r :
        /\ Unicast(f, to(f), t, x)
        /\ Become(j, r)
        /\ r = Idle \/ r = [s EXCEPT !.todo = s.todo \ to(f)]
  BY DEF SendAdd, Finish, Become
<1>4. PICK r :
        /\ Unicast(f, to(f), t, x)
        /\ Become(j, r)
        /\ r = Idle \/ r = [s EXCEPT !.todo = s.todo \ to(f)]
  BY <1>3
<1>5. x = now + TTL /\ now \in Nat /\ TTL \in Nat \ {0}
  BY <1>1, <1>2 DEF InTime, TypeOK
<1>6. f \in connected
  BY <1>1, <1>3, <1>4 DEF Online, FacilityOfDevice, JobState
<1>7. \A d \in Device, v \in User :
        lockDeny'[d][v] = IF d \in to(f) /\ v = t THEN now + TTL ELSE lockDeny[d][v]
  BY <1>3, <1>4, <1>5, <1>6 DEF Unicast, TypeOK
<1>8. \A i \in Job : jobs'[i] = IF i = j THEN r ELSE jobs[i]
  BY <1>3, <1>4, Becomes
<1>9. /\ r.pc # "insert"
      /\ Written(r) # {} => r.user = t /\ Written(r) \subseteq Written(s)
  <2>1. CASE r = Idle
    BY <2>1 DEF Idle, Written
  <2>2. CASE r = [s EXCEPT !.todo = s.todo \ to(f)]
    <3>1. r.pc = s.pc /\ r.targets = s.targets /\ r.user = t
      BY <1>1, <2>2 DEF JobState
    <3> QED
      BY <1>2, <3>1 DEF Written
  <2> QED
    BY <1>3, <1>4, <2>1, <2>2
<1>10. \A d, v : Pending(d, v) => Pending(d, v)'
  BY <1>2, <1>8 DEF Pending
<1>11. \A d, v : Lifting(d, v) => Lifting(d, v)'
  BY <1>2, <1>8 DEF Lifting
<1>12. \A d, v : Assigning(d, v) => Assigning(d, v)'
  BY <1>1, <1>2, <1>8 DEF Assigning, Well, LiftAt, Revoking
<1>13. \A d \in to(f) : d \in Device /\ (Fresh(d, t) \/ Pending(d, t))
  BY <1>1, <1>2 DEF Ledger, WrittenRows, Written, Well, JobState
<1>14. DenialsLive'
  BY <1>2, <1>5, <1>7 DEF Ledger, DenialsLive
<1>15. ClearedRows'
  BY <1>2, <1>8, <1>9 DEF Ledger, ClearedRows, Fresh
<1>16. WrittenRows'
  <2> SUFFICES ASSUME NEW i \in Job, NEW d \in Device, NEW v \in User,
                      d \in Written(jobs'[i]), jobs'[i].user = v
               PROVE  Fresh(d, v)' \/ Pending(d, v)'
    BY DEF WrittenRows, Written
  <2>1. d \in Written(jobs[i]) /\ jobs[i].user = v
    BY <1>8, <1>9
  <2> QED
    BY <1>2, <1>10, <2>1 DEF Ledger, WrittenRows, Fresh
<1>17. Recorded'
  <2> SUFFICES ASSUME NEW d \in Device, NEW v \in User
               PROVE  lockDeny'[d][v] <= row'[d][v].exp \/ Pending(d, v)' \/ Lifting(d, v)'
    BY DEF Recorded
  <2>1. CASE d \in to(f) /\ v = t
    <3>1. lockDeny'[d][v] = now + TTL
      BY <1>7, <2>1
    <3>2. Fresh(d, v) => row'[d][v].exp = now + TTL
      BY <1>2 DEF Fresh
    <3> QED
      BY <1>5, <1>10, <1>13, <2>1, <3>1, <3>2
  <2>2. CASE ~(d \in to(f) /\ v = t)
    BY <1>2, <1>7, <1>10, <1>11, <2>2 DEF Ledger, Recorded
  <2> QED
    BY <2>1, <2>2
<1>18. Excused'
  <2> SUFFICES ASSUME NEW d \in Device, NEW v \in User, <<UnitOf[d], v>> \in assigned
               PROVE  \/ lockDeny'[d][v] = 0
                      \/ row'[d][v].source \in Lasting
                      \/ Pending(d, v)' \/ Assigning(d, v)'
    BY <1>2 DEF Excused
  <2>1. CASE d \in to(f) /\ v = t
    BY <1>2, <1>10, <1>13, <2>1 DEF Fresh
  <2>2. CASE ~(d \in to(f) /\ v = t)
    BY <1>2, <1>7, <1>10, <1>12, <2>2 DEF Ledger, Excused
  <2> QED
    BY <2>1, <2>2
<1> QED
  BY <1>14, <1>15, <1>16, <1>17, <1>18 DEF Ledger

(* An assignment that is lifting a denial is the one about that unit.       *)
LEMMA LiftingShape ==
  ASSUME TypeOK, Orderly, NEW d \in Device, NEW t \in User, NEW i \in Job,
         jobs[i].pc \in {"remove", "sendRemove"}, jobs[i].user = t, d \in jobs[i].targets
  PROVE  jobs[i].kind = "assigned" /\ jobs[i].unit = UnitOf[d]
  BY DEF Orderly, Well, Revoking, RevokeAt, PassAt, DevicesOf

(* An assignment looks for rows; when there is none, nothing is denied.     *)
LEMMA LedgerFind ==
  ASSUME TypeOK, Orderly, Ledger, NEW j \in Job, FindRows(j),
         NEW t \in User, t = jobs[j].user
  PROVE  Ledger'
<1> DEFINE s == jobs[j]
           ds == LiveRows(s.unit, t)
<1>1. s \in JobState /\ Well(s)
  BY DEF TypeOK, Orderly
<1>2. /\ s.pc = "find" /\ s.kind = "assigned"
      /\ UNCHANGED <<now, assigned, row, lockDeny>>
  BY <1>1 DEF FindRows, At, Well, RevokeAt, PassAt
<1>3. CASE ds # {}
  <2>1. PICK d \in ds : Become(j, [s EXCEPT !.pc = "filter", !.targets = ds, !.todo = ds,
                                         !.exp = row[d][t].exp])
    BY <1>3 DEF FindRows
  <2> DEFINE r == [s EXCEPT !.pc = "filter", !.targets = ds, !.todo = ds,
                            !.exp = row[d][t].exp]
  <2>2. r.pc = "filter" /\ r.kind = s.kind /\ r.user = t /\ r.unit = s.unit
    BY <1>1 DEF JobState
  <2>3. Become(j, r)
    BY <2>1
  <2> HIDE DEF r
  <2>4. Written(r) = {}
    BY <2>2 DEF Written
  <2> QED
    BY <1>2, <2>2, <2>3, <2>4, LedgerKept
<1>4. CASE ds = {}
  <2>1. Become(j, Idle)
    BY <1>4 DEF FindRows, Finish, Become
  <2>2. \A i \in Job : jobs'[i] = IF i = j THEN Idle ELSE jobs[i]
    BY <2>1, Becomes
  <2>3. Idle.pc = "idle" /\ Written(Idle) = {}
    BY IdleWell DEF Written
  <2>4. \A d, v : Pending(d, v) => Pending(d, v)'
    BY <1>2, <2>2 DEF Pending
  <2>5. \A d, v : Lifting(d, v) => Lifting(d, v)'
    BY <1>2, <2>2 DEF Lifting
  <2>6. DenialsLive'
    BY <1>2 DEF Ledger, DenialsLive
  <2>7. ClearedRows'
    BY <1>2, <2>2, <2>3 DEF Ledger, ClearedRows, Fresh
  <2>8. WrittenRows'
    <3> SUFFICES ASSUME NEW i \in Job, NEW d \in Device, NEW v \in User,
                        d \in Written(jobs'[i]), jobs'[i].user = v
                 PROVE  Fresh(d, v)' \/ Pending(d, v)'
      BY DEF WrittenRows, Written
    <3>1. jobs'[i] = jobs[i]
      BY <2>2, <2>3
    <3> QED
      BY <1>2, <2>4, <3>1 DEF Ledger, WrittenRows, Fresh
  <2>9. Recorded'
    BY <1>2, <2>4, <2>5 DEF Ledger, Recorded
  <2>10. Excused'
    <3> SUFFICES ASSUME NEW d \in Device, NEW v \in User, <<UnitOf[d], v>> \in assigned
                 PROVE  \/ lockDeny[d][v] = 0
                        \/ row[d][v].source \in Lasting
                        \/ Pending(d, v)' \/ Assigning(d, v)'
      BY <1>2 DEF Excused
    <3>1. CASE UnitOf[d] = s.unit /\ v = t
      <4>1. ~(row[d][v].exp > now)
        BY <1>4, <3>1 DEF LiveRows, DevicesOf
      <4>2. ~Lifting(d, v)
        <5> SUFFICES ASSUME NEW i \in Job, jobs[i].pc \in {"remove", "sendRemove"},
                            jobs[i].user = v, d \in jobs[i].targets
                     PROVE  FALSE
          BY DEF Lifting
        <5>1. jobs[i].kind = "assigned" /\ jobs[i].unit = UnitOf[d]
          BY LiftingShape
        <5>2. i # j
          BY <1>2
        <5> QED
          BY <1>2, <3>1, <5>1, <5>2 DEF Orderly, Meetings, MayMeet
      <4>3. lockDeny[d][v] <= row[d][v].exp => lockDeny[d][v] = 0
        BY <4>1 DEF Ledger, DenialsLive, TypeOK, Row, Time
      <4> QED
        BY <2>4, <4>2, <4>3 DEF Ledger, Recorded
    <3>2. CASE ~(UnitOf[d] = s.unit /\ v = t)
      <4>1. Assigning(d, v) => Assigning(d, v)'
        BY <2>2, <3>2 DEF Assigning
      <4> QED
        BY <2>4, <4>1 DEF Ledger, Excused
    <3> QED
      BY <3>1, <3>2
  <2> QED
    BY <2>6, <2>7, <2>8, <2>9, <2>10 DEF Ledger
<1> QED
  BY <1>3, <1>4

(* An assignment removes a row it found.                                    *)
LEMMA LedgerRemove ==
  ASSUME TypeOK, Orderly, Punctual, Ledger, NEW j \in Job, RemoveRow(j),
         NEW t \in User, t = jobs[j].user
  PROVE  Ledger'
<1> DEFINE s == jobs[j]
<1>1. s \in JobState /\ Well(s) /\ InTime(s)
  BY DEF TypeOK, Orderly, Punctual
<1>2. s.pc = "remove" /\ ~s.skip /\ UNCHANGED <<now, assigned, lockDeny>>
  BY <1>1 DEF RemoveRow, At, InTime
<1>3. PICK d0 \in s.todo : \E r :
        /\ row' = [row EXCEPT ![d0][t] = NoRow]
        /\ Become(j, r)
        /\ \/ r = [s EXCEPT !.pc = "sendRemove", !.todo = {}]
           \/ r = [s EXCEPT !.todo = s.todo \ {d0}]
  BY <1>2 DEF RemoveRow
<1>4. PICK r :
        /\ row' = [row EXCEPT ![d0][t] = NoRow]
        /\ Become(j, r)
        /\ \/ r = [s EXCEPT !.pc = "sendRemove", !.todo = {}]
           \/ r = [s EXCEPT !.todo = s.todo \ {d0}]
  BY <1>3
<1>5. /\ r.pc \in {"remove", "sendRemove"} /\ r.targets = s.targets
      /\ r.user = t /\ r.kind = s.kind /\ r.unit = s.unit
  BY <1>1, <1>2, <1>3, <1>4 DEF JobState
<1>6. d0 \in Device /\ d0 \in s.targets /\ s.kind = "assigned" /\ s.unit = UnitOf[d0]
  BY <1>1, <1>2, LiftingShape DEF JobState, Well
<1>7. \A i \in Job : jobs'[i] = IF i = j THEN r ELSE jobs[i]
  BY <1>3, <1>4, Becomes
<1>8. \A e \in Device, v \in User :
        row'[e][v] = IF e = d0 /\ v = t THEN NoRow ELSE row[e][v]
  BY <1>3, <1>4, <1>6 DEF TypeOK
<1>9. \A d, v : Pending(d, v) => Pending(d, v)'
  BY <1>2, <1>7 DEF Pending
<1>10. Lifting(d0, t)' /\ \A d, v : Lifting(d, v) => Lifting(d, v)'
  BY <1>5, <1>6, <1>7 DEF Lifting
<1>11. Assigning(d0, t)' /\ \A d, v : Assigning(d, v) => Assigning(d, v)'
  BY <1>5, <1>6, <1>7 DEF Assigning
<1>12. \A d \in Device, v \in User :
         (d # d0 \/ v # t) /\ Fresh(d, v) => Fresh(d, v)'
  BY <1>2, <1>8 DEF Fresh
<1>13. DenialsLive'
  BY <1>2 DEF Ledger, DenialsLive
<1>14. ClearedRows'
  <2> SUFFICES ASSUME NEW i \in Job, NEW d \in Device, NEW v \in User,
                      jobs'[i].pc = "insert", jobs'[i].user = v, d \in jobs'[i].cur
               PROVE  row'[d][v] = NoRow \/ Fresh(d, v)'
    BY DEF ClearedRows
  <2>1. row[d][v] = NoRow \/ Fresh(d, v)
    BY <1>5, <1>7 DEF Ledger, ClearedRows
  <2> QED
    BY <1>8, <1>12, <2>1
<1>15. WrittenRows'
  <2> SUFFICES ASSUME NEW i \in Job, NEW d \in Device, NEW v \in User,
                      d \in Written(jobs'[i]), jobs'[i].user = v
               PROVE  Fresh(d, v)' \/ Pending(d, v)'
    BY DEF WrittenRows, Written
  <2>1. i # j /\ jobs'[i] = jobs[i]
    BY <1>5, <1>7 DEF Written
  <2>2. d # d0 \/ v # t
    <3> SUFFICES ASSUME d = d0, v = t PROVE FALSE
      OBVIOUS
    <3>1. /\ Well(jobs[i]) /\ d \in jobs[i].targets
          /\ jobs[i].pc \in {"clear", "insert", "reread", "sendAdd"}
      BY <2>1 DEF Written, Orderly
    <3>2. jobs[i].kind \in Revoking
      BY <3>1 DEF Well, LiftAt, PassAt
    <3>3. jobs[i].unit # s.unit /\ jobs[i].kind # "deactivated"
      BY <1>6, <2>1, <3>2 DEF Orderly, Meetings, MayMeet
    <3> QED
      BY <1>6, <3>1, <3>3 DEF Well, DevicesOf
  <2>3. Fresh(d, v) \/ Pending(d, v)
    BY <2>1 DEF Ledger, WrittenRows
  <2> QED
    BY <1>9, <1>12, <2>2, <2>3
<1>16. Recorded'
  BY <1>2, <1>8, <1>9, <1>10 DEF Ledger, Recorded
<1>17. Excused'
  BY <1>2, <1>8, <1>9, <1>11 DEF Ledger, Excused
<1> QED
  BY <1>13, <1>14, <1>15, <1>16, <1>17 DEF Ledger

(* An assignment has the denial lifted.                                     *)
LEMMA LedgerLift ==
  ASSUME TypeOK, Orderly, Online, Ledger, NEW j \in Job, SendRemove(j),
         NEW t \in User, t = jobs[j].user
  PROVE  Ledger'
<1> DEFINE s == jobs[j]
<1>1. s \in JobState /\ Well(s)
  BY DEF TypeOK, Orderly
<1>2. /\ s.pc = "sendRemove" /\ s.kind = "assigned"
      /\ UNCHANGED <<now, assigned, row, connected>>
  BY <1>1 DEF SendRemove, At, Well, RevokeAt, PassAt
<1>3. \A d \in Device, v \in User :
        lockDeny'[d][v] = IF d \in s.targets /\ v = t THEN 0 ELSE lockDeny[d][v]
  <2>1. FacilityOf[s.unit] \in connected
    BY <1>1 DEF Online, JobState
  <2> QED
    BY <2>1 DEF SendRemove, Unicast, TypeOK
<1>4. \A i \in Job : jobs'[i] = IF i = j THEN Idle ELSE jobs[i]
  BY Becomes DEF SendRemove, Finish, Become
<1>5. Idle.pc = "idle" /\ Written(Idle) = {}
  BY IdleWell DEF Written
<1>6. \A d, v : Pending(d, v) => Pending(d, v)'
  BY <1>2, <1>4 DEF Pending
<1>7. \A d, v : Lifting(d, v) => Lifting(d, v)' \/ (d \in s.targets /\ v = t)
  BY <1>4 DEF Lifting
<1>8. \A d \in Device : UnitOf[d] = s.unit => d \in s.targets
  <2>1. PICK e \in s.targets : TRUE
    BY <1>1, <1>2 DEF Well
  <2>2. e \in Device /\ UnitOf[e] = s.unit
    BY <1>1, <1>2 DEF Well, DevicesOf
  <2> QED
    BY <2>1, <2>2, OneLockPerUnit
<1>9. DenialsLive'
  BY <1>2, <1>3 DEF Ledger, DenialsLive
<1>10. ClearedRows'
  BY <1>2, <1>4, <1>5 DEF Ledger, ClearedRows, Fresh
<1>11. WrittenRows'
  <2> SUFFICES ASSUME NEW i \in Job, NEW d \in Device, NEW v \in User,
                      d \in Written(jobs'[i]), jobs'[i].user = v
               PROVE  Fresh(d, v)' \/ Pending(d, v)'
    BY DEF WrittenRows, Written
  <2>1. jobs'[i] = jobs[i]
    BY <1>4, <1>5
  <2> QED
    BY <1>2, <1>6, <2>1 DEF Ledger, WrittenRows, Fresh
<1>12. Recorded'
  <2>1. \A d \in Device, v \in User : 0 <= row[d][v].exp
    BY DEF TypeOK, Row, Time
  <2> QED
    BY <1>2, <1>3, <1>6, <1>7, <2>1 DEF Ledger, Recorded
<1>13. Excused'
  <2> SUFFICES ASSUME NEW d \in Device, NEW v \in User, <<UnitOf[d], v>> \in assigned
               PROVE  \/ lockDeny'[d][v] = 0
                      \/ row[d][v].source \in Lasting
                      \/ Pending(d, v)' \/ Assigning(d, v)'
    BY <1>2 DEF Excused
  <2>1. Assigning(d, v) => Assigning(d, v)' \/ (d \in s.targets /\ v = t)
    BY <1>4, <1>8 DEF Assigning
  <2> QED
    BY <1>3, <1>6, <2>1 DEF Ledger, Excused
<1> QED
  BY <1>9, <1>10, <1>11, <1>12, <1>13 DEF Ledger

(* The other steps of handlers.                                             *)
LEMMA LedgerJob ==
  ASSUME TypeOK, Orderly, Punctual, Online, LockoutBounded, Ledger, NEW j \in Job, JobStep(j)
  PROVE  Ledger'
<1> DEFINE s == jobs[j]
<1>1. s \in JobState /\ Well(s)
  BY DEF TypeOK, Orderly
<1>2. PICK t \in User : t = jobs[j].user
  BY <1>1 DEF JobState
<1>3. CASE \/ ClearRow(j) \/ InsertRow(j) \/ ReadBack(j) \/ SendAdd(j)
          \/ FindRows(j) \/ RemoveRow(j) \/ SendRemove(j)
  BY <1>2, <1>3, LedgerClear, LedgerInsert, LedgerReadBack, LedgerSend, LedgerFind,
     LedgerRemove, LedgerLift
<1>4. CASE ReadDevices(j)
  <2> DEFINE ds == IF s.kind = "deactivated" THEN AssignedDevices(s.user)
                                             ELSE DevicesOf(s.unit)
             r == [s EXCEPT !.pc = "check", !.targets = ds, !.todo = ds,
                            !.exp = ExpirationDate]
  <2>1. /\ s.pc = "devices" /\ s.kind # "assigned"
        /\ UNCHANGED <<now, assigned, row, lockDeny>>
        /\ Become(j, Idle) \/ Become(j, r)
    BY <1>1, <1>4 DEF ReadDevices, At, Well, Revoking, LiftAt, Finish, Become
  <2>2. r.pc = "check"
    BY <1>1 DEF JobState
  <2> HIDE DEF r
  <2>3. Written(r) = {} /\ Written(Idle) = {} /\ Idle.pc = "idle"
    BY <2>2, IdleWell DEF Written
  <2> QED
    BY <2>1, <2>2, <2>3, LedgerKept
<1>5. CASE CheckPass(j)
  <2> DEFINE r(b) == [s EXCEPT !.pc = "clear", !.skip = b,
                               !.exp = IF s.kind = "share_revoked"
                                         THEN s.exp ELSE ExpirationDate]
  <2>1. PICK b \in BOOLEAN : Become(j, r(b))
    BY <1>5 DEF CheckPass
  <2>2. /\ s.pc = "check" /\ s.kind # "assigned" /\ s.todo = s.targets
        /\ UNCHANGED <<now, assigned, row, lockDeny>>
    BY <1>1, <1>5 DEF CheckPass, At, Well, Revoking, LiftAt
  <2>3. r(b).pc = "clear" /\ r(b).todo = s.todo /\ r(b).targets = s.targets
    BY <1>1 DEF JobState
  <2> HIDE DEF r
  <2>4. Written(r(b)) = {}
    BY <2>2, <2>3 DEF Written
  <2> QED
    BY <2>1, <2>2, <2>3, <2>4, LedgerKept
<1>6. CASE FilterRows(j)
  <2> DEFINE r == [s EXCEPT !.pc = "remove", !.skip = RowExpired(s.exp)]
  <2>1. /\ s.pc = "filter" /\ Become(j, r)
        /\ UNCHANGED <<now, assigned, row, lockDeny>>
    BY <1>6 DEF FilterRows, At
  <2>2. r.pc = "remove" /\ r.kind = s.kind /\ r.user = s.user /\ r.unit = s.unit
    BY <1>1 DEF JobState
  <2> HIDE DEF r
  <2>3. Written(r) = {}
    BY <2>2 DEF Written
  <2> QED
    BY <2>1, <2>2, <2>3, LedgerKept
<1>7. CASE ResolveAudiences(j) \/ SignPass(j) \/ LogAndRespond(j)
  <2>1. /\ s.pc \in PassAt /\ s.kind # "assigned"
        /\ UNCHANGED <<now, assigned, row, lockDeny>>
    BY <1>1, <1>7 DEF ResolveAudiences, SignPass, LogAndRespond, At, Well, Revoking,
       RevokeAt, LiftAt, PassAt
  <2>2. PICK r : Become(j, r) /\ r.pc \in {"sign", "log", "idle"}
    <3>1. CASE ResolveAudiences(j)
      <4> DEFINE r == [s EXCEPT !.pc = "sign", !.targets = AssignedDevices(s.user)]
      <4>1. r.pc = "sign" /\ Become(j, r)
        BY <1>1, <3>1 DEF ResolveAudiences, JobState
      <4> HIDE DEF r
      <4> QED
        BY <4>1
    <3>2. CASE SignPass(j)
      <4> DEFINE r == [s EXCEPT !.pc = "log", !.exp = now + TTL]
      <4>1. r.pc = "log" /\ Become(j, r)
        BY <1>1, <3>2 DEF SignPass, JobState
      <4> HIDE DEF r
      <4> QED
        BY <4>1
    <3>3. CASE LogAndRespond(j)
      BY <3>3, IdleWell DEF LogAndRespond, Finish, Become
    <3> QED
      BY <1>7, <3>1, <3>2, <3>3
  <2>3. Written(r) = {}
    BY <2>2 DEF Written
  <2> QED
    BY <2>1, <2>2, <2>3, LedgerKept DEF PassAt
<1> QED
  BY <1>3, <1>4, <1>5, <1>6, <1>7 DEF JobStep

LEMMA LedgerStep ==
  ASSUME TypeOK, Undisturbed, Orderly, Punctual, Online, LockoutBounded, Ledger,
         [Next]_vars
  PROVE  Ledger'
<1>1. CASE Operation
  BY <1>1, Mildness, LedgerStart
<1>2. CASE \E j \in Job : JobStep(j)
  BY <1>2, LedgerJob
<1>3. CASE Tick
  <2>1. /\ \A j \in Job : jobs[j].kind = "idle"
        /\ UNCHANGED <<jobs, assigned, row>> /\ now' = now + 1 /\ now \in Nat
    BY <1>3 DEF Tick, Undisturbed, AllIdle, TypeOK
  <2>2. \A j \in Job : jobs[j].pc = "idle"
    BY <2>1 DEF Orderly, Well, Revoking
  <2>3. \A d \in Device, t \in User :
          lockDeny'[d][t] = IF lockDeny[d][t] > now + 1 THEN lockDeny[d][t] ELSE 0
    BY <1>3 DEF Tick
  <2>4. DenialsLive'
    BY <2>1, <2>3 DEF DenialsLive
  <2>5. ClearedRows' /\ WrittenRows'
    BY <2>1, <2>2 DEF ClearedRows, WrittenRows, Written
  <2>6. \A d, t : ~Pending(d, t) /\ ~Lifting(d, t) /\ ~Assigning(d, t)
    BY <2>1, <2>2 DEF Pending, Lifting, Assigning
  <2>7. \A d \in Device, t \in User : 0 <= row[d][t].exp
    BY DEF TypeOK, Row, Time
  <2>8. Recorded'
    BY <2>1, <2>3, <2>6, <2>7 DEF Ledger, Recorded
  <2>9. Excused'
    BY <2>1, <2>3, <2>6 DEF Ledger, Excused
  <2> QED
    BY <2>4, <2>5, <2>8, <2>9 DEF Ledger
<1>4. CASE Prune
  <2>1. /\ UNCHANGED <<now, assigned, lockDeny, jobs>>
        /\ now \in Nat
        /\ \A d \in Device, t \in User :
             row'[d][t] = IF row[d][t].exp <= now THEN NoRow ELSE row[d][t]
    BY <1>4 DEF Prune, TypeOK
  <2>2. /\ \A d, t : Pending(d, t)' <=> Pending(d, t)
        /\ \A d, t : Lifting(d, t)' <=> Lifting(d, t)
        /\ \A d, t : Assigning(d, t)' <=> Assigning(d, t)
    BY <2>1 DEF Pending, Lifting, Assigning
  <2>3. \A d \in Device, t \in User : Fresh(d, t) => Fresh(d, t)'
    BY <2>1 DEF Fresh
  <2>4. DenialsLive'
    BY <2>1 DEF Ledger, DenialsLive
  <2>5. ClearedRows'
    BY <2>1, <2>3 DEF Ledger, ClearedRows
  <2>6. WrittenRows'
    BY <2>1, <2>2, <2>3 DEF Ledger, WrittenRows, Written
  <2>7. \A d \in Device, t \in User :
          /\ lockDeny[d][t] \in Nat /\ row[d][t].exp \in Nat
          /\ lockDeny[d][t] <= row[d][t].exp /\ row[d][t].exp <= now => lockDeny[d][t] = 0
    BY <2>1 DEF Ledger, DenialsLive, TypeOK, Row, Time
  <2>8. Recorded'
    BY <2>1, <2>2, <2>7 DEF Ledger, Recorded, NoRow
  <2>9. Excused'
    <3> SUFFICES ASSUME NEW d \in Device, NEW t \in User, <<UnitOf[d], t>> \in assigned
                 PROVE  \/ lockDeny[d][t] = 0
                        \/ row'[d][t].source \in Lasting
                        \/ Pending(d, t) \/ Assigning(d, t)
      BY <2>1, <2>2 DEF Excused
    <3>1. Lifting(d, t) => Assigning(d, t)
      BY LiftingShape DEF Lifting, Assigning
    <3> QED
      BY <2>1, <2>7, <3>1 DEF Ledger, Excused, Recorded
  <2> QED
    BY <2>4, <2>5, <2>6, <2>8, <2>9 DEF Ledger
<1>5. CASE Account \/ UNCHANGED vars
  <2>1. UNCHANGED <<now, assigned, lockDeny, row, jobs>>
    BY <1>5 DEF Account, SetActive, Login, SessionExpires, vars
  <2> QED
    BY <2>1 DEF Ledger, DenialsLive, ClearedRows, WrittenRows, Recorded, Excused,
       Fresh, Pending, Lifting, Assigning, Written
<1>6. ~Restart /\ (\A j \in Job : ~JobFails(j))
      /\ \A f \in Facility : ~GatewayConnects(f) /\ ~GatewayCloses(f)
  BY DEF Undisturbed, Restart, JobFails, GatewayConnects, GatewayCloses, Online
<1> QED
  BY <1>1, <1>2, <1>3, <1>4, <1>5, <1>6 DEF Next, Environment

(* With no handler about a lock and a user in flight, nothing is pending.   *)
LEMMA QuietSettled ==
  ASSUME TypeOK, Orderly, NEW d \in Device, NEW t \in User, Quiet(d, t)
  PROVE  ~Pending(d, t) /\ ~Lifting(d, t) /\ ~Assigning(d, t)
<1>1. \A i \in Job : jobs[i].kind \in Revoking \cup {"assigned"} /\ jobs[i].user = t =>
        jobs[i].unit # UnitOf[d] /\ jobs[i].kind # "deactivated"
  BY DEF Quiet, Busy
<1>2. ~Pending(d, t)
  <2> SUFFICES ASSUME NEW i \in Job, jobs[i].pc = "insert", jobs[i].user = t,
                      d \in jobs[i].cur
               PROVE  FALSE
    BY DEF Pending
  <2>1. jobs[i].kind \in Revoking /\ Well(jobs[i])
    BY DEF Orderly, Well, LiftAt, PassAt
  <2> QED
    BY <1>1, <2>1 DEF Well, DevicesOf
<1>3. ~Lifting(d, t)
  BY <1>1, LiftingShape DEF Lifting
<1>4. ~Assigning(d, t)
  BY <1>1 DEF Assigning
<1> QED
  BY <1>2, <1>3, <1>4

(* What the two theorems on rows and denials rest on.                       *)
Booked == TypeOK /\ LockoutBounded /\ Orderly /\ Punctual /\ Online /\ Ledger

LEMMA BookedAlways == ASSUME Undisturbed PROVE Spec => []Booked
<1>1. Init => Orderly /\ Punctual /\ Online /\ Ledger
  BY OrderlyInitially, LedgerInitially
<1>2. Booked /\ [Next]_vars => Orderly' /\ Punctual' /\ Online' /\ Ledger'
  <2>1. Separate /\ Prompt /\ Faults \cap {"disconnect", "crash"} = {}
    BY Mildness DEF Undisturbed
  <2> QED
    BY <2>1, OrderlyStep, OnlineStep, LedgerStep DEF Booked
<1> QED
  BY <1>1, <1>2, TypeCorrect, LockoutCorrect, PTL DEF Spec, Booked

(* However the revocations of a user meet and whatever passes are requested *)
(* meanwhile, a lock that denies a user is backed by a row that lives as    *)
(* long, as soon as the handlers about them are done: the next assignment   *)
(* finds it.                                                                *)
THEOREM DenialsRecorded == ASSUME Undisturbed PROVE Spec => []DenialRecorded
<1>1. Booked => DenialRecorded
  BY QuietSettled DEF Booked, DenialRecorded, Ledger, Recorded
<1> QED
  BY <1>1, BookedAlways, PTL

(* Nor is anyone who has the unit locked out on account of an earlier       *)
(* unassignment.                                                            *)
THEOREM ReassignedServed == ASSUME Undisturbed PROVE Spec => []ReassignedNotDenied
<1>1. Booked => ReassignedNotDenied
  <2> SUFFICES ASSUME Booked, NEW d \in Device, NEW t \in User,
                      <<UnitOf[d], t>> \in assigned, Quiet(d, t),
                      row[d][t].source \in {"unit_unassignment", "none"}
               PROVE  lockDeny[d][t] = 0
    BY DEF ReassignedNotDenied
  <2>1. ~Pending(d, t) /\ ~Assigning(d, t)
    BY QuietSettled DEF Booked
  <2> QED
    BY <2>1 DEF Booked, Ledger, Excused, Lasting
<1> QED
  BY <1>1, BookedAlways, PTL

(* Whatever fails, restarts or is cut off, a denial ends before its time    *)
(* only for a user who has the unit.                                        *)
THEOREM LiftsAreForAssigned ==
  ASSUME Separate, Prompt PROVE Spec => LiftedOnlyForAssigned
<1>1. TypeOK /\ Orderly /\ Punctual /\ [Next]_vars =>
        [\A d \in Device, t \in User :
           lockDeny[d][t] > now' /\ lockDeny'[d][t] = 0
             => <<UnitOf[d], t>> \in assigned]_vars
  <2> SUFFICES ASSUME TypeOK, Orderly, Punctual, Next, NEW d \in Device, NEW t \in User,
                      lockDeny[d][t] > now', lockDeny'[d][t] = 0
               PROVE  <<UnitOf[d], t>> \in assigned
    OBVIOUS
  <2>1. CASE Operation \/ Account
    <3>1. UNCHANGED <<now, lockDeny>>
      BY <2>1 DEF Operation, AssignTenant, UnassignTenant, RevokeSharing, DeactivateUser,
         RequestPass, Account, SetActive, Login, SessionExpires
    <3> QED
      BY <3>1 DEF TypeOK
  <2>2. CASE Environment
    <3>1. CASE Tick
      BY <3>1 DEF Tick, TypeOK, Time
    <3>2. CASE ~Tick
      BY <2>2, <3>2 DEF Environment, Prune, Restart, JobFails, GatewayConnects,
         GatewayCloses, TypeOK, Time
    <3> QED
      BY <3>1, <3>2
  <2>3. CASE \E j \in Job : JobStep(j)
    <3>1. PICK j \in Job : JobStep(j)
      BY <2>3
    <3> DEFINE s == jobs[j]
    <3>2. /\ s \in JobState /\ Well(s) /\ InTime(s) /\ Current(s)
          /\ lockDeny'[d][t] # lockDeny[d][t]
      BY <3>1, HandlerFrame DEF Orderly, Punctual, TypeOK, Time
    <3>3. CASE SendAdd(j)
      <4>1. s.exp > now
        BY <3>2, <3>3 DEF SendAdd, At, InTime, TypeOK
      <4>2. PICK f, ds : Unicast(f, ds, s.user, s.exp)
        BY <3>3, <4>1 DEF SendAdd
      <4>3. CASE f \notin connected
        BY <3>2, <4>2, <4>3 DEF Unicast
      <4>4. CASE f \in connected
        <5>1. lockDeny'[d] = IF d \in ds THEN [lockDeny[d] EXCEPT ![s.user] = s.exp]
                                         ELSE lockDeny[d]
          BY <4>2, <4>4 DEF Unicast
        <5>2. lockDeny'[d][t] = s.exp
          BY <3>2, <5>1 DEF TypeOK
        <5> QED
          BY <4>1, <5>2 DEF TypeOK
      <4> QED
        BY <4>3, <4>4
    <3>4. CASE SendRemove(j)
      <4>1. d \in s.targets /\ s.user = t
        BY <3>2, <3>4 DEF SendRemove, Unicast, TypeOK
      <4>2. s.pc = "sendRemove"
        BY <3>4 DEF SendRemove, At
      <4> QED
        BY <3>2, <4>1, <4>2, LiftingShape DEF Current
    <3>5. CASE ~SendAdd(j) /\ ~SendRemove(j)
      BY <3>1, <3>2, <3>5 DEF JobStep, ReadDevices, CheckPass, ClearRow, InsertRow, ReadBack,
         FindRows, FilterRows, RemoveRow, ResolveAudiences, SignPass, LogAndRespond
    <3> QED
      BY <3>3, <3>4, <3>5
  <2> QED
    BY <2>1, <2>2, <2>3 DEF Next
<1>2. Init => Orderly /\ Punctual
  BY OrderlyInitially
<1>3. TypeOK /\ Orderly /\ Punctual /\ [Next]_vars => Orderly' /\ Punctual'
  BY OrderlyStep
<1> QED
  BY <1>1, <1>2, <1>3, TypeCorrect, PTL DEF Spec, LiftedOnlyForAssigned

-----------------------------------------------------------------------------
(* Passes in hand, and who sees to it that revoked ones are shut out.       *)

(* No deactivation meets another kind of revocation of its user, and none   *)
(* has missed a lock.                                                       *)
Unclashed ==
  /\ \A j \in Job : Whole(jobs[j])
  /\ \A i, j \in Job :
       /\ jobs[i].kind = "deactivated" /\ jobs[j].kind \in Revoking
       /\ jobs[i].user = jobs[j].user
       => jobs[j].kind = "deactivated"

(* The locks a revocation is going to read.                                 *)
About(s) == IF s.kind = "deactivated" THEN AssignedDevices(s.user)
                                      ELSE DevicesOf(s.unit)

(* The revocation will die: on a row that another one has inserted, or      *)
(* because the row it has inserted is gone.                                 *)
Doomed(j) ==
  \E d \in jobs[j].cur :
    \/ jobs[j].pc = "insert" /\ row[d][jobs[j].user] # NoRow
    \/ jobs[j].pc = "reread" /\ row[d][jobs[j].user].by # {j}

(* The revocation is going to have the lock told.                           *)
Carries(j, d) ==
  LET s == jobs[j]
  IN  \/ s.pc = "devices" /\ d \in About(s)
      \/ s.pc = "check" /\ d \in s.targets
      \/ /\ s.pc \in {"clear", "insert", "reread"} /\ d \in s.targets
         /\ ~s.skip /\ ~Doomed(j)
      \/ s.pc = "sendAdd" /\ d \in s.todo

(* What a revocation finds when it reads its row back is what it inserted.  *)
OwnRows ==
  \A j \in Job, d \in Device :
    /\ jobs[j].pc = "reread" /\ d \in jobs[j].cur
    /\ row[d][jobs[j].user].by = {j}
    => row[d][jobs[j].user].exp = jobs[j].exp

(* A pass in hand, or revoked: no longer than one signed now, and logged.   *)
Valid(t, exp) == now < exp /\ exp <= now + TTL /\ exp <= lastExp[t]

PassesLogged == \A p \in passes : Valid(p.user, p.exp)
CutsLogged == \A c \in cut : Valid(c.user, c.exp)

(* No pass of a user is being issued while a revocation reads the log.      *)
PassesApart ==
  \A i, j \in Job :
    jobs[i].kind = "pass" /\ jobs[j].kind \in Revoking => jobs[i].user # jobs[j].user

(* A revocation sends no command only if there is nothing to shut out.      *)
SkipsJustified ==
  \A j \in Job, t \in User :
    jobs[j].kind \in Revoking /\ jobs[j].skip /\ jobs[j].user = t =>
      (\A p \in passes : p.user # t) /\ (\A c \in cut : c.user # t)

(* A denial that is being decided outlives every pass of its user.          *)
Outlasting ==
  \A j \in Job : jobs[j].pc \in Deciding =>
    /\ \A p \in passes : p.user = jobs[j].user => p.exp <= jobs[j].exp
    /\ \A c \in cut : c.user = jobs[j].user => c.exp <= jobs[j].exp

(* A denial that an assignment lifts shuts out nothing that was revoked.    *)
AssigningUncut ==
  \A j \in Job : jobs[j].kind = "assigned" =>
    \A c \in cut : ~(c.user = jobs[j].user /\ UnitOf[c.device] = jobs[j].unit)

Foreseen ==
  /\ PassesLogged /\ CutsLogged /\ PassesApart
  /\ SkipsJustified /\ Outlasting /\ AssigningUncut

Promised ==
  \A c \in cut :
    \/ ShutOut(c)
    \/ \E j \in Job : jobs[j].user = c.user /\ Carries(j, c.device)

LEMMA ForeseenInitially == Init => Unclashed /\ OwnRows /\ Foreseen /\ Promised
  BY IdleWell DEF Init, Unclashed, OwnRows, Foreseen, Promised, PassesLogged, CutsLogged,
     PassesApart, SkipsJustified, Outlasting, AssigningUncut, Revoking

(* What a handler's record turns into.                                      *)
LEMMA Turns ==
  ASSUME TypeOK, Orderly, NEW j \in Job, JobStep(j)
  PROVE  /\ \A i \in Job : i # j => jobs'[i] = jobs[i]
         /\ Whole(jobs[j]) => Whole(jobs'[j])
         /\ jobs'[j].pc \in Deciding =>
              \/ jobs'[j].exp = now + TTL
              \/ jobs'[j].exp = jobs[j].exp /\ jobs[j].pc \in Deciding
         /\ \/ jobs'[j] = Idle
            \/ /\ jobs'[j].kind = jobs[j].kind /\ jobs'[j].user = jobs[j].user
               /\ jobs'[j].unit = jobs[j].unit
         /\ jobs'[j].pc = "reread" => InsertRow(j)
         /\ CheckPass(j) \/ jobs[j].kind = "assigned" \/ (jobs'[j].skip => jobs[j].skip)
<1>1. PICK r : /\ Become(j, r) /\ Well(r)
               /\ InTime(jobs[j]) => InTime(r)
               /\ Whole(jobs[j]) => Whole(r)
               /\ r.pc \in Deciding =>
                    \/ r.exp = now + TTL
                    \/ r.exp = jobs[j].exp /\ jobs[j].pc \in Deciding
               /\ \/ r = Idle
                  \/ r.kind = jobs[j].kind /\ r.user = jobs[j].user /\ r.unit = jobs[j].unit
               /\ r.pc = "reread" => InsertRow(j)
  BY WellStep DEF Orderly
<1>2. SoleFinder
  BY DEF SoleFinder, Orderly, Well, RevokeAt, PassAt
<1>3. PICK q : /\ Become(j, q)
               /\ CheckPass(j) \/ jobs[j].kind = "assigned" \/ (q.skip => jobs[j].skip)
  BY <1>2, JobStepShape
<1>4. jobs'[j] = r /\ jobs'[j] = q /\ \A i \in Job : i # j => jobs'[i] = jobs[i]
  BY <1>1, <1>3, Becomes
<1> QED
  BY <1>1, <1>3, <1>4

(* Who waits for whom, in addition.                                         *)
LEMMA PacedWaits ==
  ASSUME Paced, NEW t \in User
  PROVE  /\ \A kinds : NoClash(kinds, t) => \A i \in Job :
              jobs[i].kind \in kinds => jobs[i].user # t
         /\ \A u : MayRevoke(t, u) => \A i \in Job :
              jobs[i].kind = "pass" => jobs[i].user # t
         /\ MayRequest(t) => \A i \in Job :
              jobs[i].kind \in Revoking => jobs[i].user # t
  BY DEF Paced, NoClash, MayRevoke, MayRequest, NoneOf

LEMMA PacedMeans == Paced => Separate /\ Faults \cap {"disconnect", "crash"} = {}
  BY Mildness DEF Paced

LEMMA UnclashedStep ==
  ASSUME TypeOK, Paced, Orderly, Unclashed, [Next]_vars
  PROVE  Unclashed'
<1>1. CASE Operation
  <2>1. PICK j \in Job, t \in User : \E k, p, u : Starts(k, p, j, t, u)
    BY <1>1, OperationStarts
  <2>2. PICK k, p, u : Starts(k, p, j, t, u)
    BY <2>1
  <2> DEFINE r == Started(k, p, t, u)
  <2>3. /\ jobs[j].kind = "idle"
        /\ \A i \in Job : jobs'[i] = IF i = j THEN r ELSE jobs[i]
    BY <2>2, Begins DEF Starts
  <2>4. r.kind = k /\ r.pc = p /\ r.user = t /\ r.unit = u
    BY StartedShape
  <2> HIDE DEF r
  <2>5. /\ k = "assigned" => u \in Unit /\ MayAssign(t, u)
        /\ k \in {"unassigned", "share_revoked"} => NoClash({"deactivated"}, t)
        /\ k = "deactivated" => NoClash({"unassigned", "share_revoked"}, t)
        /\ p \in {"find", "devices", "audience"}
        /\ \/ k = "assigned" /\ assigned' = assigned \cup {<<u, t>>}
           \/ k = "unassigned" /\ assigned' = assigned \ {<<u, t>>}
           \/ assigned' = assigned
    BY <2>2 DEF Starts
  <2>6. ASSUME NEW i \in Job, i # j, jobs[i].kind = "deactivated"
        PROVE  /\ k \in {"assigned", "unassigned", "share_revoked"} => jobs[i].user # t
               /\ AssignedDevices(jobs[i].user)' = AssignedDevices(jobs'[i].user)
    <3>1. k \in {"assigned", "unassigned", "share_revoked"} => jobs[i].user # t
      BY <2>5, <2>6, PacedMeans, PacedWaits, Waited DEF Revoking
    <3> QED
      BY <2>3, <2>5, <2>6, <3>1 DEF AssignedDevices
  <2>7. \A i \in Job : Whole(jobs[i])'
    <3> SUFFICES ASSUME NEW i \in Job, jobs'[i].kind = "deactivated",
                        jobs'[i].pc \in Deciding
                 PROVE  jobs'[i].targets = AssignedDevices(jobs[i].user)'
      BY DEF Whole
    <3>1. i # j /\ jobs'[i] = jobs[i]
      BY <2>3, <2>4, <2>5 DEF Deciding
    <3>2. jobs[i].targets = AssignedDevices(jobs[i].user)
      BY <3>1 DEF Unclashed, Whole
    <3>3. k \in {"assigned", "unassigned"} => jobs[i].user # t
      BY <2>6, <3>1
    <3> QED
      BY <2>5, <3>1, <3>2, <3>3 DEF AssignedDevices
  <2>8. ASSUME NEW i \in Job, NEW l \in Job, jobs'[i].kind = "deactivated",
               jobs'[l].kind \in Revoking, jobs'[i].user = jobs'[l].user
        PROVE  jobs'[l].kind = "deactivated"
    <3>1. CASE i # j /\ l # j
      BY <2>3, <2>8, <3>1 DEF Unclashed
    <3>2. CASE i = j
      BY <2>3, <2>4, <2>5, <2>8, <3>2, PacedWaits DEF Revoking
    <3>3. CASE i # j /\ l = j
      BY <2>3, <2>4, <2>5, <2>8, <3>3, PacedWaits DEF Revoking
    <3> QED
      BY <3>1, <3>2, <3>3
  <2> QED
    BY <2>7, <2>8 DEF Unclashed
<1>2. CASE \E j \in Job : JobStep(j)
  <2>1. PICK j \in Job : JobStep(j)
    BY <1>2
  <2>2. /\ \A i \in Job : i # j => jobs'[i] = jobs[i]
        /\ Whole(jobs[j]) => Whole(jobs'[j])
        /\ \/ jobs'[j] = Idle
           \/ jobs'[j].kind = jobs[j].kind /\ jobs'[j].user = jobs[j].user
    BY <2>1, Turns
  <2>3. \A i \in Job : Whole(jobs'[i])
    BY <2>2 DEF Unclashed
  <2>4. assigned' = assigned
    BY <2>1, HandlerFrame
  <2> QED
    BY <2>2, <2>3, <2>4, IdleWell DEF Unclashed, Whole, AssignedDevices, Revoking
<1>3. CASE Account \/ Environment \/ UNCHANGED vars
  <2>1. jobs' = jobs /\ assigned' = assigned
    BY <1>3 DEF Account, SetActive, Login, SessionExpires, Environment, Tick, Prune,
       Restart, JobFails, GatewayConnects, GatewayCloses, Paced, vars
  <2> QED
    BY <2>1 DEF Unclashed, Whole, AssignedDevices
<1> QED
  BY <1>1, <1>2, <1>3 DEF Next

(* Only a row of its own carries the id a revocation looks for.             *)
LEMMA OwnRowsStep ==
  ASSUME TypeOK, Orderly, OwnRows, [Next]_vars
  PROVE  OwnRows'
<1>1. CASE Operation
  <2>1. PICK j \in Job, t \in User : \E k, p, u : Starts(k, p, j, t, u)
    BY <1>1, OperationStarts
  <2>2. PICK k, p, u : Starts(k, p, j, t, u)
    BY <2>1
  <2>3. \A i \in Job : jobs'[i] = IF i = j THEN Started(k, p, t, u) ELSE jobs[i]
    BY <2>2, Begins DEF Starts
  <2>4. Started(k, p, t, u).cur = {} /\ row' = row
    BY <1>1, StartedShape, OperationStarts
  <2> QED
    BY <2>3, <2>4 DEF OwnRows
<1>2. CASE \E j \in Job : JobStep(j)
  <2>1. PICK j \in Job : JobStep(j)
    BY <1>2
  <2>2. /\ \A i \in Job : i # j => jobs'[i] = jobs[i]
        /\ jobs'[j].pc = "reread" => InsertRow(j)
    BY <2>1, Turns
  <2>3. \A i \in Job : jobs[i].user \in User /\ jobs[i].cur \subseteq Device
    BY DEF TypeOK, JobState
  (* Rows of others are deleted or stay; a new row carries j.               *)
  <2>4. ASSUME NEW d \in Device, NEW v \in User
        PROVE  row'[d][v] = row[d][v] \/ row'[d][v].by = {} \/ row'[d][v].by = {j}
    <3>1. CASE ClearRow(j) \/ RemoveRow(j)
      <4>1. PICK e \in jobs[j].todo : row' = [row EXCEPT ![e][jobs[j].user] = NoRow]
        BY <3>1 DEF ClearRow, RemoveRow
      <4>2. row'[d][v] \in {row[d][v], NoRow}
        BY <4>1 DEF TypeOK
      <4> QED
        BY <4>2 DEF NoRow
    <3>2. CASE InsertRow(j)
      <4>1. PICK e \in jobs[j].cur : \/ row' = row
                                     \/ row' = [row EXCEPT ![e][jobs[j].user] = NewRow(j)]
        BY <3>2 DEF InsertRow
      <4>2. row'[d][v] \in {row[d][v], NewRow(j)}
        BY <4>1 DEF TypeOK
      <4> QED
        BY <4>2 DEF NewRow
    <3>3. CASE ReadBack(j)
      <4>1. PICK e \in jobs[j].cur :
              \/ row' = row
              \/ row' = [row EXCEPT ![e][jobs[j].user] = [@ EXCEPT !.by = {}]]
        BY <3>3 DEF ReadBack
      <4>2. e \in Device /\ row[e][jobs[j].user] \in Row
        BY <2>3 DEF TypeOK
      <4> DEFINE z == [row[e][jobs[j].user] EXCEPT !.by = {}]
      <4>3. z.by = {}
        BY <4>2, ReadBackType
      <4>4. row' = row \/ row' = [row EXCEPT ![e][jobs[j].user] = z]
        BY <4>1
      <4> HIDE DEF z
      <4>5. row'[d][v] \in {row[d][v], z}
        BY <4>4 DEF TypeOK
      <4> QED
        BY <4>3, <4>5
    <3>4. CASE ~ClearRow(j) /\ ~RemoveRow(j) /\ ~InsertRow(j) /\ ~ReadBack(j)
      BY <2>1, <3>4 DEF JobStep, ReadDevices, CheckPass, SendAdd, FindRows, FilterRows,
         SendRemove, ResolveAudiences, SignPass, LogAndRespond
    <3> QED
      BY <3>1, <3>2, <3>3, <3>4
  <2>5. ASSUME NEW i \in Job, i # j, NEW d \in Device, jobs'[i].pc = "reread",
               d \in jobs'[i].cur, row'[d][jobs'[i].user].by = {i}
        PROVE  row'[d][jobs'[i].user].exp = jobs'[i].exp
    <3> DEFINE v == jobs[i].user
    <3>1. jobs'[i] = jobs[i] /\ d \in jobs[i].cur /\ v \in User
      BY <2>2, <2>3, <2>5
    <3>2. row'[d][v].by = {i} /\ {i} # {} /\ {i} # {j}
      BY <2>5, <3>1
    <3>3. row'[d][v] = row[d][v]
      BY <2>4, <3>1, <3>2
    <3>4. row[d][v].exp = jobs[i].exp
      BY <2>5, <3>1, <3>2, <3>3 DEF OwnRows
    <3> QED
      BY <3>1, <3>3, <3>4
  <2>6. ASSUME NEW d \in Device, jobs'[j].pc = "reread", d \in jobs'[j].cur
        PROVE  row'[d][jobs'[j].user].exp = jobs'[j].exp
    <3> DEFINE s == jobs[j]
               r == [s EXCEPT !.pc = "reread"]
    <3>1. InsertRow(j) /\ s \in JobState /\ Well(s) /\ s.pc = "insert"
      BY <2>2, <2>6 DEF InsertRow, At, TypeOK, Orderly
    <3>2. PICK d0 \in s.cur :
            \/ Finish(j)
            \/ row' = [row EXCEPT ![d0][s.user] = NewRow(j)] /\ Become(j, r)
      BY <3>1 DEF InsertRow
    <3>3. r.user = s.user /\ r.cur = s.cur /\ r.exp = s.exp
      BY <3>1 DEF JobState
    <3> HIDE DEF r
    <3>4. ~Finish(j)
      BY <2>6, IdleWell DEF Finish, TypeOK
    <3>5. jobs'[j] = r
      BY <3>2, <3>4, Becomes
    <3>6. d = d0 /\ d0 \in Device /\ s.user \in User
      BY <2>6, <3>1, <3>3, <3>5 DEF Well, JobState
    <3>7. row'[d0][s.user] = NewRow(j)
      BY <3>2, <3>4, <3>6 DEF TypeOK
    <3> QED
      BY <3>3, <3>5, <3>6, <3>7 DEF NewRow
  <2> QED
    BY <2>5, <2>6 DEF OwnRows
<1>3. CASE Account \/ Tick \/ UNCHANGED vars
      \/ \E f \in Facility : GatewayConnects(f) \/ GatewayCloses(f)
  <2>1. jobs' = jobs /\ row' = row
    BY <1>3 DEF Account, SetActive, Login, SessionExpires, Tick, GatewayConnects,
       GatewayCloses, vars
  <2> QED
    BY <2>1 DEF OwnRows
<1>4. CASE Prune
  <2>1. /\ jobs' = jobs
        /\ \A d \in Device, t \in User : row'[d][t] \in {row[d][t], NoRow}
    BY <1>4 DEF Prune
  <2>2. \A i \in Job : jobs[i].user \in User /\ {i} # NoRow.by
    BY DEF TypeOK, JobState, NoRow
  <2> QED
    BY <2>1, <2>2 DEF OwnRows
<1>5. CASE Restart \/ \E j \in Job : JobFails(j)
  <2>1. row' = row /\ \A i \in Job : jobs'[i] \in {jobs[i], Idle}
    BY <1>5 DEF Restart, JobFails, Finish, TypeOK
  <2> QED
    BY <2>1, IdleWell DEF OwnRows
<1> QED
  BY <1>1, <1>2, <1>3, <1>4, <1>5 DEF Next, Environment

(* What an operation adds to the accesses to be shut out.                   *)
LEMMA HeldShape ==
  ASSUME TypeOK, PassesLogged, NEW t \in User, NEW ds \in SUBSET Device
  PROVE  \A c \in Held(t, ds) :
           /\ c.user = t /\ c.device \in ds /\ Valid(t, c.exp)
           /\ \E p \in passes : p.user = t /\ p.exp = c.exp
<1> SUFFICES ASSUME NEW c \in Held(t, ds)
             PROVE  /\ c.user = t /\ c.device \in ds /\ Valid(t, c.exp)
                    /\ \E p \in passes : p.user = t /\ p.exp = c.exp
  OBVIOUS
<1>1. PICK p \in passes : /\ p.user = t
                         /\ \E d \in ds : c = [user |-> t, device |-> d, exp |-> p.exp]
  BY DEF Held
<1>2. Valid(p.user, p.exp)
  BY DEF PassesLogged
<1> QED
  BY <1>1, <1>2

LEMMA ForeseenStart ==
  ASSUME TypeOK, Paced, Orderly, Foreseen, Operation
  PROVE  Foreseen'
<1>1. PICK j \in Job, t \in User : \E k, p, u : Starts(k, p, j, t, u)
  BY OperationStarts
<1>2. PICK k, p, u : Starts(k, p, j, t, u)
  BY <1>1
<1>3. UNCHANGED <<now, passes, lastExp>>
  BY OperationStarts
<1>4. Separate /\ Idle.unit \in Unit
  BY PacedMeans, IdleType DEF JobState
<1> DEFINE r == Started(k, p, t, u)
           ds == IF k = "unassigned" THEN DevicesOf(u) ELSE AssignedDevices(t)
           new == Held(t, ds)
<1>5. \A i \in Job : jobs'[i] = IF i = j THEN r ELSE jobs[i]
  BY <1>2, Begins DEF Starts
<1>6. r.kind = k /\ r.pc = p /\ r.user = t /\ r.unit = u /\ ~r.skip
  BY StartedShape
<1> HIDE DEF r
<1>7. /\ \/ cut' = cut \cup new /\ k \in {"unassigned", "deactivated"}
         \/ cut' \subseteq cut
      /\ k = "assigned" => \A c \in cut' : ~(c.user = t /\ UnitOf[c.device] = u)
      /\ k \in {"unassigned", "share_revoked"} => u \in Unit /\ MayRevoke(t, u)
      /\ k = "deactivated" => \A v \in Unit : MayRevoke(t, v)
      /\ k = "pass" => MayRequest(t)
      /\ p \in {"find", "devices", "audience"}
  BY <1>2 DEF Starts
<1>8. \A c \in new : /\ c.user = t /\ c.device \in ds /\ Valid(t, c.exp)
                     /\ \E q \in passes : q.user = t /\ q.exp = c.exp
  <2>1. ds \in SUBSET Device
    BY DEF DevicesOf, AssignedDevices
  <2> HIDE DEF ds
  <2> QED
    BY <2>1, HeldShape DEF Foreseen
<1> HIDE DEF new
<1>9. PassesLogged' /\ CutsLogged'
  BY <1>3, <1>7, <1>8 DEF Foreseen, PassesLogged, CutsLogged, Valid
<1>10. PassesApart'
  <2>1. k \in Revoking => \A i \in Job : jobs[i].kind = "pass" => jobs[i].user # t
    BY <1>4, <1>7, PacedWaits DEF Revoking
  <2>2. k = "pass" => \A i \in Job : jobs[i].kind \in Revoking => jobs[i].user # t
    BY <1>7, PacedWaits
  <2> QED
    BY <1>5, <1>6, <2>1, <2>2 DEF Foreseen, PassesApart, Revoking
<1>11. SkipsJustified'
  BY <1>3, <1>5, <1>6, <1>7, <1>8 DEF Foreseen, SkipsJustified
<1>12. Outlasting'
  BY <1>3, <1>5, <1>6, <1>7, <1>8 DEF Foreseen, Outlasting, Deciding
<1>13. AssigningUncut'
  <2> SUFFICES ASSUME NEW i \in Job, jobs'[i].kind = "assigned", NEW c \in cut',
                      c.user = jobs'[i].user, UnitOf[c.device] = jobs'[i].unit
               PROVE  FALSE
    BY DEF AssigningUncut
  <2>1. CASE i = j
    BY <1>5, <1>6, <1>7, <2>1
  <2>2. CASE i # j
    <3>1. jobs'[i] = jobs[i] /\ jobs[i].unit \in Unit
      BY <1>5, <2>2 DEF TypeOK, JobState
    <3>2. c \in new /\ k \in {"unassigned", "deactivated"}
      BY <1>7, <3>1 DEF Foreseen, AssigningUncut
    <3>3. c.user = t /\ (k = "unassigned" => UnitOf[c.device] = u)
      BY <1>8, <3>2 DEF DevicesOf
    <3>4. MayRevoke(t, jobs[i].unit)
      BY <1>7, <3>1, <3>2, <3>3
    <3> QED
      BY <1>4, <3>1, <3>3, <3>4, Waited
  <2> QED
    BY <2>1, <2>2
<1> QED
  BY <1>9, <1>10, <1>11, <1>12, <1>13 DEF Foreseen

LEMMA ForeseenJob ==
  ASSUME TypeOK, ExpiryBounded, Paced, Orderly, Foreseen, NEW j \in Job, JobStep(j)
  PROVE  Foreseen'
<1> DEFINE s == jobs[j]
<1>1. s \in JobState /\ Well(s) /\ Idle.kind = "idle" /\ Idle.pc = "idle"
  BY IdleWell DEF TypeOK, Orderly
<1>2. /\ \A i \in Job : i # j => jobs'[i] = jobs[i]
      /\ \/ jobs'[j] = Idle
         \/ jobs'[j].kind = s.kind /\ jobs'[j].user = s.user /\ jobs'[j].unit = s.unit
      /\ CheckPass(j) \/ s.kind = "assigned" \/ (jobs'[j].skip => s.skip)
      /\ jobs'[j].pc \in Deciding =>
           \/ jobs'[j].exp = now + TTL
           \/ jobs'[j].exp = s.exp /\ s.pc \in Deciding
  BY Turns
<1>3. UNCHANGED <<now, cut, assigned>>
  BY HandlerFrame
<1>4. /\ \A t \in User : lastExp[t] \in Int /\ lastExp'[t] \in Int /\ lastExp[t] <= lastExp'[t]
      /\ \A p \in passes' : \/ p \in passes
                           \/ /\ s.kind = "pass" /\ p.user = s.user
                              /\ Valid(p.user, p.exp)'
  <2>1. CASE LogAndRespond(j)
    <3>1. /\ LogIssuance(s.user, s.exp)
          /\ passes' \subseteq passes \cup
               {[user |-> s.user, aud |-> s.targets, exp |-> s.exp, logged |-> TRUE]}
          /\ s.exp > now \/ passes' = passes
      BY <2>1 DEF LogAndRespond, Paced
    <3>2. s.kind = "pass" /\ s.exp <= now + TTL
      BY <1>1, <2>1 DEF LogAndRespond, At, Well, RevokeAt, LiftAt, ExpiryBounded
    <3>3. /\ \A t \in User : lastExp[t] \in Int /\ lastExp'[t] \in Int /\ lastExp[t] <= lastExp'[t]
          /\ s.exp <= lastExp'[s.user]
      BY <1>1, <3>1 DEF LogIssuance, TypeOK, JobState, Time
    <3> QED
      BY <1>3, <3>1, <3>2, <3>3 DEF Valid, TypeOK
  <2>2. CASE ~LogAndRespond(j)
    <3>1. UNCHANGED <<passes, lastExp>>
      BY <2>2
      DEF JobStep, ReadDevices, CheckPass, ClearRow, InsertRow, ReadBack, SendAdd, FindRows,
          FilterRows, RemoveRow, SendRemove, ResolveAudiences, SignPass
    <3> QED
      BY <3>1 DEF TypeOK, Time
  <2> QED
    BY <2>1, <2>2
<1>5. PassesLogged'
  <2>1. \A p \in passes : p.user \in User /\ p.exp \in Int
    BY DEF TypeOK, Pass, Time
  <2> QED
    BY <1>3, <1>4, <2>1 DEF Foreseen, PassesLogged, Valid
<1>6. CutsLogged'
  <2>1. \A c \in cut : c.user \in User /\ c.exp \in Int
    BY DEF TypeOK, Access, Time
  <2> QED
    BY <1>3, <1>4, <2>1 DEF Foreseen, CutsLogged, Valid
<1>7. PassesApart'
  BY <1>1, <1>2 DEF Foreseen, PassesApart, Revoking
<1>8. SkipsJustified'
  <2> SUFFICES ASSUME NEW i \in Job, NEW t \in User, jobs'[i].kind \in Revoking,
                      jobs'[i].skip, jobs'[i].user = t
               PROVE  (\A p \in passes' : p.user # t) /\ (\A c \in cut : c.user # t)
    BY <1>3 DEF SkipsJustified
  <2>1. jobs[i].kind \in Revoking /\ jobs[i].user = t
    BY <1>1, <1>2 DEF Revoking
  <2>2. s.kind = "pass" => s.user # t
    BY <2>1 DEF Foreseen, PassesApart
  <2>3. CASE jobs[i].skip
    BY <1>4, <2>1, <2>2, <2>3 DEF Foreseen, SkipsJustified
  <2>4. CASE ~jobs[i].skip
    <3>1. i = j /\ CheckPass(j)
      BY <1>2, <2>1, <2>4 DEF Revoking
    <3>2. PICK b \in BOOLEAN :
            /\ b = PassExpired(t)
            /\ Become(j, [s EXCEPT !.pc = "clear", !.skip = b,
                                   !.exp = IF s.kind = "share_revoked"
                                             THEN s.exp ELSE ExpirationDate])
      BY <2>1, <3>1 DEF CheckPass, ShouldSkip, Paced
    <3>3. PassExpired(t)
      BY <1>1, <3>1, <3>2 DEF Become, TypeOK, JobState
    <3>4. lastExp[t] = 0 \/ lastExp[t] < now
      BY <3>3 DEF PassExpired
    <3>5. \A x \in Int : ~Valid(t, x)
      BY <3>4 DEF Valid, TypeOK, Time
    <3>6. passes' = passes
      BY <3>1 DEF CheckPass
    <3> QED
      BY <3>5, <3>6 DEF Foreseen, PassesLogged, CutsLogged, TypeOK, Pass, Access, Time
  <2> QED
    BY <2>3, <2>4
<1>9. Outlasting'
  <2> SUFFICES ASSUME NEW i \in Job, jobs'[i].pc \in Deciding
               PROVE  /\ \A p \in passes' : p.user = jobs'[i].user => p.exp <= jobs'[i].exp
                      /\ \A c \in cut : c.user = jobs'[i].user => c.exp <= jobs'[i].exp
    BY <1>3 DEF Outlasting
  <2>1. /\ jobs[i].kind \in Revoking /\ jobs'[i].user = jobs[i].user
        /\ \/ jobs'[i].exp = now + TTL
           \/ jobs'[i].exp = jobs[i].exp /\ jobs[i].pc \in Deciding
    <3>1. Well(jobs[i])' /\ Well(jobs[i])
      BY PacedMeans, OrderlyJob DEF Orderly
    <3>2. jobs'[i].kind \in Revoking
      BY <3>1 DEF Well, Deciding, LiftAt, PassAt
    <3> QED
      BY <1>1, <1>2, <3>2 DEF Revoking
  <2>2. s.kind = "pass" => s.user # jobs[i].user
    BY <2>1 DEF Foreseen, PassesApart
  <2>3. \A p \in passes' : p.user = jobs'[i].user => p \in passes
    BY <1>4, <2>1, <2>2
  <2> QED
    BY <2>1, <2>3 DEF Foreseen, Outlasting, PassesLogged, CutsLogged, Valid
<1>10. AssigningUncut'
  BY <1>1, <1>2, <1>3 DEF Foreseen, AssigningUncut
<1> QED
  BY <1>5, <1>6, <1>7, <1>8, <1>9, <1>10 DEF Foreseen

(* A revocation keeps its promises while it waits and nobody inserts a row. *)
LEMMA CarrierKept ==
  ASSUME NEW i \in Job, jobs'[i] = jobs[i],
         jobs[i].pc = "devices" => About(jobs[i])' = About(jobs[i]),
         jobs[i].pc = "insert" => \A e \in jobs[i].cur :
           row'[e][jobs[i].user] \in {row[e][jobs[i].user], NoRow},
         jobs[i].pc = "reread" => \A e \in jobs[i].cur :
           row[e][jobs[i].user].by = {i} => row'[e][jobs[i].user].by = {i},
         NEW d, Carries(i, d)
  PROVE  Carries(i, d)'
<1>1. ~Doomed(i) => ~Doomed(i)'
  BY DEF Doomed
<1> QED
  BY <1>1 DEF Carries

(* Two revocations of a user that are about one row are about the same      *)
(* locks.                                                                   *)
LEMMA SameTargets ==
  ASSUME Orderly, Unclashed, NEW i \in Job, NEW j \in Job,
         jobs[i].pc \in Deciding, jobs[j].pc \in Deciding,
         jobs[i].user = jobs[j].user,
         NEW d \in jobs[i].targets, d \in jobs[j].targets
  PROVE  jobs[i].targets = jobs[j].targets
<1>1. /\ Well(jobs[i]) /\ Whole(jobs[i])
      /\ Well(jobs[j]) /\ Whole(jobs[j])
  BY DEF Orderly, Unclashed
<1>2. jobs[i].kind \in Revoking /\ jobs[j].kind \in Revoking
  BY <1>1 DEF Well, Deciding, LiftAt, PassAt
<1>3. jobs[i].kind = "deactivated" <=> jobs[j].kind = "deactivated"
  BY <1>2 DEF Unclashed
<1>4. CASE jobs[j].kind = "deactivated"
  BY <1>1, <1>3, <1>4 DEF Whole
<1>5. CASE jobs[j].kind # "deactivated"
  <2>1. /\ jobs[i].targets = DevicesOf(jobs[i].unit)
        /\ jobs[j].targets = DevicesOf(jobs[j].unit)
    BY <1>1, <1>3, <1>5 DEF Well, Deciding
  <2>2. jobs[i].unit = jobs[j].unit
    BY <2>1 DEF DevicesOf
  <2> QED
    BY <2>1, <2>2
<1> QED
  BY <1>4, <1>5

LEMMA PromisedStart ==
  ASSUME TypeOK, Paced, Orderly, Unclashed, Foreseen, Promised, Operation
  PROVE  Promised'
<1>1. PICK j \in Job, t \in User : \E k, p, u : Starts(k, p, j, t, u)
  BY OperationStarts
<1>2. PICK k, p, u : Starts(k, p, j, t, u)
  BY <1>1
<1>3. UNCHANGED <<now, row, lockDeny>> /\ Separate
  BY OperationStarts, PacedMeans
<1> DEFINE r == Started(k, p, t, u)
<1>4. /\ jobs[j].kind = "idle"
      /\ \A i \in Job : jobs'[i] = IF i = j THEN r ELSE jobs[i]
  BY <1>2, Begins DEF Starts
<1>5. r.kind = k /\ r.pc = p /\ r.user = t /\ r.unit = u
  BY StartedShape
<1> HIDE DEF r
<1>6. /\ k = "assigned" => u \in Unit /\ MayAssign(t, u)
      /\ k = "unassigned" => NoClash({"deactivated"}, t)
      /\ \/ k = "assigned" /\ assigned' = assigned \cup {<<u, t>>}
         \/ k = "unassigned" /\ assigned' = assigned \ {<<u, t>>}
         \/ assigned' = assigned
      /\ \/ /\ k = "unassigned" /\ p = "devices"
            /\ cut' = cut \cup Held(t, DevicesOf(u))
         \/ /\ k = "deactivated" /\ p = "devices" /\ assigned' = assigned
            /\ cut' = cut \cup Held(t, AssignedDevices(t))
         \/ cut' \subseteq cut
  BY <1>2 DEF Starts
(* Who carries a promise goes on to.                                        *)
<1>7. ASSUME NEW i \in Job, NEW d, Carries(i, d)
      PROVE  jobs'[i] = jobs[i] /\ Carries(i, d)'
  <2>1. jobs[i].kind \in Revoking
    BY <1>7 DEF Carries, Orderly, Well, LiftAt, PassAt
  <2>2. i # j /\ jobs'[i] = jobs[i]
    BY <1>4, <2>1 DEF Revoking
  <2>3. jobs[i].kind = "deactivated" /\ k \in {"assigned", "unassigned"} => jobs[i].user # t
    BY <1>3, <1>6, <2>1, Waited, PacedWaits
  <2>4. About(jobs[i])' = About(jobs[i])
    BY <1>6, <2>2, <2>3 DEF About, AssignedDevices, DevicesOf
  <2> QED
    BY <1>3, <1>7, <2>2, <2>4, CarrierKept
<1>8. ASSUME NEW c \in cut', c \notin cut
      PROVE  jobs'[j].user = c.user /\ Carries(j, c.device)'
  <2>1. CASE k = "unassigned" /\ p = "devices" /\ cut' = cut \cup Held(t, DevicesOf(u))
    <3>1. c.user = t /\ c.device \in DevicesOf(u)
      BY <1>8, <2>1, HeldShape DEF Foreseen, DevicesOf
    <3> QED
      BY <1>4, <1>5, <2>1, <3>1 DEF Carries, About, DevicesOf
  <2>2. CASE /\ k = "deactivated" /\ p = "devices" /\ assigned' = assigned
             /\ cut' = cut \cup Held(t, AssignedDevices(t))
    <3>1. c.user = t /\ c.device \in AssignedDevices(t)
      BY <1>8, <2>2, HeldShape DEF Foreseen, AssignedDevices
    <3> QED
      BY <1>4, <1>5, <2>2, <3>1 DEF Carries, About, AssignedDevices
  <2> QED
    BY <1>6, <1>8, <2>1, <2>2
<1>9. ASSUME NEW c \in cut'
      PROVE  ShutOut(c)' \/ \E i \in Job : jobs'[i].user = c.user /\ Carries(i, c.device)'
  <2>1. CASE c \in cut
    <3>1. ShutOut(c) \/ \E i \in Job : jobs[i].user = c.user /\ Carries(i, c.device)
      BY <2>1 DEF Promised
    <3> QED
      BY <1>3, <1>7, <3>1 DEF ShutOut
  <2> QED
    BY <1>8, <2>1
<1> QED
  BY <1>9 DEF Promised

(* A step of a handler that ends no other: the others keep their promises,  *)
(* it keeps its own, and no denial is lifted that is still needed.          *)
LEMMA PromisedKept ==
  ASSUME TypeOK, Orderly, Promised, NEW j \in Job, JobStep(j),
         ~InsertRow(j) /\ ~ReadBack(j) /\ ~ClearRow(j),
         \A c \in cut : ShutOut(c) => ShutOut(c)',
         \A c \in cut : jobs[j].user = c.user /\ Carries(j, c.device)
           => \/ ShutOut(c)'
              \/ jobs'[j].user = c.user /\ Carries(j, c.device)'
  PROVE  Promised'
<1>1. UNCHANGED <<now, assigned, cut>> /\ \A i \in Job : i # j => jobs'[i] = jobs[i]
  BY HandlerFrame, Turns
<1>2. ASSUME NEW i \in Job, i # j, jobs[i].pc \in {"insert", "reread"},
             NEW e \in jobs[i].cur
      PROVE  row'[e][jobs[i].user] = row[e][jobs[i].user]
  <2>1. CASE RemoveRow(j)
    <3>1. PICK d \in jobs[j].todo : row' = [row EXCEPT ![d][jobs[j].user] = NoRow]
      BY <2>1 DEF RemoveRow
    <3>2. /\ jobs[j].pc = "remove" /\ d \in jobs[j].targets /\ d \in Device
          /\ jobs[j].user \in User
      BY <2>1 DEF RemoveRow, At, Orderly, Well, TypeOK, JobState
    <3>3. jobs[j].kind = "assigned" /\ jobs[j].unit = UnitOf[d]
      BY <3>2, LiftingShape
    <3>4. /\ jobs[i].kind \in Revoking /\ e \in jobs[i].targets /\ e \in Device
          /\ jobs[i].kind = "deactivated" \/ jobs[i].unit = UnitOf[e]
          /\ jobs[i].user \in User
      BY <1>2 DEF Orderly, Well, LiftAt, PassAt, TypeOK, JobState, DevicesOf
    <3>5. e # d \/ jobs[i].user # jobs[j].user
      BY <1>2, <3>3, <3>4 DEF Orderly, Meetings, MayMeet
    <3> QED
      BY <3>1, <3>2, <3>4, <3>5 DEF TypeOK
  <2>2. CASE ~RemoveRow(j)
    <3>1. row' = row
      BY <2>2 DEF JobStep, ReadDevices, CheckPass, SendAdd, FindRows, FilterRows,
         SendRemove, ResolveAudiences, SignPass, LogAndRespond
    <3> QED
      BY <3>1
  <2> QED
    BY <2>1, <2>2
<1>3. ASSUME NEW i \in Job, i # j, NEW d, Carries(i, d)
      PROVE  Carries(i, d)'
  <2>1. jobs'[i] = jobs[i] /\ About(jobs[i])' = About(jobs[i])
    BY <1>1, <1>3 DEF About, AssignedDevices, DevicesOf
  <2> QED
    BY <1>2, <1>3, <2>1, CarrierKept
<1>4. ASSUME NEW c \in cut
      PROVE  ShutOut(c)' \/ \E i \in Job : jobs'[i].user = c.user /\ Carries(i, c.device)'
  <2>1. CASE ShutOut(c)
    BY <2>1
  <2>2. CASE \E i \in Job : jobs[i].user = c.user /\ Carries(i, c.device)
    BY <1>1, <1>3, <2>2
  <2> QED
    BY <2>1, <2>2 DEF Promised
<1> QED
  BY <1>1, <1>4 DEF Promised

(* The steps of a revocation before it deletes rows.                        *)
LEMMA PromisedAdvance ==
  ASSUME TypeOK, Paced, Orderly, Foreseen, Promised, NEW j \in Job,
         ReadDevices(j) \/ CheckPass(j)
  PROVE  Promised'
<1> DEFINE s == jobs[j]
<1>1. /\ s \in JobState /\ Well(s) /\ JobStep(j)
      /\ UNCHANGED <<now, assigned, cut, lockDeny>>
      /\ s.pc \in {"devices", "check"}
      /\ ~InsertRow(j) /\ ~ReadBack(j) /\ ~ClearRow(j)
  BY DEF ReadDevices, CheckPass, ClearRow, InsertRow, ReadBack, At, JobStep, TypeOK, Orderly
<1>2. ASSUME NEW c \in cut, s.user = c.user, Carries(j, c.device)
      PROVE  jobs'[j].user = c.user /\ Carries(j, c.device)'
  <2>1. CASE ReadDevices(j)
    <3> DEFINE r == [s EXCEPT !.pc = "check", !.targets = About(s), !.todo = About(s),
                              !.exp = ExpirationDate]
    <3>1. s.pc = "devices" /\ c.device \in About(s)
      BY <1>2, <2>1 DEF ReadDevices, At, Carries
    <3>2. Become(j, r)
      BY <2>1, <3>1 DEF ReadDevices, About
    <3>3. r.pc = "check" /\ r.user = s.user /\ r.targets = About(s)
      BY <1>1 DEF JobState
    <3>4. jobs'[j] = r
      BY <3>2, Becomes
    <3> HIDE DEF r
    <3> QED
      BY <1>2, <3>1, <3>3, <3>4 DEF Carries
  <2>2. CASE CheckPass(j)
    <3>1. Valid(s.user, c.exp) /\ now \in Nat /\ s.user \in User /\ c.exp \in Int
      BY <1>1, <1>2 DEF Foreseen, CutsLogged, TypeOK, JobState, Access, Time
    <3>2. ~PassExpired(s.user)
      BY <3>1 DEF PassExpired, Valid, TypeOK, Time
    <3> DEFINE r == [s EXCEPT !.pc = "clear", !.skip = FALSE,
                              !.exp = IF s.kind = "share_revoked"
                                        THEN s.exp ELSE ExpirationDate]
    <3>3. Become(j, r)
      BY <2>2, <3>2 DEF CheckPass, ShouldSkip, Paced
    <3>4. r.pc = "clear" /\ r.user = s.user /\ r.targets = s.targets /\ ~r.skip
      BY <1>1 DEF JobState
    <3>5. jobs'[j] = r
      BY <3>3, Becomes
    <3> HIDE DEF r
    <3>6. c.device \in s.targets
      BY <1>2, <2>2 DEF CheckPass, At, Carries
    <3> QED
      BY <1>2, <3>4, <3>5, <3>6 DEF Carries, Doomed
  <2> QED
    BY <2>1, <2>2
<1> QED
  BY <1>1, <1>2, PromisedKept DEF ShutOut

(* The steps of a revocation that change a row disturb only who is about to *)
(* insert that row or to read it back.                                      *)
LEMMA OthersKept ==
  ASSUME TypeOK, NEW i \in Job, NEW d0 \in Device, NEW t \in User,
         jobs'[i] = jobs[i], assigned' = assigned,
         \A d \in Device, v \in User : d # d0 \/ v # t => row'[d][v] = row[d][v],
         ~(jobs[i].pc \in {"insert", "reread"} /\ jobs[i].user = t /\ d0 \in jobs[i].cur),
         NEW d, Carries(i, d)
  PROVE  Carries(i, d)'
<1>1. jobs[i].user \in User /\ jobs[i].cur \subseteq Device
  BY DEF TypeOK, JobState
<1>2. About(jobs[i])' = About(jobs[i])
  BY DEF About, AssignedDevices, DevicesOf
<1> QED
  BY <1>1, <1>2, CarrierKept

(* Whoever dies of another's step is about the same locks as that one, and  *)
(* has something to shut out, so that the other does not skip its command.  *)
LEMMA TakesOver ==
  ASSUME TypeOK, Orderly, Unclashed, Foreseen, NEW i \in Job, NEW j \in Job,
         jobs[i].pc \in {"insert", "reread"}, jobs[j].pc \in {"clear", "insert"},
         jobs[i].user = jobs[j].user,
         NEW d0 \in jobs[i].cur, d0 \in jobs[j].targets,
         NEW c \in cut, jobs[i].user = c.user, Carries(i, c.device)
  PROVE  c.device \in jobs[j].targets /\ ~jobs[j].skip
<1>1. d0 \in jobs[i].targets /\ c.device \in jobs[i].targets
  BY DEF Orderly, Well, Carries
<1>2. jobs[i].targets = jobs[j].targets
  BY <1>1, SameTargets DEF Deciding
<1>3. jobs[j].kind \in Revoking /\ jobs[j].user \in User
  BY DEF Orderly, Well, LiftAt, PassAt, TypeOK, JobState
<1>4. ~jobs[j].skip
  BY <1>3 DEF Foreseen, SkipsJustified
<1> QED
  BY <1>1, <1>2, <1>4

(* A deletion dooms whoever is about to read the row back.                  *)
LEMMA PromisedClear ==
  ASSUME TypeOK, Orderly, Unclashed, Foreseen, Promised, NEW j \in Job, ClearRow(j)
  PROVE  Promised'
<1> DEFINE s == jobs[j]
<1>1. /\ s \in JobState /\ Well(s) /\ JobStep(j)
      /\ UNCHANGED <<now, assigned, cut, lockDeny>>
      /\ s.pc = "clear"
  BY DEF ClearRow, At, JobStep, TypeOK, Orderly
<1>2. \A i \in Job : i # j => jobs'[i] = jobs[i]
  BY <1>1, Turns
<1>3. PICK d0 \in s.todo :
        /\ row' = [row EXCEPT ![d0][s.user] = NoRow]
        /\ Become(j, [s EXCEPT !.pc = "insert", !.cur = {d0}, !.todo = s.todo \ {d0}])
  BY DEF ClearRow
<1>4. d0 \in Device /\ s.user \in User /\ d0 \in s.targets
  BY <1>1 DEF JobState, Well
<1>5. \A d \in Device, v \in User :
        row'[d][v] = IF d = d0 /\ v = s.user THEN NoRow ELSE row[d][v]
  BY <1>3, <1>4 DEF TypeOK
<1> DEFINE r == [s EXCEPT !.pc = "insert", !.cur = {d0}, !.todo = s.todo \ {d0}]
<1>6. /\ r.pc = "insert" /\ r.user = s.user /\ r.targets = s.targets
      /\ r.cur = {d0} /\ r.skip = s.skip
  BY <1>1 DEF JobState
<1>7. jobs'[j] = r
  BY <1>3, Becomes
<1> HIDE DEF r
<1>8. ASSUME NEW c, c.user = s.user, c.device \in s.targets, ~s.skip
      PROVE  jobs'[j].user = c.user /\ Carries(j, c.device)'
  <2>1. ~Doomed(j)'
    BY <1>4, <1>5, <1>6, <1>7 DEF Doomed
  <2> QED
    BY <1>6, <1>7, <1>8, <2>1 DEF Carries
<1>9. ASSUME NEW i \in Job, NEW c \in cut, jobs[i].user = c.user, Carries(i, c.device)
      PROVE  \E k \in Job : jobs'[k].user = c.user /\ Carries(k, c.device)'
  <2>1. CASE i = j
    BY <1>1, <1>8, <1>9, <2>1 DEF Carries
  <2>2. CASE i # j /\ jobs[i].pc = "reread" /\ jobs[i].user = s.user /\ d0 \in jobs[i].cur
    BY <1>1, <1>4, <1>8, <1>9, <2>2, TakesOver
  <2>3. CASE i # j /\ jobs[i].pc = "insert" /\ jobs[i].user = s.user /\ d0 \in jobs[i].cur
    <3>1. About(jobs[i])' = About(jobs[i])
      BY <1>1, <1>2, <2>3 DEF About, AssignedDevices, DevicesOf
    <3>2. jobs[i].cur \subseteq Device
      BY DEF TypeOK, JobState
    <3>3. Carries(i, c.device)'
      BY <1>2, <1>4, <1>5, <1>9, <2>3, <3>1, <3>2, CarrierKept
    <3> QED
      BY <1>2, <1>9, <2>3, <3>3
  <2>4. CASE i # j /\ ~(/\ jobs[i].pc \in {"insert", "reread"}
                        /\ jobs[i].user = s.user /\ d0 \in jobs[i].cur)
    <3>1. jobs'[i] = jobs[i]
      BY <1>2, <2>4
    <3>2. \A d \in Device, v \in User : d # d0 \/ v # s.user => row'[d][v] = row[d][v]
      BY <1>5
    <3>3. Carries(i, c.device)'
      BY <1>1, <1>4, <1>9, <2>4, <3>1, <3>2, OthersKept
    <3> QED
      BY <1>9, <3>1, <3>3
  <2> QED
    BY <2>1, <2>2, <2>3, <2>4
<1>10. \A c \in cut : ShutOut(c) => ShutOut(c)'
  BY <1>1 DEF ShutOut
<1> QED
  BY <1>1, <1>9, <1>10 DEF Promised

(* An insertion dooms whoever is about to insert the same row.              *)
LEMMA PromisedInsert ==
  ASSUME TypeOK, Orderly, Unclashed, Foreseen, Promised, NEW j \in Job, InsertRow(j)
  PROVE  Promised'
<1> DEFINE s == jobs[j]
           r == [s EXCEPT !.pc = "reread"]
<1>1. /\ s \in JobState /\ Well(s) /\ JobStep(j)
      /\ UNCHANGED <<now, assigned, cut, lockDeny>>
      /\ s.pc = "insert"
  BY DEF InsertRow, At, JobStep, TypeOK, Orderly
<1>2. \A i \in Job : i # j => jobs'[i] = jobs[i]
  BY <1>1, Turns
<1>3. PICK d0 \in s.cur :
        IF row[d0][s.user] # NoRow
          THEN Finish(j) /\ row' = row
          ELSE row' = [row EXCEPT ![d0][s.user] = NewRow(j)] /\ Become(j, r)
  BY DEF InsertRow
<1>4. d0 \in Device /\ s.user \in User /\ d0 \in s.targets /\ \A d \in s.cur : d = d0
  BY <1>1 DEF JobState, Well
<1>5. /\ r.pc = "reread" /\ r.user = s.user /\ r.targets = s.targets
      /\ r.cur = s.cur /\ r.skip = s.skip
  BY <1>1 DEF JobState
<1>6. ASSUME NEW i \in Job, NEW c \in cut, jobs[i].user = c.user, Carries(i, c.device)
      PROVE  \E k \in Job : jobs'[k].user = c.user /\ Carries(k, c.device)'
  <2>1. CASE row[d0][s.user] # NoRow
    <3>1. i # j
      BY <1>1, <1>6, <2>1 DEF Carries, Doomed
    <3>2. row' = row
      BY <1>3, <2>1
    <3>3. About(jobs[i])' = About(jobs[i])
      BY <1>1, <1>2, <3>1 DEF About, AssignedDevices, DevicesOf
    <3>4. Carries(i, c.device)'
      BY <1>2, <1>6, <3>1, <3>2, <3>3, CarrierKept
    <3> QED
      BY <1>2, <1>6, <3>1, <3>4
  <2>2. CASE row[d0][s.user] = NoRow
    <3>1. jobs'[j] = r
      BY <1>3, <2>2, Becomes
    <3> HIDE DEF r
    <3>2. \A d \in Device, v \in User :
            row'[d][v] = IF d = d0 /\ v = s.user THEN NewRow(j) ELSE row[d][v]
      BY <1>3, <1>4, <2>2 DEF TypeOK
    <3>3. ASSUME c.user = s.user, c.device \in s.targets, ~s.skip
          PROVE  jobs'[j].user = c.user /\ Carries(j, c.device)'
      <4>1. row'[d0][s.user].by = {j}
        BY <1>4, <3>2 DEF NewRow
      <4>2. ~Doomed(j)'
        BY <1>4, <1>5, <3>1, <4>1 DEF Doomed
      <4> QED
        BY <1>5, <3>1, <3>3, <4>2 DEF Carries
    <3>4. CASE i = j
      BY <1>1, <1>6, <3>3, <3>4 DEF Carries
    <3>5. CASE i # j /\ jobs[i].pc = "insert" /\ jobs[i].user = s.user /\ d0 \in jobs[i].cur
      BY <1>1, <1>4, <1>6, <3>3, <3>5, TakesOver
    <3>6. ~(jobs[i].pc = "reread" /\ jobs[i].user = s.user /\ d0 \in jobs[i].cur)
      <4>1. row[d0][s.user].by # {i}
        BY <2>2 DEF NoRow
      <4> QED
        BY <1>6, <4>1 DEF Carries, Doomed
    <3>7. CASE i # j /\ ~(jobs[i].pc = "insert" /\ jobs[i].user = s.user /\ d0 \in jobs[i].cur)
      <4>1. jobs'[i] = jobs[i]
        BY <1>2, <3>7
      <4>2. \A d \in Device, v \in User : d # d0 \/ v # s.user => row'[d][v] = row[d][v]
        BY <3>2
      <4>3. Carries(i, c.device)'
        BY <1>1, <1>4, <1>6, <3>6, <3>7, <4>1, <4>2, OthersKept
      <4> QED
        BY <1>6, <4>1, <4>3
    <3> QED
      BY <3>4, <3>5, <3>7
  <2> QED
    BY <2>1, <2>2
<1>7. \A c \in cut : ShutOut(c) => ShutOut(c)'
  BY <1>1 DEF ShutOut
<1> QED
  BY <1>1, <1>6, <1>7 DEF Promised

(* Who reads its row back dooms nobody: whoever is about to insert the same *)
(* row, or to read it back, was doomed already.                             *)
LEMMA PromisedReadBack ==
  ASSUME TypeOK, Orderly, Promised, NEW j \in Job, ReadBack(j)
  PROVE  Promised'
<1> DEFINE s == jobs[j]
           r == AfterInsert(s)
<1>1. /\ s \in JobState /\ Well(s) /\ JobStep(j)
      /\ UNCHANGED <<now, assigned, cut, lockDeny>>
      /\ s.pc = "reread"
  BY DEF ReadBack, At, JobStep, TypeOK, Orderly
<1>2. \A i \in Job : i # j => jobs'[i] = jobs[i]
  BY <1>1, Turns
<1>3. PICK d0 \in s.cur :
        IF row[d0][s.user].by = {j}
          THEN /\ row' = [row EXCEPT ![d0][s.user] = [@ EXCEPT !.by = {}]]
               /\ Become(j, r)
          ELSE Finish(j) /\ row' = row
  BY DEF ReadBack
<1>4. d0 \in Device /\ s.user \in User
  BY <1>1 DEF JobState
<1>5. ~s.skip =>
        /\ r.user = s.user /\ r.targets = s.targets
        /\ \/ r.pc = "clear" /\ ~r.skip
           \/ r.pc = "sendAdd" /\ r.todo = s.targets
  BY <1>1 DEF AfterInsert, JobState
<1> HIDE DEF r
<1>6. ASSUME NEW i \in Job, NEW c \in cut, jobs[i].user = c.user, Carries(i, c.device)
      PROVE  jobs'[i].user = c.user /\ Carries(i, c.device)'
  <2>1. CASE row[d0][s.user].by # {j}
    <3>1. i # j
      BY <1>1, <1>6, <2>1 DEF Carries, Doomed
    <3>2. row' = row
      BY <1>3, <2>1
    <3>3. About(jobs[i])' = About(jobs[i])
      BY <1>1, <1>2, <3>1 DEF About, AssignedDevices, DevicesOf
    <3> QED
      BY <1>2, <1>6, <3>1, <3>2, <3>3, CarrierKept
  <2>2. CASE row[d0][s.user].by = {j}
    <3>1. \A d \in Device, v \in User : d # d0 \/ v # s.user => row'[d][v] = row[d][v]
      BY <1>3, <1>4, <2>2 DEF TypeOK
    <3>2. CASE i = j
      <4>1. jobs'[j] = r
        BY <1>3, <2>2, Becomes
      <4> QED
        BY <1>1, <1>5, <1>6, <3>2, <4>1 DEF Carries, Doomed
    <3>3. CASE i # j
      <4>1. ~(/\ jobs[i].pc \in {"insert", "reread"}
              /\ jobs[i].user = s.user /\ d0 \in jobs[i].cur)
        BY <1>6, <2>2, <3>3 DEF Carries, Doomed, NoRow
      <4> QED
        BY <1>1, <1>2, <1>4, <1>6, <3>1, <3>3, <4>1, OthersKept
    <3> QED
      BY <3>2, <3>3
  <2> QED
    BY <2>1, <2>2
<1>7. \A c \in cut : ShutOut(c) => ShutOut(c)'
  BY <1>1 DEF ShutOut
<1> QED
  BY <1>1, <1>6, <1>7 DEF Promised

(* The locks that are told shut out every pass their user has in hand,      *)
(* however late the command comes.                                          *)
LEMMA PromisedSend ==
  ASSUME TypeOK, Orderly, Online, Foreseen, Promised, NEW j \in Job, SendAdd(j)
  PROVE  Promised'
<1> DEFINE s == jobs[j]
<1>1. /\ s \in JobState /\ JobStep(j) /\ cut' = cut
      /\ s.pc = "sendAdd" /\ ~InsertRow(j) /\ ~ReadBack(j) /\ ~ClearRow(j)
  BY DEF SendAdd, InsertRow, ReadBack, ClearRow, At, JobStep, TypeOK
<1>2. now \in Nat /\ s.exp \in Nat
  BY <1>1 DEF TypeOK, JobState, Time
<1>3. PICK f \in {FacilityOfDevice(d) : d \in s.todo} :
        /\ Unicast(f, {d \in s.todo : FacilityOfDevice(d) = f}, s.user,
                   IF s.exp > now THEN s.exp ELSE 0)
        /\ IF s.todo \ {d \in s.todo : FacilityOfDevice(d) = f} = {}
             THEN Finish(j)
             ELSE Become(j, [s EXCEPT !.todo =
                               s.todo \ {d \in s.todo : FacilityOfDevice(d) = f}])
  BY DEF SendAdd
<1> DEFINE to == {d \in s.todo : FacilityOfDevice(d) = f}
           rest == s.todo \ to
<1>4. f \in connected
  BY <1>1 DEF JobState, FacilityOfDevice, Online
<1>5. \A d \in Device, v \in User :
        lockDeny'[d][v] = IF d \in to /\ v = s.user
                            THEN IF s.exp > now THEN s.exp ELSE 0
                            ELSE lockDeny[d][v]
  BY <1>3, <1>4 DEF Unicast, TypeOK
<1>6. \A c \in cut : /\ c.device \in Device /\ c.user \in User /\ c.exp \in Nat
                     /\ c.user = s.user => c.exp <= s.exp /\ s.exp > now
  BY <1>1, <1>2 DEF TypeOK, Access, Time, Foreseen, Outlasting, CutsLogged, Valid, Deciding
<1>7. \A c \in cut : ShutOut(c) => ShutOut(c)'
  BY <1>2, <1>5, <1>6 DEF ShutOut
<1>8. ASSUME NEW c \in cut, s.user = c.user, Carries(j, c.device)
      PROVE  \/ ShutOut(c)'
             \/ jobs'[j].user = c.user /\ Carries(j, c.device)'
  <2>1. c.device \in s.todo
    BY <1>1, <1>8 DEF Carries
  <2>2. CASE c.device \in to
    BY <1>2, <1>5, <1>6, <1>8, <2>2 DEF ShutOut
  <2>3. CASE c.device \notin to
    <3> DEFINE r == [s EXCEPT !.todo = rest]
    <3>1. r.pc = s.pc /\ r.user = s.user /\ r.todo = rest
      BY <1>1 DEF JobState
    <3>2. jobs'[j] = r
      BY <1>3, <2>1, <2>3, Becomes
    <3> HIDE DEF r
    <3> QED
      BY <1>1, <1>8, <2>1, <2>3, <3>1, <3>2 DEF Carries
  <2> QED
    BY <2>2, <2>3
<1> QED
  BY <1>1, <1>7, <1>8, PromisedKept

(* The handlers of assignments and of passes promise nothing, and lift no   *)
(* denial that is still needed.                                             *)
LEMMA PromisedAside ==
  ASSUME TypeOK, Orderly, Foreseen, Promised, NEW j \in Job, JobStep(j),
         jobs[j].kind \notin Revoking
  PROVE  Promised'
<1> DEFINE s == jobs[j]
<1>1. s \in JobState /\ Well(s) /\ cut' = cut
  BY HandlerFrame DEF TypeOK, Orderly
<1>2. s.pc \notin RevokeAt
  BY <1>1 DEF Well, RevokeAt, LiftAt, PassAt
<1>3. /\ ~InsertRow(j) /\ ~ReadBack(j) /\ ~ClearRow(j)
      /\ \A d : ~Carries(j, d)
  BY <1>2 DEF InsertRow, ReadBack, ClearRow, At, Carries, RevokeAt
<1>4. \A c \in cut : ShutOut(c) => ShutOut(c)'
  <2>1. CASE SendRemove(j)
    <3>1. s.kind = "assigned" /\ s.targets \subseteq DevicesOf(s.unit)
      BY <1>1, <2>1 DEF SendRemove, At, Well, RevokeAt, PassAt
    <3>2. \A c \in cut : ~(c.user = s.user /\ c.device \in s.targets)
      BY <3>1 DEF Foreseen, AssigningUncut, DevicesOf
    <3>3. \A c \in cut : lockDeny'[c.device][c.user] = lockDeny[c.device][c.user]
      BY <2>1, <3>2 DEF SendRemove, Unicast, TypeOK, Access
    <3> QED
      BY <1>1, <3>3 DEF ShutOut
  <2>2. CASE ~SendRemove(j)
    BY <1>2, <2>2 DEF RevokeAt, At, JobStep, ReadDevices, CheckPass, ClearRow, InsertRow, ReadBack,
       SendAdd, FindRows, FilterRows, RemoveRow, ResolveAudiences, SignPass, LogAndRespond,
       ShutOut
  <2> QED
    BY <2>1, <2>2
<1> QED
  BY <1>1, <1>3, <1>4, PromisedKept

LEMMA PromisedJob ==
  ASSUME TypeOK, Paced, Orderly, Online, Unclashed, Foreseen, Promised,
         NEW j \in Job, JobStep(j)
  PROVE  Promised'
<1>1. CASE jobs[j].kind \notin Revoking
  BY <1>1, PromisedAside
<1>2. CASE jobs[j].kind \in Revoking
  <2>1. jobs[j].pc \in RevokeAt
    BY <1>2 DEF Orderly, Well, Revoking
  <2>2. \/ ReadDevices(j) \/ CheckPass(j) \/ ClearRow(j) \/ InsertRow(j)
        \/ ReadBack(j) \/ SendAdd(j)
    BY <2>1 DEF RevokeAt, JobStep, At, FindRows, FilterRows, RemoveRow, SendRemove,
       ResolveAudiences, SignPass, LogAndRespond
  <2> QED
    BY <2>2, PromisedAdvance, PromisedClear, PromisedInsert, PromisedReadBack, PromisedSend
<1> QED
  BY <1>1, <1>2

(* When the clock ticks passes, what is to be shut out and denials expire   *)
(* together, and handlers go on.                                            *)
LEMMA PromisedTick ==
  ASSUME TypeOK, Foreseen, Promised, Tick
  PROVE  Foreseen' /\ Promised'
<1>1. /\ UNCHANGED <<assigned, jobs, lastExp, row>> /\ now' = now + 1 /\ now \in Nat
      /\ passes' = {p \in passes : p.exp > now + 1}
      /\ cut' = {c \in cut : c.exp > now + 1}
      /\ \A d \in Device, t \in User :
           lockDeny'[d][t] = IF lockDeny[d][t] > now + 1 THEN lockDeny[d][t] ELSE 0
  BY DEF Tick, TypeOK
<1>2. /\ \A p \in passes : p.user \in User /\ p.exp \in Nat
      /\ \A c \in cut : c.user \in User /\ c.device \in Device /\ c.exp \in Nat
      /\ \A d \in Device, t \in User : lockDeny[d][t] \in Nat
      /\ \A t \in User : lastExp[t] \in Nat
  BY DEF TypeOK, Pass, Access, Time
<1>3. PassesLogged' /\ CutsLogged'
  BY <1>1, <1>2 DEF Foreseen, PassesLogged, CutsLogged, Valid
<1>4. PassesApart' /\ SkipsJustified' /\ Outlasting' /\ AssigningUncut'
  BY <1>1 DEF Foreseen, PassesApart, SkipsJustified, Outlasting, AssigningUncut
<1>5. \A j \in Job : \A d : Carries(j, d) => Carries(j, d)'
  BY <1>1 DEF Carries, About, AssignedDevices, DevicesOf, Doomed
<1>6. \A c \in cut : c.exp > now + 1 /\ ShutOut(c) => ShutOut(c)'
  BY <1>1, <1>2 DEF ShutOut
<1>7. Promised'
  BY <1>1, <1>5, <1>6 DEF Promised
<1> QED
  BY <1>3, <1>4, <1>7 DEF Foreseen

(* Between operations and handlers: the clock, the pruning, the accounts.   *)
LEMMA ForeseenPromisedStep ==
  ASSUME TypeOK, ExpiryBounded, Paced, Orderly, Online, Unclashed, OwnRows, Foreseen,
         Promised, [Next]_vars
  PROVE  Foreseen' /\ Promised'
<1>1. CASE Operation
  BY <1>1, ForeseenStart, PromisedStart
<1>2. CASE \E j \in Job : JobStep(j)
  BY <1>2, ForeseenJob, PromisedJob
<1>3. CASE Tick
  BY <1>3, PromisedTick
<1>4. CASE Account \/ Prune \/ UNCHANGED vars
  <2>1. UNCHANGED <<now, assigned, passes, lastExp, lockDeny, jobs, cut>>
    BY <1>4 DEF Account, SetActive, Login, SessionExpires, Prune, vars
  <2>2. Foreseen'
    BY <2>1 DEF Foreseen, PassesLogged, CutsLogged, PassesApart, SkipsJustified,
       Outlasting, AssigningUncut, Valid
  <2>3. \A d \in Device, t \in User :
          \/ row'[d][t] = row[d][t]
          \/ row[d][t].exp <= now /\ row'[d][t] = NoRow
    <3>1. CASE Prune
      BY <3>1 DEF Prune
    <3>2. CASE Account \/ UNCHANGED vars
      BY <3>2 DEF Account, SetActive, Login, SessionExpires, vars
    <3> QED
      BY <1>4, <3>1, <3>2
  (* A row whose revocation has something to shut out has not expired.      *)
  <2>4. ASSUME NEW j \in Job, NEW c \in cut, jobs[j].user = c.user, Carries(j, c.device)
        PROVE  Carries(j, c.device)'
    <3>1. jobs[j].user \in User /\ jobs[j].cur \subseteq Device
      BY DEF TypeOK, JobState
    <3>2. About(jobs[j])' = About(jobs[j]) /\ jobs'[j] = jobs[j]
      BY <2>1 DEF About, AssignedDevices, DevicesOf
    <3>3. ASSUME jobs[j].pc = "reread", NEW e \in jobs[j].cur,
                 row[e][jobs[j].user].by = {j}
          PROVE  row'[e][jobs[j].user].by = {j}
      <4>1. row[e][jobs[j].user].exp = jobs[j].exp
        BY <3>1, <3>3 DEF OwnRows
      <4>2. c.exp <= jobs[j].exp /\ now < c.exp
        BY <2>4, <3>3 DEF Foreseen, Outlasting, CutsLogged, Valid, Deciding
      <4>3. c.exp \in Int /\ now \in Int /\ jobs[j].exp \in Int
        BY DEF TypeOK, Access, JobState, Time
      <4> QED
        BY <2>3, <3>1, <3>3, <4>1, <4>2, <4>3
    <3>4. ASSUME NEW e \in jobs[j].cur
          PROVE  row'[e][jobs[j].user] \in {row[e][jobs[j].user], NoRow}
      BY <2>3, <3>1
    <3> QED
      BY <2>4, <3>2, <3>3, <3>4, CarrierKept
  <2>5. Promised'
    BY <2>1, <2>4 DEF Promised, ShutOut
  <2> QED
    BY <2>2, <2>5
<1>5. ~Restart /\ (\A j \in Job : ~JobFails(j))
      /\ \A f \in Facility : ~GatewayConnects(f) /\ ~GatewayCloses(f)
  BY DEF Paced, Restart, JobFails, GatewayConnects, GatewayCloses, Online
<1> QED
  BY <1>1, <1>2, <1>3, <1>4, <1>5 DEF Next, Environment

(* What is known of revocations when operations are paced.                  *)
Kept ==
  /\ TypeOK /\ ExpiryBounded /\ Orderly /\ Online
  /\ Unclashed /\ OwnRows /\ Foreseen /\ Promised

LEMMA KeptAlways == ASSUME Paced PROVE Spec => []Kept
<1>1. Init => Orderly /\ Online /\ Unclashed /\ OwnRows /\ Foreseen /\ Promised
  BY OrderlyInitially, ForeseenInitially
<1>2. Kept /\ [Next]_vars =>
        Orderly' /\ Online' /\ Unclashed' /\ OwnRows' /\ Foreseen' /\ Promised'
  BY PacedMeans, OrderlyStep, OnlineStep, UnclashedStep, OwnRowsStep,
     ForeseenPromisedStep DEF Kept
<1> QED
  BY <1>1, <1>2, TypeCorrect, ExpiriesBounded, PTL DEF Spec, Kept

LEMMA KeptShutsOut == Kept => RevokedPassShutOut
<1> SUFFICES ASSUME Kept, NEW c \in cut, Quiet(c.device, c.user), ~ShutOut(c)
             PROVE  FALSE
  BY DEF RevokedPassShutOut
<1>1. PICK j \in Job : jobs[j].user = c.user /\ Carries(j, c.device)
  BY DEF Kept, Promised
<1>2. Well(jobs[j])
  BY DEF Kept, Orderly
<1>3. /\ jobs[j].kind \in Revoking
      /\ jobs[j].kind = "deactivated" \/ c.device \in DevicesOf(jobs[j].unit)
  BY <1>1, <1>2 DEF Carries, About, Well, LiftAt, PassAt
<1> QED
  BY <1>1, <1>3 DEF Quiet, Busy, DevicesOf

(* When operations wait for what they could disturb and nothing fails,      *)
(* every access that a revocation took away is shut out at the lock as soon *)
(* as the handlers about it are done: however long they take, and however   *)
(* many revocations of the user end one another on the unique key or by     *)
(* deleting the rows others are about to read back.                         *)
THEOREM RevokedAreShutOut == ASSUME Paced PROVE Spec => []RevokedPassShutOut
  BY KeptAlways, KeptShutsOut, PTL

=============================================================================
