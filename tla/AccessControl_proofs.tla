------------------------ MODULE AccessControl_proofs ------------------------
(***************************************************************************)
(* AccessControl keeps locks to the users who hold their units, and        *)
(* AccessRevocation implements it as long as operations wait for what they *)
(* could disturb and nothing fails, however long handlers take.            *)
(***************************************************************************)
EXTENDS RevocationPaced_proofs

-----------------------------------------------------------------------------
(* The abstract specification.                                              *)

(* Of what AccessControl allows nothing opens a lock for a user without its *)
(* unit, but for handlers still to come.                                    *)
THEOREM ControlSuffices == Control!ControlSpec => []Control!OpensForHolders
<1> DEFINE Only == Control!OpensForHolders
<1>1. Control!ControlInit => Only
  BY DEF Control!ControlInit, Control!OpensForHolders, Control!Opens
<1>2. ASSUME Only, [Control!ControlNext]_(Control!controlVars) PROVE Only'
  <2>1. CASE Control!Grant
    BY <1>2, <2>1 DEF Control!Grant, Control!OpensForHolders, Control!Opens
  <2>2. CASE Control!Withdraw
    BY <1>2, <2>2 DEF Control!Withdraw, Control!OpensForHolders, Control!Opens
  <2>3. CASE Control!Issue
    BY <1>2, <2>3 DEF Control!Issue, Control!OpensForHolders, Control!Opens
  <2>4. CASE Control!Handle
    BY <1>2, <2>4 DEF Control!Handle, Control!OpensForHolders, Control!Opens
  <2>5. CASE Control!Lapse
    BY <1>2, <2>5 DEF Control!Lapse, Control!OpensForHolders, Control!Opens
  <2>6. CASE UNCHANGED Control!controlVars
    BY <1>2, <2>6 DEF Control!controlVars, Control!OpensForHolders, Control!Opens
  <2> QED
    BY <1>2, <2>1, <2>2, <2>3, <2>4, <2>5, <2>6 DEF Control!ControlNext
<1> QED
  BY <1>1, <1>2, PTL DEF Control!ControlSpec

-----------------------------------------------------------------------------
(* What a pass is for.                                                      *)

(* A pass that is being issued is for locks its user has: nobody takes a    *)
(* unit away meanwhile.                                                     *)
PassesGranted ==
  \A j \in Job : jobs[j].pc \in {"sign", "log"} =>
    jobs[j].targets \subseteq AssignedDevices(jobs[j].user)

(* A pass in hand for a unit that its user has no more is to be shut out.   *)
Foreclosed ==
  \A p \in passes : \A d \in p.aud :
    <<UnitOf[d], p.user>> \notin assigned =>
      [user |-> p.user, device |-> d, exp |-> p.exp] \in cut

LEMMA GrantedStart ==
  ASSUME TypeOK, Paced, Orderly, PassesGranted, Foreclosed, Operation
  PROVE  PassesGranted' /\ Foreclosed'
<1>1. PICK j \in Job, t \in User : \E k, p, u : Starts(k, p, j, t, u)
  BY OperationStarts
<1>2. PICK k, p, u : Starts(k, p, j, t, u)
  BY <1>1
<1>3. passes' = passes
  BY OperationStarts
<1> DEFINE r == Started(k, p, t, u)
<1>4. \A i \in Job : jobs'[i] = IF i = j THEN r ELSE jobs[i]
  BY <1>2, Begins DEF Starts
<1>5. r.pc = p /\ p \in {"find", "devices", "audience"}
  BY <1>2, StartedShape DEF Starts
<1> HIDE DEF r
<1>6. \/ /\ assigned' = assigned \cup {<<u, t>>}
         /\ cut' = {c \in cut : ~(c.user = t /\ UnitOf[c.device] = u)}
      \/ /\ assigned' = assigned \ {<<u, t>>} /\ u \in Unit /\ MayRevoke(t, u)
         /\ cut' = cut \cup Held(t, DevicesOf(u))
      \/ assigned' = assigned /\ cut \subseteq cut'
  BY <1>2 DEF Starts
<1>7. PassesGranted'
  <2> SUFFICES ASSUME NEW i \in Job, jobs'[i].pc \in {"sign", "log"},
                      NEW d \in jobs'[i].targets
               PROVE  d \in Device /\ <<UnitOf[d], jobs'[i].user>> \in assigned'
    BY DEF PassesGranted, AssignedDevices
  <2>1. jobs'[i] = jobs[i] /\ jobs[i].pc \in {"sign", "log"}
    BY <1>4, <1>5
  <2>2. d \in Device /\ <<UnitOf[d], jobs[i].user>> \in assigned
    BY <2>1 DEF PassesGranted, AssignedDevices
  <2>3. jobs[i].kind = "pass"
    BY <2>1 DEF Orderly, Well, RevokeAt, LiftAt
  <2>4. MayRevoke(t, u) => jobs[i].user # t
    BY <2>3, PacedWaits
  <2> QED
    BY <1>6, <2>1, <2>2, <2>4
<1>8. Foreclosed'
  <2> SUFFICES ASSUME NEW q \in passes, NEW d \in q.aud, <<UnitOf[d], q.user>> \notin assigned'
               PROVE  [user |-> q.user, device |-> d, exp |-> q.exp] \in cut'
    BY <1>3 DEF Foreclosed
  <2> DEFINE c == [user |-> q.user, device |-> d, exp |-> q.exp]
  <2>1. d \in Device /\ q.user \in User
    BY DEF TypeOK, Pass
  <2>2. CASE <<UnitOf[d], q.user>> \notin assigned
    BY <1>6, <2>2 DEF Foreclosed
  <2>3. CASE <<UnitOf[d], q.user>> \in assigned
    <3>1. q.user = t /\ UnitOf[d] = u /\ cut' = cut \cup Held(t, DevicesOf(u))
      BY <1>6, <2>3
    <3>2. c \in Held(t, DevicesOf(u))
      BY <2>1, <3>1 DEF Held, DevicesOf
    <3> QED
      BY <3>1, <3>2
  <2> QED
    BY <2>2, <2>3
<1> QED
  BY <1>7, <1>8

LEMMA GrantedJob ==
  ASSUME TypeOK, Orderly, PassesGranted, Foreclosed, NEW j \in Job, JobStep(j)
  PROVE  PassesGranted' /\ Foreclosed'
<1> DEFINE s == jobs[j]
<1>1. /\ s \in JobState /\ UNCHANGED <<assigned, cut>>
      /\ \A i \in Job : i # j => jobs'[i] = jobs[i]
      /\ jobs'[j] = Idle \/ (jobs'[j].kind = s.kind /\ jobs'[j].user = s.user)
  BY HandlerFrame, Turns DEF TypeOK
<1>2. jobs'[j].pc \in {"sign", "log"} => jobs'[j].targets \subseteq AssignedDevices(s.user)
  <2>1. CASE ResolveAudiences(j)
    <3> DEFINE r == [s EXCEPT !.pc = "sign", !.targets = AssignedDevices(s.user)]
    <3>1. Become(j, r) /\ r.targets = AssignedDevices(s.user)
      BY <1>1, <2>1 DEF ResolveAudiences, JobState
    <3> HIDE DEF r
    <3> QED
      BY <3>1, Becomes
  <2>2. CASE SignPass(j)
    <3> DEFINE r == [s EXCEPT !.pc = "log", !.exp = now + TTL]
    <3>1. Become(j, r) /\ r.targets = s.targets /\ s.pc = "sign"
      BY <1>1, <2>2 DEF SignPass, At, JobState
    <3> HIDE DEF r
    <3> QED
      BY <3>1, Becomes DEF PassesGranted
  <2>3. CASE LogAndRespond(j)
    <3>1. jobs'[j] = Idle
      BY <2>3 DEF LogAndRespond, Finish, TypeOK
    <3> QED
      BY <3>1, IdleWell
  <2>4. CASE s.kind # "pass"
    <3>1. Well(jobs[j])'
      BY OrderlyJob DEF Orderly
    <3> QED
      BY <1>1, <2>4, <3>1, IdleWell DEF Well, RevokeAt, LiftAt, PassAt
  <2>5. s.kind = "pass" => ResolveAudiences(j) \/ SignPass(j) \/ LogAndRespond(j)
    <3>1. s.kind = "pass" => s.pc \in PassAt
      BY DEF Orderly, Well, Revoking
    <3> QED
      BY <3>1 DEF PassAt, JobStep, At, ReadDevices, CheckPass, ClearRow, InsertRow, ReadBack, SendAdd,
         FindRows, FilterRows, RemoveRow, SendRemove
  <2> QED
    BY <2>1, <2>2, <2>3, <2>4, <2>5
<1>3. PassesGranted'
  BY <1>1, <1>2, IdleWell DEF PassesGranted, AssignedDevices
<1>4. \A p \in passes' : p \in passes \/ (p.user = s.user /\ p.aud \subseteq AssignedDevices(s.user))
  <2>1. CASE LogAndRespond(j)
    <3>1. s.targets \subseteq AssignedDevices(s.user)
      BY <2>1 DEF LogAndRespond, At, PassesGranted
    <3>2. \E logged : passes' \subseteq passes \cup
            {[user |-> s.user, aud |-> s.targets, exp |-> s.exp, logged |-> logged]}
      BY <2>1 DEF LogAndRespond
    <3> QED
      BY <3>1, <3>2
  <2>2. CASE ~LogAndRespond(j)
    BY <2>2 DEF JobStep, ReadDevices, CheckPass, ClearRow, InsertRow, ReadBack, SendAdd, FindRows,
       FilterRows, RemoveRow, SendRemove, ResolveAudiences, SignPass
  <2> QED
    BY <2>1, <2>2
<1>5. Foreclosed'
  BY <1>1, <1>4 DEF Foreclosed, AssignedDevices
<1> QED
  BY <1>3, <1>5

LEMMA GrantedStep ==
  ASSUME TypeOK, Paced, Orderly, PassesGranted, Foreclosed, [Next]_vars
  PROVE  PassesGranted' /\ Foreclosed'
<1>1. CASE Operation
  BY <1>1, GrantedStart
<1>2. CASE \E j \in Job : JobStep(j)
  BY <1>2, GrantedJob
<1>3. CASE Tick
  <2>1. /\ UNCHANGED <<assigned, jobs>>
        /\ passes' = {p \in passes : p.exp > now + 1}
        /\ cut' = {c \in cut : c.exp > now + 1}
    BY <1>3 DEF Tick
  <2> QED
    BY <2>1 DEF PassesGranted, Foreclosed, AssignedDevices
<1>4. CASE (Account \/ Environment \/ UNCHANGED vars) /\ ~Tick
  <2>1. UNCHANGED <<assigned, jobs, passes, cut>>
    BY <1>4 DEF Account, SetActive, Login, SessionExpires, Environment, Prune,
       Restart, JobFails, GatewayConnects, GatewayCloses, Paced, vars
  <2> QED
    BY <2>1 DEF PassesGranted, Foreclosed, AssignedDevices
<1> QED
  BY <1>1, <1>2, <1>3, <1>4 DEF Next

-----------------------------------------------------------------------------
(* The refinement.                                                          *)

Controlled == Kept /\ PassesGranted /\ Foreclosed

LEMMA ControlledAlways == ASSUME Paced PROVE Spec => []Controlled
<1>1. Init => PassesGranted /\ Foreclosed
  BY IdleWell DEF Init, PassesGranted, Foreclosed
<1>2. Kept /\ PassesGranted /\ Foreclosed /\ [Next]_vars => PassesGranted' /\ Foreclosed'
  BY GrantedStep DEF Kept
<1> QED
  BY <1>1, <1>2, KeptAlways, PTL DEF Spec, Controlled

LEMMA Pairs ==
  ASSUME NEW w \in Pair
  PROVE  w[1] \in Device /\ w[2] \in User /\ w = <<w[1], w[2]>>
  BY DEF Pair

(* Only a handler about the two makes a lock open for a user without its    *)
(* unit.                                                                    *)
LEMMA OnlyForHolders == Controlled => Control!OpensForHolders
<1> SUFFICES ASSUME Controlled, NEW w \in InHand, w \notin DeniedAt,
                    w \notin HeldBy, w \notin BeingHandled
             PROVE  FALSE
  BY DEF Control!OpensForHolders, Control!Opens
<1>1. /\ w \in Pair /\ lockDeny[w[1]][w[2]] = 0
      /\ <<UnitOf[w[1]], w[2]>> \notin assigned /\ Quiet(w[1], w[2])
  BY DEF InHand, DeniedAt, HeldBy, BeingHandled
<1>2. PICK p \in passes : p.user = w[2] /\ w[1] \in p.aud
  BY DEF InHand
<1> DEFINE c == [user |-> p.user, device |-> w[1], exp |-> p.exp]
<1>3. c \in cut
  BY <1>1, <1>2 DEF Controlled, Foreclosed
<1>4. ShutOut(c)
  BY <1>1, <1>2, <1>3, KeptShutsOut DEF Controlled, RevokedPassShutOut
<1>5. now < p.exp /\ now \in Nat /\ p.exp \in Nat
  BY DEF Controlled, Kept, Foreseen, PassesLogged, Valid, TypeOK, Pass, Time
<1> QED
  BY <1>1, <1>2, <1>4, <1>5 DEF ShutOut

(* What the variables of AccessControl depend on.                           *)
LEMMA SameControl ==
  /\ assigned' = assigned => HeldBy' = HeldBy
  /\ passes' = passes => InHand' = InHand
  /\ lockDeny' = lockDeny => DeniedAt' = DeniedAt
  /\ jobs' = jobs => BeingHandled' = BeingHandled
  BY DEF HeldBy, InHand, DeniedAt, BeingHandled, Quiet, Busy

LEMMA ControlStutters ==
  ASSUME UNCHANGED <<HeldBy, InHand, DeniedAt, BeingHandled>>
  PROVE  [Control!ControlNext]_(Control!controlVars)
  BY DEF Control!controlVars

LEMMA ControlStart ==
  ASSUME TypeOK, Operation
  PROVE  [Control!ControlNext]_(Control!controlVars)
<1>1. PICK j \in Job, t \in User : \E k, p, u : Starts(k, p, j, t, u)
  BY OperationStarts
<1>2. PICK k, p, u : Starts(k, p, j, t, u)
  BY <1>1
<1>3. UNCHANGED <<InHand, DeniedAt>>
  BY OperationStarts, SameControl
<1> DEFINE r == Started(k, p, t, u)
<1>4. /\ jobs[j].kind = "idle"
      /\ \A i \in Job : jobs'[i] = IF i = j THEN r ELSE jobs[i]
  BY <1>2, Begins DEF Starts
<1>5. r.kind = k /\ r.user = t /\ r.unit = u
  BY StartedShape
<1> HIDE DEF r
<1>6. BeingHandled \subseteq BeingHandled'
  BY <1>4 DEF BeingHandled, Quiet, Busy, Revoking
<1>7. CASE k = "assigned" /\ assigned' = assigned \cup {<<u, t>>}
  <2>1. HeldBy \subseteq HeldBy'
    BY <1>7 DEF HeldBy
  <2>2. HeldBy' \ HeldBy \subseteq BeingHandled'
    BY <1>4, <1>5, <1>7 DEF HeldBy, BeingHandled, Quiet, Busy
  <2> QED
    BY <1>3, <1>6, <2>1, <2>2 DEF Control!Grant, Control!ControlNext
<1>8. CASE k = "unassigned" /\ assigned' = assigned \ {<<u, t>>}
  <2>1. HeldBy' \subseteq HeldBy
    BY <1>8 DEF HeldBy
  <2>2. HeldBy \ HeldBy' \subseteq BeingHandled'
    BY <1>4, <1>5, <1>8 DEF HeldBy, BeingHandled, Quiet, Busy, Revoking
  <2> QED
    BY <1>3, <1>6, <2>1, <2>2 DEF Control!Withdraw, Control!ControlNext
<1>9. CASE assigned' = assigned
  BY <1>3, <1>6, <1>9, SameControl DEF Control!Withdraw, Control!ControlNext
<1> QED
  BY <1>2, <1>7, <1>8, <1>9 DEF Starts

(* A handler is about the locks of its unit, or of all units of its user.   *)
LEMMA Handled ==
  ASSUME TypeOK, NEW j \in Job, jobs[j].kind \in Revoking \cup {"assigned"},
         NEW d \in Device, jobs[j].kind = "deactivated" \/ UnitOf[d] = jobs[j].unit
  PROVE  <<d, jobs[j].user>> \in BeingHandled
  BY DEF BeingHandled, Pair, Quiet, Busy, TypeOK, JobState

LEMMA ControlDeny ==
  ASSUME Controlled, NEW j \in Job, SendAdd(j)
  PROVE  /\ DeniedAt' \ DeniedAt \subseteq BeingHandled
         /\ DeniedAt \ DeniedAt' \subseteq BeingHandled
         /\ (DeniedAt \ DeniedAt') \cap InHand = {}
<1> DEFINE s == jobs[j]
<1>1. /\ TypeOK /\ Orderly /\ Foreseen
      /\ s \in JobState /\ Well(s) /\ s.pc = "sendAdd"
  BY DEF Controlled, Kept, Orderly, TypeOK, SendAdd, At
<1>2. PICK f, x :
        /\ Unicast(f, {d \in s.todo : FacilityOfDevice(d) = f}, s.user, x)
        /\ x = IF s.exp > now THEN s.exp ELSE 0
  BY DEF SendAdd
<1>3. /\ s.kind \in Revoking
      /\ \A d \in s.todo : s.kind = "deactivated" \/ UnitOf[d] = s.unit
  BY <1>1 DEF Well, LiftAt, PassAt, DevicesOf
<1>4. ASSUME NEW w \in Pair, lockDeny'[w[1]][w[2]] # lockDeny[w[1]][w[2]]
      PROVE  w \in BeingHandled /\ w[2] = s.user /\ lockDeny'[w[1]][w[2]] = x
  <2>1. w[1] \in s.todo /\ w[2] = s.user /\ lockDeny'[w[1]][w[2]] = x
    BY <1>1, <1>2, <1>4, Pairs DEF Unicast, TypeOK
  <2>2. <<w[1], s.user>> \in BeingHandled
    BY <1>1, <1>3, <2>1, Pairs, Handled
  <2> QED
    BY <2>1, <2>2, Pairs
<1>5. DeniedAt' \ DeniedAt \subseteq BeingHandled /\ DeniedAt \ DeniedAt' \subseteq BeingHandled
  BY <1>4 DEF DeniedAt
<1>6. ASSUME NEW w \in DeniedAt, w \notin DeniedAt', w \in InHand
      PROVE  FALSE
  <2>1. w[2] = s.user /\ x = 0
    BY <1>4, <1>6 DEF DeniedAt
  <2>2. PICK p \in passes : p.user = s.user
    BY <1>6, <2>1 DEF InHand
  <2>3. p.exp <= s.exp /\ now < p.exp
    BY <1>1, <2>2 DEF Foreseen, Outlasting, Deciding, PassesLogged, Valid
  <2>4. now \in Nat /\ p.exp \in Nat /\ s.exp \in Nat
    BY <1>1 DEF TypeOK, Pass, JobState, Time
  <2> QED
    BY <1>2, <2>1, <2>3, <2>4
<1> QED
  BY <1>5, <1>6

LEMMA ControlLift ==
  ASSUME Controlled, NEW j \in Job, SendRemove(j)
  PROVE  /\ DeniedAt' \subseteq DeniedAt
         /\ DeniedAt \ DeniedAt' \subseteq BeingHandled \cap HeldBy
<1> DEFINE s == jobs[j]
<1>1. /\ TypeOK /\ Orderly /\ s \in JobState /\ Current(s)
      /\ s.pc = "sendRemove" /\ Unicast(FacilityOf[s.unit], s.targets, s.user, 0)
  BY DEF Controlled, Kept, Orderly, TypeOK, SendRemove, At
<1>2. ASSUME NEW w \in Pair, lockDeny'[w[1]][w[2]] # lockDeny[w[1]][w[2]]
      PROVE  w \in BeingHandled \cap HeldBy /\ lockDeny'[w[1]][w[2]] = 0
  <2>1. w[1] \in s.targets /\ w[2] = s.user /\ lockDeny'[w[1]][w[2]] = 0
    BY <1>1, <1>2, Pairs DEF Unicast, TypeOK
  <2>2. s.kind = "assigned" /\ s.unit = UnitOf[w[1]]
    BY <1>1, <2>1, Pairs, LiftingShape
  <2>3. <<w[1], s.user>> \in BeingHandled
    BY <1>1, <2>2, Pairs, Handled
  <2>4. w \in HeldBy
    BY <1>1, <2>1, <2>2 DEF Current, HeldBy
  <2> QED
    BY <2>1, <2>3, <2>4, Pairs
<1> QED
  BY <1>2 DEF DeniedAt

LEMMA ControlJob ==
  ASSUME Controlled, Control!OpensForHolders', NEW j \in Job, JobStep(j)
  PROVE  [Control!ControlNext]_(Control!controlVars)
<1> DEFINE s == jobs[j]
<1>1. /\ TypeOK /\ Orderly /\ s \in JobState /\ Well(s)
      /\ UNCHANGED HeldBy
      /\ \A i \in Job : i # j => jobs'[i] = jobs[i]
      /\ \/ jobs'[j] = Idle
         \/ jobs'[j].kind = s.kind /\ jobs'[j].user = s.user /\ jobs'[j].unit = s.unit
  BY HandlerFrame, Turns, SameControl DEF Controlled, Kept, Orderly, TypeOK
<1>2. BeingHandled' \subseteq BeingHandled
  BY <1>1, IdleWell DEF BeingHandled, Quiet, Busy, Revoking
<1>3. CASE LogAndRespond(j)
  <2>1. s.kind = "pass" /\ UNCHANGED DeniedAt
    BY <1>1, <1>3, SameControl DEF LogAndRespond, At, Well, RevokeAt, LiftAt
  <2>2. BeingHandled' = BeingHandled
    BY <1>1, <1>2, <2>1, IdleWell DEF BeingHandled, Quiet, Busy, Revoking
  <2>3. \E logged : passes' \in
          {passes, passes \cup {[user |-> s.user, aud |-> s.targets, exp |-> s.exp,
                                 logged |-> logged]}}
    BY <1>3 DEF LogAndRespond
  <2>4. s.targets \subseteq AssignedDevices(s.user)
    BY <1>3 DEF Controlled, PassesGranted, LogAndRespond, At
  <2>5. InHand \subseteq InHand' /\ InHand' \ InHand \subseteq HeldBy
    BY <2>3, <2>4 DEF InHand, HeldBy, AssignedDevices
  <2> QED
    BY <1>1, <2>1, <2>2, <2>5 DEF Control!Issue, Control!ControlNext
<1>4. CASE ~LogAndRespond(j)
  <2>1. UNCHANGED InHand
    BY <1>4, SameControl DEF JobStep, ReadDevices, CheckPass, ClearRow, InsertRow, ReadBack, SendAdd,
       FindRows, FilterRows, RemoveRow, SendRemove, ResolveAudiences, SignPass
  <2>2. /\ DeniedAt' \ DeniedAt \subseteq BeingHandled
        /\ DeniedAt \ DeniedAt' \subseteq BeingHandled
        /\ (DeniedAt \ DeniedAt') \cap InHand \subseteq HeldBy
    <3>1. CASE SendAdd(j)
      BY <3>1, ControlDeny
    <3>2. CASE SendRemove(j)
      BY <3>2, ControlLift
    <3>3. CASE ~SendAdd(j) /\ ~SendRemove(j)
      BY <1>4, <3>3, SameControl DEF JobStep, ReadDevices, CheckPass, ClearRow, InsertRow, ReadBack,
         FindRows, FilterRows, RemoveRow, ResolveAudiences, SignPass
    <3> QED
      BY <3>1, <3>2, <3>3
  <2>3. (BeingHandled \ BeingHandled') \cap (InHand \ DeniedAt)' \subseteq HeldBy
    BY <1>1 DEF Control!OpensForHolders, Control!Opens
  <2> QED
    BY <1>1, <1>2, <2>1, <2>2, <2>3 DEF Control!Handle, Control!Opens, Control!ControlNext
<1> QED
  BY <1>3, <1>4

LEMMA ControlLapse ==
  ASSUME Controlled, Control!OpensForHolders', Tick
  PROVE  Control!Lapse
<1>1. UNCHANGED <<HeldBy, BeingHandled>>
  BY SameControl DEF Tick
<1>2. InHand' \subseteq InHand
  BY DEF Tick, InHand
<1>3. DeniedAt' \subseteq DeniedAt
  <2>1. \A d \in Device, t \in User : lockDeny'[d][t] # 0 => lockDeny[d][t] # 0
    BY DEF Tick
  <2> QED
    BY <2>1, Pairs DEF DeniedAt
<1>4. (InHand \ DeniedAt)' \subseteq HeldBy \cup BeingHandled
  BY <1>1 DEF Control!OpensForHolders, Control!Opens
<1> QED
  BY <1>1, <1>2, <1>3, <1>4 DEF Control!Lapse, Control!Opens

LEMMA ControlStep ==
  ASSUME Paced, Controlled, Control!OpensForHolders', [Next]_vars
  PROVE  [Control!ControlNext]_(Control!controlVars)
<1>1. CASE Operation
  BY <1>1, ControlStart DEF Controlled, Kept
<1>2. CASE \E j \in Job : JobStep(j)
  BY <1>2, ControlJob
<1>3. CASE Tick
  BY <1>3, ControlLapse DEF Control!ControlNext
<1>4. CASE (Account \/ Environment \/ UNCHANGED vars) /\ ~Tick
  <2>1. UNCHANGED <<assigned, jobs, passes, lockDeny>>
    BY <1>4 DEF Account, SetActive, Login, SessionExpires, Environment, Prune,
       Restart, JobFails, GatewayConnects, GatewayCloses, Paced, vars
  <2> QED
    BY <2>1, SameControl, ControlStutters
<1> QED
  BY <1>1, <1>2, <1>3, <1>4 DEF Next

LEMMA ControlStarts == Init => Control!ControlInit
<1> SUFFICES ASSUME Init PROVE Control!ControlInit
  OBVIOUS
<1>1. HeldBy = {} /\ InHand = {}
  BY DEF Init, HeldBy, InHand
<1>2. DeniedAt = {}
  BY Pairs DEF Init, DeniedAt
<1>3. BeingHandled = {}
  BY IdleWell DEF Init, BeingHandled, Quiet, Busy, Revoking
<1> QED
  BY <1>1, <1>2, <1>3 DEF Control!ControlInit

(* Passes, denylist rows and commands implement AccessControl, when         *)
(* operations wait for what they could disturb and nothing fails: a lock    *)
(* opens for a user without its unit only while a handler is about the two, *)
(* however long it takes.                                                   *)
THEOREM AccessIsControlled == ASSUME Paced PROVE Spec => AccessControlled
<1>1. Controlled /\ Control!OpensForHolders' /\ [Next]_vars
        => [Control!ControlNext]_(Control!controlVars)
  BY ControlStep
<1> QED
  BY <1>1, OnlyForHolders, ControlStarts, ControlledAlways, PTL
     DEF Spec, AccessControlled, Control!ControlSpec

(* Hence no lock opens for a user who does not have its unit, unless a      *)
(* handler about the two is in flight (unit_assignments against what passes *)
(* and denials let through).                                                *)
COROLLARY LocksOpenForHolders == ASSUME Paced PROVE Spec => []Control!OpensForHolders
  BY AccessIsControlled, ControlSuffices, PTL DEF AccessControlled

=============================================================================
