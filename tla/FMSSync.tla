------------------------------ MODULE FMSSync ------------------------------
(***************************************************************************)
(* The synchronisation of a facility with its Facility Management System   *)
(* (fms.service.ts).                                                       *)
(*                                                                         *)
(* A call of performSync enters itself in the map activeSyncs, discards    *)
(* the changes that older syncs left for review, writes a sync log, fetches *)
(* tenants and units from the FMS, stores what differs as change records,  *)
(* and either applies them at once or leaves them to a reviewer.  Every    *)
(* await in between lets other requests run: cancelSync, another           *)
(* performSync, POST /fms/changes/apply.  What is in memory (the calls and *)
(* the map) is lost when the server restarts; logs and changes are not.    *)
(*                                                                         *)
(* A sync's "pc" names the await it is suspended at.  What a change says,  *)
(* and what applying it does to users and units, is not modelled here.     *)
(***************************************************************************)
EXTENDS Naturals

CONSTANTS
  Facility,
  Sync,      \* calls of performSync, which are also the ids of their logs
  Change,    \* ids of change records
  Request,   \* bound: calls of POST /fms/changes/apply in flight at a time
  NoSync,
  Faults     \* the misbehaviour of the environment that is allowed

(*   cancel   users cancel syncs                                           *)
(*   dberror  a database call may fail                                     *)
(*   crash    the server restarts                                          *)
AllFaults == {"cancel", "dberror", "crash"}

ASSUME FMSSyncAssumption ==
  /\ Facility # {}
  /\ NoSync \notin Sync
  /\ Faults \subseteq AllFaults

VARIABLES
  sync,       \* the calls of performSync
  log,        \* fms_sync_logs.sync_status
  change,     \* fms_changes
  request,    \* per apply request, the changes it has yet to apply
  active,     \* activeSyncs: whose AbortController a facility has
  cancelled   \* history: facilities with a cancellation since they last had no sync

vars == <<sync, log, change, request, active, cancelled>>

Setup == {"find", "discard", "supersede", "create"}
Body == {"connect", "fetch", "detect", "publish", "load", "apply", "complete", "record"}
Failing == {"fail", "recordFailure"}

SyncState ==
  [pc : {"new", "ended", "setupFailed"} \cup Setup \cup Body \cup Failing,
   facility : Facility,
   aborted : BOOLEAN,    \* abortController.signal.aborted
   early : BOOLEAN,      \* history: aborted before the wait for the connection was over
   auto : BOOLEAN,       \* config.syncSettings.autoAcceptChanges
   old : SUBSET Sync,    \* the logs whose changes are to be discarded
   cur : SUBSET Sync,    \* the one whose changes were just discarded
   todo : SUBSET Change] \* the changes still to be applied

Status == {"none", "in_progress", "pending_review", "completed", "failed"}

ChangeState ==
  [log : Sync \cup {NoSync}, row : {"none", "stored", "applied", "deleted"}]

TypeOK ==
  /\ sync \in [Sync -> SyncState]
  /\ log \in [Sync -> Status]
  /\ change \in [Change -> ChangeState]
  /\ request \in [Request -> SUBSET Change]
  /\ active \in [Facility -> Sync \cup {NoSync}]
  /\ cancelled \subseteq Facility

NewSync ==
  [pc |-> "new", facility |-> CHOOSE f \in Facility : TRUE, aborted |-> FALSE,
   early |-> FALSE, auto |-> FALSE, old |-> {}, cur |-> {}, todo |-> {}]

Init ==
  /\ sync = [s \in Sync |-> NewSync]
  /\ log = [s \in Sync |-> "none"]
  /\ change = [c \in Change |-> [log |-> NoSync, row |-> "none"]]
  /\ request = [r \in Request |-> {}]
  /\ active = [f \in Facility |-> NoSync]
  /\ cancelled = {}

-----------------------------------------------------------------------------

At(s, p) == sync[s].pc = p
Running(s) == sync[s].pc \in Setup \cup Body \cup Failing
RunningAt(f) == {s \in Sync : Running(s) /\ sync[s].facility = f}
Exists(c) == change[c].row \in {"stored", "applied"}
Found(s) == {c \in Change : change[c].log = s}

Goto(s, p) == sync' = [sync EXCEPT ![s].pc = p]
Become(s, r) == sync' = [sync EXCEPT ![s] = r]

(* What is left of a call that is over.                                    *)
Over(s, p) ==
  [sync[s] EXCEPT !.pc = p, !.auto = FALSE, !.old = {}, !.cur = {}, !.todo = {}]

(* The call is over; with the last one of the facility the consequences of *)
(* a cancellation are.                                                     *)
End(s, p) ==
  /\ Become(s, Over(s, p))
  /\ cancelled' = IF RunningAt(sync[s].facility) = {s}
                    THEN cancelled \ {sync[s].facility} ELSE cancelled

(* Mutated form: the entry of a failed sync stays.                         *)
Finally_OnSuccess(s) ==
  /\ End(s, "ended")
  /\ active' = IF At(s, "record")
                 THEN [active EXCEPT ![sync[s].facility] = NoSync] ELSE active

(* The finally block deletes the entry of the facility, whoever's it is.   *)
Finally(s) ==
  /\ End(s, "ended")
  /\ active' = [active EXCEPT ![sync[s].facility] = NoSync]

-----------------------------------------------------------------------------
(* performSync up to the try.                                              *)

(* Mutated form: the map is not consulted.                                 *)
MayStart_Always(f) == TRUE

MayStart(f) == active[f] = NoSync

(* The configuration and the user's access are checked, then the map, and  *)
(* the map is written, without an await between these two.                 *)
PerformSync(s, f, auto) ==
  /\ At(s, "new")
  /\ MayStart(f)
  /\ Become(s, [NewSync EXCEPT !.pc = "find", !.facility = f, !.auto = auto])
  /\ active' = [active EXCEPT ![f] = s]
  /\ UNCHANGED <<log, change, request, cancelled>>

(* Mutated form: the query is not limited to the facility.                 *)
Pending_AnyFacility(f) == {s \in Sync : log[s] = "pending_review"}

Pending(f) ==
  {s \in Sync : sync[s].facility = f /\ log[s] = "pending_review"}

NextOld(s, old) ==
  Become(s, [sync[s] EXCEPT !.pc = IF old = {} THEN "create" ELSE "discard",
                            !.old = old, !.cur = {}])

FindPending(s) ==
  /\ At(s, "find")
  /\ NextOld(s, Pending(sync[s].facility))
  /\ UNCHANGED <<log, change, request, active, cancelled>>

DiscardChanges(s) ==
  /\ At(s, "discard")
  /\ \E o \in sync[s].old :
       /\ change' = [c \in Change |->
                       IF change[c].log = o THEN [change[c] EXCEPT !.row = "deleted"]
                                            ELSE change[c]]
       /\ Become(s, [sync[s] EXCEPT !.pc = "supersede", !.cur = {o}])
  /\ UNCHANGED <<log, request, active, cancelled>>

Supersede(s) ==
  /\ At(s, "supersede")
  /\ log' = [o \in Sync |-> IF o \in sync[s].cur THEN "failed" ELSE log[o]]
  /\ NextOld(s, sync[s].old \ sync[s].cur)
  /\ UNCHANGED <<change, request, active, cancelled>>

(* Mutated form: the signal is not looked at.                              *)
CheckCancelled_Never(s, p) == p

(* checkCancelled throws into the catch block.                             *)
CheckCancelled(s, p) == IF sync[s].aborted THEN "fail" ELSE p

CreateLog(s) ==
  /\ At(s, "create")
  /\ log' = [log EXCEPT ![s] = "in_progress"]
  /\ Goto(s, CheckCancelled(s, "connect"))
  /\ UNCHANGED <<change, request, active, cancelled>>

(* Nothing catches an error before the try: the entry in the map stays.    *)
(* The log may be written and fail to be read back.                        *)
SetupFails(s) ==
  /\ "dberror" \in Faults
  /\ sync[s].pc \in Setup
  /\ \/ log' = log
     \/ At(s, "create") /\ log' = [log EXCEPT ![s] = "in_progress"]
  /\ End(s, "setupFailed")
  /\ UNCHANGED <<change, request, active>>

-----------------------------------------------------------------------------
(* The try block.                                                          *)

(* The wait of two seconds is over.                                        *)
Connect(s) ==
  /\ At(s, "connect")
  /\ Goto(s, CheckCancelled(s, "fetch"))
  /\ UNCHANGED <<log, change, request, active, cancelled>>

(* Tenants and units arrive, or one of the two requests fails.             *)
Fetch(s) ==
  /\ At(s, "fetch")
  /\ \E p \in {"detect", "fail"} : Goto(s, p)
  /\ UNCHANGED <<log, change, request, active, cancelled>>

(* Another difference is stored as a change record ...                     *)
StoreChange(s, c) ==
  /\ At(s, "detect")
  /\ change[c].row = "none"
  /\ change' = [change EXCEPT ![c] = [log |-> s, row |-> "stored"]]
  /\ UNCHANGED <<sync, log, request, active, cancelled>>

(* ... until there are no more.                                            *)
Detected(s) ==
  /\ At(s, "detect")
  /\ Goto(s, "publish")
  /\ UNCHANGED <<log, change, request, active, cancelled>>

(* Mutated form: a status outside FMSSyncStatus.                           *)
Outcome_Untyped(s) == IF sync[s].auto THEN "applied" ELSE "pending_review"

(* An auto-accepting sync is logged as completed before it applies.        *)
Outcome(s) == IF sync[s].auto THEN "completed" ELSE "pending_review"

Publish(s) ==
  /\ At(s, "publish")
  /\ log' = [log EXCEPT ![s] = Outcome(s)]
  /\ Goto(s, IF sync[s].auto /\ Found(s) # {} THEN "load" ELSE "complete")
  /\ UNCHANGED <<change, request, active, cancelled>>

(* applyChanges: the records that are gone are left out.                   *)
LoadChanges(s) ==
  LET cs == {c \in Found(s) : Exists(c)}
  IN  /\ At(s, "load")
      /\ Become(s, [sync[s] EXCEPT !.pc = IF cs = {} THEN "complete" ELSE "apply",
                                   !.todo = cs])
      /\ UNCHANGED <<log, change, request, active, cancelled>>

(* A change is applied and marked; an error is only counted.               *)
Applied(c) ==
  \/ change' = change
  \/ change' = [change EXCEPT ![c].row = IF @ = "stored" THEN "applied" ELSE @]

ApplyChange(s) ==
  /\ At(s, "apply")
  /\ \E c \in sync[s].todo :
       /\ Applied(c)
       /\ Become(s, [sync[s] EXCEPT
                       !.todo = @ \ {c},
                       !.pc = IF sync[s].todo = {c} THEN "complete" ELSE "apply"])
  /\ UNCHANGED <<log, request, active, cancelled>>

(* markCompleted, whatever the status was.                                 *)
MarkCompleted(s) ==
  /\ At(s, "complete")
  /\ log' = [log EXCEPT ![s] = "completed"]
  /\ Goto(s, "record")
  /\ UNCHANGED <<change, request, active, cancelled>>

(* The end of the sync is noted in the configuration, and with it the      *)
(* call is over.                                                           *)
RecordSuccess(s) ==
  /\ At(s, "record")
  /\ Finally(s)
  /\ UNCHANGED <<log, change, request>>

(* Mutated form: a failure to store or to apply starts over.               *)
BodyFails_Retry(s) ==
  /\ "dberror" \in Faults
  /\ sync[s].pc \in {"detect", "publish", "load", "complete", "record"}
  /\ Goto(s, "connect")
  /\ UNCHANGED <<log, change, request, active, cancelled>>

BodyFails(s) ==
  /\ "dberror" \in Faults
  /\ sync[s].pc \in {"detect", "publish", "load", "complete", "record"}
  /\ Goto(s, "fail")
  /\ UNCHANGED <<log, change, request, active, cancelled>>

(* The catch block.                                                        *)
MarkFailed(s) ==
  /\ At(s, "fail")
  /\ log' = [log EXCEPT ![s] = "failed"]
  /\ Goto(s, "recordFailure")
  /\ UNCHANGED <<change, request, active, cancelled>>

RecordFailure(s) ==
  /\ At(s, "recordFailure")
  /\ Finally(s)
  /\ UNCHANGED <<log, change, request>>

CatchFails(s) ==
  /\ "dberror" \in Faults
  /\ sync[s].pc \in Failing
  /\ Finally(s)
  /\ UNCHANGED <<log, change, request>>

-----------------------------------------------------------------------------
(* The other requests, and restarts.                                       *)

(* cancelSync signals the controller it finds and forgets it.              *)
CancelSync(f) ==
  /\ "cancel" \in Faults
  /\ \E s \in Sync :
       /\ s = active[f]
       /\ sync' = [sync EXCEPT ![s].aborted = TRUE,
                               ![s].early = @ \/ At(s, "connect") \/ sync[s].pc \in Setup]
  /\ active' = [active EXCEPT ![f] = NoSync]
  /\ cancelled' = IF RunningAt(f) = {} THEN cancelled ELSE cancelled \cup {f}
  /\ UNCHANGED <<log, change, request>>

(* POST /fms/changes/apply: of the ids given, those that exist are applied. *)
ApplyRequest(r, cs) ==
  /\ request[r] = {}
  /\ cs # {}
  /\ \A c \in cs : Exists(c)
  /\ request' = [request EXCEPT ![r] = cs]
  /\ UNCHANGED <<sync, log, change, active, cancelled>>

ApplyRequested(r) ==
  /\ \E c \in request[r] :
       /\ Applied(c)
       /\ request' = [request EXCEPT ![r] = @ \ {c}]
  /\ UNCHANGED <<sync, log, active, cancelled>>

Restart ==
  /\ "crash" \in Faults
  /\ sync' = [s \in Sync |-> IF Running(s) THEN Over(s, "ended") ELSE sync[s]]
  /\ request' = [r \in Request |-> {}]
  /\ active' = [f \in Facility |-> NoSync]
  /\ cancelled' = {}
  /\ UNCHANGED <<log, change>>

-----------------------------------------------------------------------------
SyncStep(s) ==
  \/ FindPending(s) \/ DiscardChanges(s) \/ Supersede(s) \/ CreateLog(s)
  \/ Connect(s) \/ Fetch(s) \/ (\E c \in Change : StoreChange(s, c)) \/ Detected(s)
  \/ Publish(s) \/ LoadChanges(s) \/ ApplyChange(s) \/ MarkCompleted(s) \/ RecordSuccess(s)
  \/ MarkFailed(s) \/ RecordFailure(s)

Next ==
  \/ \E s \in Sync :
       \/ \E f \in Facility, auto \in BOOLEAN : PerformSync(s, f, auto)
       \/ SyncStep(s)
       \/ SetupFails(s) \/ BodyFails(s) \/ CatchFails(s)
  \/ \E f \in Facility : CancelSync(f)
  \/ \E r \in Request : \/ \E cs \in SUBSET Change : ApplyRequest(r, cs)
                        \/ ApplyRequested(r)
  \/ Restart

Spec == Init /\ [][Next]_vars

(* Timers fire, database calls and the FMS answer or time out (Node's      *)
(* fetch gives up after five minutes), and the FMS's data is finite.       *)
FairSpec == Spec /\ \A s \in Sync : WF_vars(SyncStep(s))

-----------------------------------------------------------------------------
(* Properties.                                                             *)

(* At most one sync of a facility runs, whatever fails and whenever the    *)
(* server restarts; cancelling is what may break this, until the facility  *)
(* has no sync any more (performSync, activeSyncs).                        *)
ExclusiveUnlessCancelled ==
  \A s, t \in Sync :
    /\ Running(s) /\ Running(t)
    /\ sync[s].facility = sync[t].facility
    /\ sync[s].facility \notin cancelled
    => s = t

(* Two syncs of a facility run at the same time only if one of them was    *)
(* told to stop: performSync "prevents concurrent sync operations".        *)
UncancelledExclude ==
  \A s, t \in Sync :
    /\ Running(s) /\ Running(t) /\ s # t
    /\ sync[s].facility = sync[t].facility
    => sync[s].aborted \/ sync[t].aborted

(* The clean-up of a sync deletes no change of a sync that is still at     *)
(* work, unless there was a cancellation.                                  *)
DiscardsOnlyEnded ==
  [][\A c \in Change :
       change[c].row # "deleted" /\ change'[c].row = "deleted"
         => LET s == change[c].log
            IN  ~Running(s) \/ sync[s].facility \in cancelled]_vars

(* When a sync is under way, the changes that older syncs of the facility  *)
(* left unapplied are gone: the clean-up "prevents stale data from         *)
(* accumulating" (performSync).                                            *)
StaleChangesDiscarded ==
  \A s \in Sync, c \in Change :
    sync[s].pc \in Body /\ change[c].row = "stored" /\ change[c].log # s
      => sync[change[c].log].facility # sync[s].facility

(* A sync that is cancelled before it has connected stores no change.      *)
EarlyCancelHonoured == \A s \in Sync : sync[s].early => Found(s) = {}

(* The entry in activeSyncs, which keeps further syncs of the facility out, *)
(* is that of a running sync of the facility, or was left behind by one    *)
(* that failed before its try block.                                       *)
EntryHeld ==
  \A f \in Facility, s \in Sync :
    active[f] = s => /\ sync[s].facility = f
                     /\ Running(s) \/ At(s, "setupFailed")

(* How far a call has come; its loops are in two stages.                   *)
Stage(s) ==
  CASE s.pc = "new"                        -> 0
    [] s.pc = "find"                       -> 1
    [] s.pc \in {"discard", "supersede"}   -> 2
    [] s.pc = "create"                     -> 3
    [] s.pc = "connect"                    -> 4
    [] s.pc = "fetch"                      -> 5
    [] s.pc = "detect"                     -> 6
    [] s.pc = "publish"                    -> 7
    [] s.pc = "load"                       -> 8
    [] s.pc = "apply"                      -> 9
    [] s.pc = "complete"                   -> 10
    [] s.pc = "record"                     -> 11
    [] s.pc = "fail"                       -> 12
    [] s.pc = "recordFailure"              -> 13
    [] OTHER                               -> 14

(* The loops have less left: logs to discard and to mark, changes to apply. *)
LessLeft(r, s) ==
  /\ r.old \subseteq s.old /\ r.old \ r.cur \subseteq s.old \ s.cur
  /\ r.todo \subseteq s.todo
  /\ r.old # s.old \/ r.old \ r.cur # s.old \ s.cur \/ r.todo # s.todo

(* A sync never starts over and its loops end: whatever fails, is cancelled *)
(* or restarts, and whoever discards or applies the same changes, each of  *)
(* its steps leaves it with less to do (performSync, applyChanges).        *)
SyncsAdvance ==
  [][\A s \in Sync :
       \/ Stage(sync'[s]) > Stage(sync[s])
       \/ Stage(sync'[s]) = Stage(sync[s]) /\ LessLeft(sync'[s], sync[s])
       \/ UNCHANGED <<sync[s].pc, sync[s].old, sync[s].cur, sync[s].todo>>]_vars

(* A facility is free for the next sync sooner or later, unless its sync   *)
(* failed before its try block.                                            *)
FacilityReleased ==
  \A f \in Facility, s \in Sync :
    active[f] = s ~> active[f] # s \/ At(s, "setupFailed")
=============================================================================
