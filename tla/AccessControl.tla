--------------------------- MODULE AccessControl ---------------------------
(* Whom locks open for: what access control comes to, without signatures,  *)
(* rows, commands and gateways.  Every variable is a set of pairs of a     *)
(* lock and a user.                                                        *)

VARIABLES
  holds,    \* the user holds the unit of the lock
  carried,  \* the user has an unexpired pass for the lock
  denied,   \* the lock denies the user
  pending   \* an assignment or a revocation of the two is being handled

controlVars == <<holds, carried, denied, pending>>

ControlInit == holds = {} /\ carried = {} /\ denied = {} /\ pending = {}

Opens == carried \ denied

(* A user gets a unit, and somebody is going to lift the denials.          *)
Grant ==
  /\ holds \subseteq holds' /\ pending \subseteq pending'
  /\ holds' \ holds \subseteq pending'
  /\ UNCHANGED <<carried, denied>>

(* A user loses a unit, or what it is worth, and somebody is going to deny. *)
Withdraw ==
  /\ holds' \subseteq holds /\ pending \subseteq pending'
  /\ holds \ holds' \subseteq pending'
  /\ UNCHANGED <<carried, denied>>

(* A pass is for locks of units its user holds.                            *)
Issue ==
  /\ carried \subseteq carried' /\ carried' \ carried \subseteq holds
  /\ UNCHANGED <<holds, denied, pending>>

(* Handlers deny, lift denials that shut out no one but holders, and end   *)
(* when the lock opens for holders only.                                   *)
Handle ==
  /\ denied' \ denied \subseteq pending
  /\ denied \ denied' \subseteq pending
  /\ (denied \ denied') \cap carried \subseteq holds
  /\ pending' \subseteq pending
  /\ (pending \ pending') \cap Opens' \subseteq holds
  /\ UNCHANGED <<holds, carried>>

(* Passes and denials expire, denials not before the passes they shut out. *)
Lapse ==
  /\ carried' \subseteq carried /\ denied' \subseteq denied
  /\ Opens' \ Opens \subseteq holds \cup pending
  /\ UNCHANGED <<holds, pending>>

ControlNext == Grant \/ Withdraw \/ Issue \/ Handle \/ Lapse

ControlSpec == ControlInit /\ [][ControlNext]_controlVars

(* A lock opens for who holds its unit, but for handlers still to come.    *)
OpensForHolders == Opens \subseteq holds \cup pending
=============================================================================
