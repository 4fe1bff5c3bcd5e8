--------------------------- MODULE MCLiveUpdates ---------------------------
(* Instances of LiveUpdates for TLC.                                       *)
EXTENDS LiveUpdates, TLC

CONSTANTS browser, s1, s2, widget, logs

\* One browser, of whose two sockets the service may see both at a time: the
\* first of a global role, the second of one whose facilities are looked up.
TwoSockets == browser :> {s1, s2}
FirstPermitted == {<<s1, widget>>, <<s1, logs>>}
BothPermitted == {<<s1, widget>>, <<s2, widget>>}
=============================================================================
