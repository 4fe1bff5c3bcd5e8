----------------------------- MODULE UpdateFeed -----------------------------
(* What the live updates promise a socket, without ids, clocks or          *)
(* broadcasts: a confirmed subscription is listened to until the socket    *)
(* withdraws it or dies, or another request of the same moment takes its   *)
(* place, and a dead socket listens to nothing, ever again.                *)
CONSTANTS
  Socket, Type,
  Paced   \* TRUE: no two requests are of the same moment

VARIABLES
  dead,       \* sockets that were connected and are gone
  listening,  \* <<socket, type>>: updates of the type reach the socket
  promised    \* <<socket, type>>: the socket was told so, and may rely on it

feedVars == <<dead, listening, promised>>

FeedInit == dead = {} /\ listening = {} /\ promised = {}

Listen(ws, t) ==
  /\ ws \notin dead
  /\ listening' = listening \cup {<<ws, t>>}
  /\ UNCHANGED <<dead, promised>>

\* Only what is listened to is promised.
Promise(ws, t) ==
  /\ <<ws, t>> \in listening
  /\ promised' = promised \cup {<<ws, t>>}
  /\ UNCHANGED <<dead, listening>>

\* A request of the same moment as others: who was promised updates by them may
\* not rely on it any more.
Clash(ws, t, lost) ==
  /\ ~Paced
  /\ ws \notin dead
  /\ listening' \in {listening, listening \cup {<<ws, t>>}}
  /\ promised' = promised \ (lost \X {t})
  /\ UNCHANGED dead

\* Nothing else ends a promise.  Updates may go on for a while.
Withdraw(ws, t) ==
  /\ promised' = promised \ {<<ws, t>>}
  /\ listening' \in {listening, listening \ {<<ws, t>>}}
  /\ UNCHANGED dead

\* The socket is no longer open: every promise to it ends with it.
Die(ws) ==
  /\ dead' = dead \cup {ws}
  /\ promised' = promised \ ({ws} \X Type)
  /\ UNCHANGED listening

\* Updates for sockets that died are dropped sooner or later, type by type.
Forget(gone) ==
  /\ \A w \in gone : w[1] \in dead
  /\ listening' = listening \ gone
  /\ UNCHANGED <<dead, promised>>

FeedNext ==
  \/ \E ws \in Socket : Die(ws)
  \/ \E ws \in Socket, t \in Type : Listen(ws, t) \/ Promise(ws, t) \/ Withdraw(ws, t)
  \/ \E ws \in Socket, t \in Type, lost \in SUBSET Socket : Clash(ws, t, lost)
  \/ \E gone \in SUBSET listening : Forget(gone)

FeedSpec == FeedInit /\ [][FeedNext]_feedVars
=============================================================================
