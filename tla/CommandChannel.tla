--------------------------- MODULE CommandChannel ---------------------------
(* What a caller of executeDeviceCommand may rely on, without sockets,     *)
(* messages or timers: a command is carried out at most once and never if  *)
(* it was refused, and an answer is that of a command asked for at the     *)
(* same moment and carried out, its own where nobody shares the moment.  A *)
(* command given up may have been, or yet be, carried out.                 *)
CONSTANTS
  Command,
  Moment, Never   \* when a command is asked for, if it is

VARIABLES
  outcome,   \* per command: "unasked", "waiting", "refused", "failed" or
             \* the command whose result was returned
  moment,    \* per command, when it was asked for
  executed   \* the commands the gateway has carried out

channelVars == <<outcome, moment, executed>>

ChannelInit ==
  /\ outcome = [c \in Command |-> "unasked"]
  /\ moment = [c \in Command |-> Never]
  /\ executed = {}

Ask(c) ==
  /\ outcome[c] = "unasked"
  /\ outcome' \in {[outcome EXCEPT ![c] = now] : now \in {"waiting", "refused"}}
  /\ moment' \in {[moment EXCEPT ![c] = m] : m \in Moment}
  /\ UNCHANGED executed

GiveUp(c) ==
  /\ outcome[c] = "waiting"
  /\ outcome' = [outcome EXCEPT ![c] = "failed"]
  /\ UNCHANGED <<moment, executed>>

Execute(c) ==
  /\ outcome[c] \notin {"unasked", "refused"}
  /\ c \notin executed
  /\ executed' = executed \cup {c}
  /\ UNCHANGED <<outcome, moment>>

\* Whoever waits for the answer to a command of this moment gets this one.
Answer(c) ==
  /\ c \in executed
  /\ outcome' = [d \in Command |->
       IF outcome[d] = "waiting" /\ moment[d] = moment[c] THEN c ELSE outcome[d]]
  /\ UNCHANGED <<moment, executed>>

ChannelNext == \E c \in Command : Ask(c) \/ GiveUp(c) \/ Execute(c) \/ Answer(c)

ChannelSpec == ChannelInit /\ [][ChannelNext]_channelVars
=============================================================================
