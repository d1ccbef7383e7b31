--------------------------- MODULE CommandService ---------------------------
(***************************************************************************)
(* What a MaximaInstance promises to the one thread that calls it: a       *)
(* command is answered before the next one is sent, the answer handed back *)
(* is the answer to the command just sent, and a call that cannot be       *)
(* answered ends with a failure instead.                                   *)
(*                                                                         *)
(* Commands are numbered in the order in which they are sent.              *)
(***************************************************************************)
EXTENDS Naturals

CONSTANT MaxCommands    \* bound on the commands sent

VARIABLES
  phase,     \* where the service stands in its life
  asked,     \* number of the last command sent
  answered   \* number of the command whose answer was handed back last

vars == <<phase, asked, answered>>

Init ==
  /\ phase = "opening"
  /\ asked = 0
  /\ answered = 0

\* The constructor returns, or throws and there is no service.
Open ==
  /\ phase = "opening"
  /\ phase' \in {"idle", "closed"}
  /\ UNCHANGED <<asked, answered>>

\* A command is sent, by a caller or by the call that is under way to clean up
\* after the command it has sent before.
Ask ==
  /\ phase = "idle" \/ (phase = "busy" /\ answered = asked)
  /\ asked < MaxCommands
  /\ asked' = asked + 1
  /\ phase' = "busy"
  /\ UNCHANGED answered

\* The answer to the last command sent arrives; the call may have more to do.
Answer ==
  /\ phase = "busy"
  /\ answered # asked
  /\ answered' = asked
  /\ phase' \in {"busy", "idle"}
  /\ UNCHANGED asked

\* The connection is gone: the call ends without an answer.
Fail ==
  /\ phase = "busy"
  /\ phase' = "idle"
  /\ UNCHANGED <<asked, answered>>

Close ==
  /\ phase = "idle"
  /\ phase' = "closing"
  /\ UNCHANGED <<asked, answered>>

Closed ==
  /\ phase = "closing"
  /\ phase' = "closed"
  /\ UNCHANGED <<asked, answered>>

Next == Open \/ Ask \/ Answer \/ Fail \/ Close \/ Closed

Spec == Init /\ [][Next]_vars

\* Every call returns, and a destructor that has started ends.
Fairness ==
  /\ WF_vars(Open)
  /\ WF_vars(Answer \/ Fail)
  /\ WF_vars(Closed)

FairSpec == Spec /\ Fairness
=============================================================================
