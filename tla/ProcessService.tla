---------------------------- MODULE ProcessService ----------------------------
(***************************************************************************)
(* What the resources of a factory promise: each has one Maxima process at *)
(* a time, which executes the command of one call at a time and is not     *)
(* ended or replaced under it; a process that has ended does not return.   *)
(***************************************************************************)
EXTENDS Naturals

CONSTANTS Resources, Calls, None

VARIABLES
  processes, \* the processes there are, each a resource and a number
  started,   \* how many processes a resource has had
  user       \* the call whose command a resource executes, or None

vars == <<processes, started, user>>

Init ==
  /\ processes = {}
  /\ started = [r \in Resources |-> 0]
  /\ user = [r \in Resources |-> None]

Process(r) == {p \in processes : p[1] = r}

Start(r) ==
  /\ Process(r) = {} /\ user[r] = None
  /\ started' = [started EXCEPT ![r] = @ + 1]
  /\ processes' = processes \cup {<<r, started[r] + 1>>}
  /\ UNCHANGED user

Begin(r, c) ==
  /\ Process(r) # {} /\ user[r] = None
  /\ user' = [user EXCEPT ![r] = c]
  /\ UNCHANGED <<processes, started>>

End(r) ==
  /\ user[r] # None
  /\ user' = [user EXCEPT ![r] = None]
  /\ UNCHANGED <<processes, started>>

\* The resource is deleted, or gets another process.
Stop(r) ==
  /\ Process(r) # {} /\ user[r] = None
  /\ processes' = processes \ Process(r)
  /\ UNCHANGED <<started, user>>

Next ==
  \E r \in Resources : Start(r) \/ (\E c \in Calls : Begin(r, c)) \/ End(r) \/ Stop(r)

Spec == Init /\ [][Next]_vars
=============================================================================
