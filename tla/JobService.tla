----------------------------- MODULE JobService -----------------------------
(***************************************************************************)
(* What the EveREST service promises for its jobs: a job gets a Maxima of  *)
(* its own from a pool, its commands are executed there one after another, *)
(* it is answered once, and only then is the Maxima given to another job.  *)
(* A Maxima that is given up is one that no job has.                       *)
(***************************************************************************)
EXTENDS Naturals

CONSTANTS
  Jobs,       \* the jobs
  Instances,  \* the Maxima instances
  Commands,   \* number of commands in a job
  None

VARIABLES
  phase,     \* where a job stands
  instance,  \* the instance a job has, or None
  executed,  \* how many commands were sent to it for the job, until the answer
  free       \* the instances in the pool

vars == <<phase, instance, executed, free>>

Init ==
  /\ phase = [j \in Jobs |-> "asked"]
  /\ instance = [j \in Jobs |-> None]
  /\ executed = [j \in Jobs |-> 0]
  /\ free = Instances

Step(j, from, to) == phase[j] = from /\ phase' = [phase EXCEPT ![j] = to]

Take(j, m) ==
  /\ m \in free
  /\ free' = free \ {m}
  /\ Step(j, "asked", "taken")
  /\ instance' = [instance EXCEPT ![j] = m]
  /\ UNCHANGED executed

\* The next command is sent to the instance of the job.
Execute(j) ==
  /\ phase[j] = "taken"
  /\ executed[j] < Commands
  /\ executed' = [executed EXCEPT ![j] = @ + 1]
  /\ UNCHANGED <<phase, instance, free>>

\* The results, or the error of the last command sent, are the answer.
Answer(j) ==
  /\ executed[j] > 0
  /\ Step(j, "taken", "answered")
  /\ executed' = [executed EXCEPT ![j] = 0]
  /\ UNCHANGED <<instance, free>>

GiveBack(j) ==
  /\ Step(j, "answered", "over")
  /\ free' = free \cup {instance[j]}
  /\ instance' = [instance EXCEPT ![j] = None]
  /\ UNCHANGED executed

\* The job is cancelled, or fails, before it gets an instance.
GiveUp(j) ==
  /\ Step(j, "asked", "over")
  /\ UNCHANGED <<instance, executed, free>>

\* The service ends a Maxima.
Retire(m) ==
  /\ m \in free
  /\ free' = free \ {m}
  /\ UNCHANGED <<phase, instance, executed>>

Next ==
  \/ \E j \in Jobs :
       \/ \E m \in Instances : Take(j, m)
       \/ Execute(j) \/ Answer(j) \/ GiveBack(j) \/ GiveUp(j)
  \/ \E m \in Instances : Retire(m)

Spec == Init /\ [][Next]_vars
=============================================================================
