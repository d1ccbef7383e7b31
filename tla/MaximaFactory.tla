----------------------------- MODULE MaximaFactory -----------------------------
(***************************************************************************)
(* A Maxima factory and its resources (MaximaFactoryI.cc,                  *)
(* MaximaResourceI.cc) in a node without authorization services.  Clients  *)
(* launch resources, execute commands, interrupt, restart and destroy      *)
(* them, each call in a thread of the server.                              *)
(*                                                                         *)
(* A resource is named by the call that launches it, which is also the     *)
(* name of the object.  Of a MaximaInstance only matters which one it is:  *)
(* the first, the second ... of its resource.                              *)
(***************************************************************************)
EXTENDS ServantLocator

CONSTANTS
  Factory,  \* the factory: its servant, its identity and its service
  Launches, \* the calls that launch resources
  Endless   \* the calls that execute a command which ends only by an interrupt

ASSUME FactoryAssumption ==
  /\ Calls \subseteq Nat
  /\ Factory \notin Nat /\ None \notin Nat
  /\ Launches \subseteq Calls /\ Endless \subseteq Calls \ Launches
  /\ Others = {}
  /\ Objects = {Factory} \cup Calls
  /\ Nat \cap Identities = 0..Cardinality(Calls)
  /\ Factory \in Identities /\ Services = {Factory}
  /\ ~PasswordCheck /\ ~SSLCheck

VARIABLES
  count,       \* _maximaCount
  name,        \* the number in a resource's name and _workingDirectory
  dirs,        \* the working directories that exist
  maxima,      \* _maxima of a resource: which instance, or 0 for none
  launched,    \* how many instances a resource has had
  running,     \* the Maxima processes, each a resource and an instance of it
  lock,        \* the call that has locked a resource, or None
  pointer,     \* the instance that interrupt() has found in _maxima
  interrupted, \* the calls whose commands an interrupt has ended
  crashed,     \* the node has used an instance that is not there
  overlapped,  \* history: a launch has read _maximaCount while another had to write it
  unprotected  \* history: an instance was missing or replaced under an interrupt, or
               \* could not be launched again

locator == <<table, permissions, request, references>>
factory == <<count, name>>
resource == <<maxima, launched, running, lock>>
threads == <<pointer, interrupted>>
history == <<overlapped, unprotected>>
vars == <<locator, pc, factory, dirs, resource, threads, crashed, history>>

Stages == {"idle", "upcall", "write", "make", "launch", "add", "execute", "relaunch",
           "signal", "finish", "done"}

TypeOK ==
  /\ LocatorTypeOK
  /\ pc \in [Calls -> Stages]
  /\ count \in Nat
  /\ name \in [Calls -> Nat \cup {None}]
  /\ dirs \in SUBSET Nat
  /\ maxima \in [Calls -> Nat]
  /\ launched \in [Calls -> Nat]
  /\ running \in SUBSET (Calls \X Nat)
  /\ lock \in [Calls -> Calls \cup {None}]
  /\ pointer \in [Calls -> Nat]
  /\ interrupted \in SUBSET Calls
  /\ crashed \in BOOLEAN
  /\ overlapped \in BOOLEAN
  /\ unprotected \in BOOLEAN

\* The factory has been registered by the node.
Init ==
  /\ mutex = None
  /\ servants = [id \in Identities |->
                   IF id = Factory
                     THEN [servant |-> Factory, serviceId |-> Factory, allowedClients |-> {}]
                     ELSE None]
  /\ grantedPermissions = {} /\ authorized = {}
  /\ pc = [c \in Calls |-> "idle"]
  /\ request = [c \in Calls |-> None]
  /\ holds = [t \in Threads |-> {}]
  /\ destroyed = {}
  /\ count = 0
  /\ name = [c \in Calls |-> None]
  /\ dirs = {}
  /\ maxima = [c \in Calls |-> 0]
  /\ launched = [c \in Calls |-> 0]
  /\ running = {}
  /\ lock = [c \in Calls |-> None]
  /\ pointer = [c \in Calls |-> 0]
  /\ interrupted = {}
  /\ crashed = FALSE
  /\ overlapped = FALSE
  /\ unprotected = FALSE

Step(c, from, to) == ~crashed /\ Goto(c, from, to)

\* The node crashes in a call.
Crash(c, from) ==
  /\ ~crashed /\ pc[c] = from
  /\ crashed' = TRUE
  /\ UNCHANGED <<locator, pc, factory, dirs, resource, threads, history>>

\* Calls are numbered in the order in which they arrive.
Arrive(c) ==
  /\ ~crashed
  /\ \A d \in Calls : d < c => pc[d] # "idle"
  /\ \E id \in Identities, user \in Users :
       (id = Factory) = (c \in Launches) /\ Locate(c, id, user)
  /\ UNCHANGED <<factory, dirs, resource, threads, crashed, history>>

-----------------------------------------------------------------------------
(* launchMaxima of the factory *)

\* The expression _maximaCount++ reads ...
ReadCount(c) ==
  /\ Step(c, "upcall", "write")
  /\ Factory \in holds[c]
  /\ name' = [name EXCEPT ![c] = count]
  /\ overlapped' = (overlapped \/ \E d \in Calls : pc[d] = "write")
  /\ UNCHANGED <<locator, count, dirs, resource, threads, crashed, unprotected>>

\* Mutant of WriteCount: the counter is not increased.
WriteCountBack(c) ==
  /\ Step(c, "write", "make")
  /\ count' = name[c]
  /\ UNCHANGED <<locator, name, dirs, resource, threads, crashed, history>>

\* ... and writes.
WriteCount(c) ==
  /\ Step(c, "write", "make")
  /\ count' = name[c] + 1
  /\ UNCHANGED <<locator, name, dirs, resource, threads, crashed, history>>

\* The destructor of a resource's files.
RemoveDirectory(o) == dirs' = dirs \ {name[o]}

\* The resource is constructed: its directory, unless there is such a one or it cannot
\* be made, which nothing is left of ...
MakeDirectory(c) ==
  /\ \/ Step(c, "make", "launch") /\ dirs' = dirs \cup {name[c]}
     \/ Step(c, "make", "finish") /\ UNCHANGED dirs
  /\ UNCHANGED <<locator, factory, resource, threads, crashed, history>>

\* ... and its instance, without which the directory is removed again.
LaunchFirst(c) ==
  /\ \/ /\ Step(c, "launch", "add")
        /\ maxima' = [maxima EXCEPT ![c] = 1]
        /\ launched' = [launched EXCEPT ![c] = 1]
        /\ running' = running \cup {<<c, 1>>}
        /\ holds' = [holds EXCEPT ![c] = @ \cup {c}]
        /\ UNCHANGED dirs
     \/ /\ Step(c, "launch", "finish")
        /\ RemoveDirectory(c)
        /\ UNCHANGED <<maxima, launched, running, holds>>
  /\ UNCHANGED <<table, permissions, request, destroyed, factory, lock, threads,
                 crashed, history>>

\* It is registered, or the exception of addServant leaves launchMaxima.
Add(c) ==
  /\ Step(c, "add", "finish")
  /\ \/ addServant(name[c], [servant |-> c, serviceId |-> Factory, allowedClients |-> {}])
     \/ AlreadyRegistered(name[c]) /\ UNCHANGED servants
  /\ UNCHANGED <<mutex, permissions, request, references, factory, dirs, resource,
                 threads, crashed, history>>

-----------------------------------------------------------------------------
(* The operations of a resource. *)

\* executeCommand, executeInteractive: the resource is locked for the whole call.
BeginExecute(c, o) ==
  /\ o \in holds[c] /\ lock[o] = None
  /\ IF maxima[o] = 0
       THEN Crash(c, "upcall")
       ELSE /\ Step(c, "upcall", "execute")
            /\ lock' = [lock EXCEPT ![o] = c]
            /\ UNCHANGED <<locator, factory, dirs, maxima, launched, running, threads,
                           crashed, history>>

\* There is a result or an exception, at the latest after an interrupt.
EndExecute(c, o) ==
  /\ Step(c, "execute", "finish")
  /\ lock[o] = c
  /\ c \in Endless => c \in interrupted
  /\ lock' = [lock EXCEPT ![o] = None]
  /\ UNCHANGED <<locator, factory, dirs, maxima, launched, running, threads, crashed,
                 history>>

\* interrupt: without the lock the pointer is read ...
ReadPointer(c, o) ==
  /\ Step(c, "upcall", "signal")
  /\ o \in holds[c]
  /\ pointer' = [pointer EXCEPT ![c] = maxima[o]]
  /\ unprotected' = (unprotected \/ \E d \in Calls : pc[d] = "relaunch" /\ lock[o] = d)
  /\ UNCHANGED <<locator, factory, dirs, resource, interrupted, crashed, overlapped>>

\* ... and its instance used: SIGINT ends the command, or comes too early or too late.
\* With an instance that is gone anything can happen.
Interrupt(c, o) ==
  /\ o \in holds[c]
  /\ \/ /\ Step(c, "signal", "finish")
        /\ pointer[c] # 0
        /\ \/ /\ pointer[c] = maxima[o]
              /\ interrupted' = interrupted \cup {d \in Calls : pc[d] = "execute" /\ lock[o] = d}
           \/ UNCHANGED interrupted
        /\ UNCHANGED <<locator, factory, dirs, resource, pointer, crashed, history>>
     \/ /\ pointer[c] # maxima[o] \/ pointer[c] = 0
        /\ Crash(c, "signal")

\* Mutant of BeginRestart: the lock is taken only to launch the next instance.
BeginRestartUnlocked(c, o) ==
  /\ Step(c, "upcall", "relaunch")
  /\ o \in holds[c]
  /\ lock' = [lock EXCEPT ![o] = c]
  /\ maxima' = [maxima EXCEPT ![o] = 0]
  /\ running' = running \ {<<o, maxima[o]>>}
  /\ UNCHANGED <<locator, factory, dirs, launched, threads, crashed, history>>

\* restart: the instance is deleted, which ends its process ...
BeginRestart(c, o) ==
  /\ Step(c, "upcall", "relaunch")
  /\ o \in holds[c] /\ lock[o] = None
  /\ lock' = [lock EXCEPT ![o] = c]
  /\ maxima' = [maxima EXCEPT ![o] = 0]
  /\ running' = running \ {<<o, maxima[o]>>}
  /\ unprotected' = (unprotected \/ \E d \in Calls : pc[d] = "signal" /\ o \in holds[d])
  /\ UNCHANGED <<locator, factory, dirs, launched, threads, crashed, overlapped>>

\* ... and another one launched, or the exception leaves the resource without one.
Relaunch(c, o) ==
  /\ Step(c, "relaunch", "finish")
  /\ lock[o] = c
  /\ lock' = [lock EXCEPT ![o] = None]
  /\ \/ /\ launched' = [launched EXCEPT ![o] = @ + 1]
        /\ maxima' = [maxima EXCEPT ![o] = launched[o] + 1]
        /\ running' = running \cup {<<o, launched[o] + 1>>}
        /\ UNCHANGED unprotected
     \/ unprotected' = TRUE /\ UNCHANGED <<launched, maxima, running>>
  /\ UNCHANGED <<locator, factory, dirs, threads, crashed, overlapped>>

\* Mutant of Destroy: the instance is deleted as well.
DestroyInstance(c, o) ==
  /\ Step(c, "upcall", "finish")
  /\ o \in holds[c]
  /\ removeServant(c, name[o])
  /\ maxima' = [maxima EXCEPT ![o] = 0]
  /\ running' = running \ {<<o, maxima[o]>>}
  /\ UNCHANGED <<mutex, permissions, request, destroyed, factory, dirs, launched, lock,
                 threads, crashed, history>>

\* destroy
Destroy(c, o) ==
  /\ Step(c, "upcall", "finish")
  /\ o \in holds[c]
  /\ removeServant(c, name[o])
  /\ UNCHANGED <<mutex, permissions, request, destroyed, factory, dirs, resource,
                 threads, crashed, history>>

-----------------------------------------------------------------------------
(* The end of a call: its references are dropped. *)

Leave(c, o) ==
  /\ ~crashed /\ pc[c] = "finish"
  /\ pc' = [pc EXCEPT ![c] = IF holds[c] = {o} THEN "done" ELSE "finish"]
  /\ request' = [request EXCEPT ![c] = None]

DropReference(c, o) ==
  /\ Leave(c, o)
  /\ Drop(c, o)
  /\ UNCHANGED <<table, permissions, factory, dirs, resource, threads, crashed, history>>

\* Mutant of Delete: the process is not ended.
DeleteDirectory(c, o) ==
  /\ Leave(c, o)
  /\ Destruct(c, o)
  /\ RemoveDirectory(o)
  /\ UNCHANGED <<table, permissions, factory, resource, threads, crashed, history>>

\* The destructor of a resource ends its process and removes its directory.
Delete(c, o) ==
  /\ Leave(c, o)
  /\ Destruct(c, o)
  /\ maxima' = [maxima EXCEPT ![o] = 0]
  /\ running' = running \ {<<o, maxima[o]>>}
  /\ RemoveDirectory(o)
  /\ UNCHANGED <<table, permissions, factory, launched, lock, threads, crashed, history>>

CallStep(c) ==
  \/ ReadCount(c) \/ WriteCount(c) \/ MakeDirectory(c) \/ LaunchFirst(c) \/ Add(c)
  \/ \E o \in Launches :
       \/ BeginExecute(c, o) \/ EndExecute(c, o) \/ ReadPointer(c, o) \/ Interrupt(c, o)
       \/ BeginRestart(c, o) \/ Relaunch(c, o) \/ Destroy(c, o) \/ Delete(c, o)
  \/ \E o \in Objects : DropReference(c, o)

\* The server waits for calls, or for one that is not going to end, or is gone.
Rest ==
  /\ crashed \/ \A c \in Calls : pc[c] \in {"idle", "done"} \/ c \in Endless
  /\ UNCHANGED vars

Next == (\E c \in Calls : Arrive(c) \/ CallStep(c)) \/ Rest

Spec == Init /\ [][Next]_vars

\* The threads of the server go on; commands end but for those in Endless.
FairSpec ==
  Spec /\ \A c \in Calls : WF_vars(pc[c] \notin {"idle", "done"} /\ CallStep(c))

-----------------------------------------------------------------------------
(* Properties. *)

\* A command is executed by one instance, which is that of its resource until the
\* end and whose process runs; meanwhile no other call executes one on it or
\* replaces it ("gives every user his own Maxima instance", Maxima.ice:44).
SoleUse ==
  \A c, o \in Calls : pc[c] = "execute" /\ o \in holds[c] =>
    /\ <<o, maxima[o]>> \in running
    /\ \A d \in Calls : pc[d] \in {"execute", "relaunch"} /\ o \in holds[d] => d = c

\* A Maxima process belongs to a resource that is registered or that a call is
\* using, and a resource has one at most: failed launches, names that are taken and
\* restarts leave none behind.
NoProcessLeft ==
  crashed \/ \A p \in running :
    /\ p[2] = maxima[p[1]]
    /\ InTable(p[1]) \/ \E c \in Calls : p[1] \in holds[c]

\* Resources that can be called have directories, each its own, if no launch has read
\* the counter while another had still to write it (MaximaFactoryI.cc:49, _fs).
OwnDirectory ==
  ~overlapped =>
    \A o \in Calls : InTable(o) =>
      /\ name[o] \in dirs
      /\ \A p \in Calls \ {o} : name[p] # name[o]

\* The node only crashes when an interrupt has met a restart, or after a restart has
\* failed; not because of destroy() while the resource is used.
CrashNeedsRestart == crashed => unprotected

\* The call whose command a resource executes.
usedBy(o) == IF lock[o] # None /\ pc[lock[o]] = "execute" THEN lock[o] ELSE None

Served == INSTANCE ProcessService WITH
  Resources <- Calls,
  processes <- running,
  started <- launched,
  user <- [o \in Calls |-> usedBy(o)]

\* However calls of one resource meet, be they commands, restarts, interrupts or
\* destroy(), its process is not ended or replaced under a command, and it has one
\* at a time (Spec of ProcessService; MaximaResourceI.cc, _mutex).
ProcessServiceSpec == Served!Spec

\* "Deactivate the [MaximaResource] and destroy the corresponding Maxima process"
\* (Maxima.ice:38): once a resource is launched and no longer registered, its process
\* comes to an end.
DestroyEndsProcess ==
  \A o \in Launches : pc[o] = "done" /\ ~InTable(o) ~> crashed \/ ~\E p \in running : p[1] = o
=============================================================================
