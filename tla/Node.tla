-------------------------------- MODULE Node --------------------------------
(***************************************************************************)
(* A node (Node.cc, main.cc): services are deployed, started and published *)
(* one after another, clients call their servants, and a signal stops the  *)
(* services in the reverse order and ends the node.  The services are      *)
(* Maxima factories or others; a slave factory (MaximaFactoryI.cc) enters  *)
(* itself into the list of the master (MasterFactoryI.cc) and takes itself *)
(* out of it when its servant is destroyed.                                *)
(*                                                                         *)
(* The information service, the authorization services and the master are  *)
(* remote.  A handler of a signal runs on whichever thread of the process  *)
(* the signal comes to, which does nothing else until the handler returns. *)
(***************************************************************************)
EXTENDS ServantLocator, Sequences

CONSTANTS
  Order,       \* the services in the order of Node.LoadOrder
  Slaves,      \* the services that are factories with the parameter MasterProxy and not
               \* masters, whose destructor does not call (_masterFactory)
  Taken,       \* the services that another client has published
  ClientLists, \* the lists of clients that servants may be added with
  Signals,     \* the handlers of signals
  Main,        \* the main thread
  MaxLost      \* how many entries in a list ended runs of the node may have left

ASSUME NodeAssumption ==
  /\ Order \in Seq(Services)
  /\ \A i, j \in 1..Len(Order) : Order[i] = Order[j] => i = j
  /\ Slaves \subseteq Services /\ Taken \subseteq Services
  /\ Others = Signals \cup {Main}
  /\ Main \notin Signals
  /\ Calls \subseteq Nat /\ Services \cap Calls = {}
  /\ Objects = Services \cup Calls
  /\ ClientLists \subseteq SUBSET Clients
  /\ Identities = Objects
  /\ MaxLost \in Nat

VARIABLES
  mpc,          \* where main() is
  deployed,     \* how many services are in _services
  started,      \* the services with _started
  stopped,      \* history: the services stopService() is done with
  published,    \* external: what this run of the node has published
  factories,    \* how often the master, a node elsewhere, has a slave in its list
  communicator, \* the state of the communicator
  hpc,          \* where a handler is
  host,         \* the thread it runs on: one that had nothing to do, which is called
                \* by the handler's name, or main's, a call's or another handler's
  at,           \* the service a handler is at: its iterator into _services
  seen,         \* how many services were deployed when it began
  handlerMutex, \* the handler that has locked the mutex of main.cc, or None
  terminated,   \* the variable of main.cc
  early,        \* history: a signal came before all services were started
  inside,       \* history: the calls a service was in when it was stopped
  unanswered,   \* history: the slaves whose call of unregisterFactory has failed
  lost          \* history: what ended runs have left in the master's list

services == <<deployed, started, stopped, published>>
handlers == <<host, at, seen, handlerMutex, terminated, communicator>>
history == <<early, inside, unanswered, lost>>
locator == <<table, permissions, request, references>>
vars == <<locator, pc, mpc, hpc, services, handlers, factories, history>>

TypeOK ==
  /\ LocatorTypeOK
  /\ pc \in [Calls -> {"idle", "authorize", "upcall", "finish", "done"}]
  /\ mpc \in {"boot", "next", "create", "init", "publish", "drop",
              "wait", "ended"}
  /\ deployed \in 0..Len(Order)
  /\ started \in SUBSET Services
  /\ stopped \in SUBSET Services
  /\ published \in SUBSET Services
  /\ factories \in [Slaves -> 0..(MaxLost + 1)]
  /\ communicator \in {"up", "destroying"}
  /\ hpc \in [Signals -> {"idle", "enter", "stop", "unpublish", "remove", "drop",
                          "destroy", "waiting", "done"}]
  /\ host \in [Signals -> Threads]
  /\ at \in [Signals -> 0..Len(Order)]
  /\ seen \in [Signals -> 0..Len(Order)]
  /\ handlerMutex \in Signals \cup {None}
  /\ terminated \in BOOLEAN
  /\ early \in BOOLEAN
  /\ inside \in SUBSET Calls
  /\ unanswered \in SUBSET Slaves
  /\ lost \in [Slaves -> 0..(MaxLost + 1)]

Init ==
  /\ LocatorInit
  /\ mpc = "boot"
  /\ deployed = 0
  /\ started = {}
  /\ stopped = {}
  /\ published = {}
  /\ factories = [s \in Slaves |-> 0]
  /\ communicator = "up"
  /\ hpc = [h \in Signals |-> "idle"]
  /\ host = [h \in Signals |-> h]
  /\ at = [h \in Signals |-> 0]
  /\ seen = [h \in Signals |-> 0]
  /\ handlerMutex = None
  /\ terminated = FALSE
  /\ early = FALSE
  /\ inside = {}
  /\ unanswered = {}
  /\ lost = [s \in Slaves |-> 0]

Alive == mpc # "ended"

\* The process ends: nothing is left of it but what others have in their lists.
Ended ==
  /\ mpc' = "ended" /\ deployed' = 0 /\ started' = {} /\ stopped' = {}
  /\ published' = {}
  /\ mutex' = None /\ servants' = [id \in Identities |-> None]
  /\ grantedPermissions' = {} /\ authorized' = {}
  /\ pc' = [c \in Calls |-> "idle"]
  /\ request' = [c \in Calls |-> None]
  /\ holds' = [t \in Threads |-> {}] /\ destroyed' = {}
  /\ communicator' = "up"
  /\ hpc' = [h \in Signals |-> "idle"]
  /\ host' = [h \in Signals |-> h]
  /\ at' = [h \in Signals |-> 0] /\ seen' = [h \in Signals |-> 0]
  /\ handlerMutex' = None /\ terminated' = FALSE
  /\ early' = FALSE /\ inside' = {} /\ unanswered' = {}
  /\ UNCHANGED factories /\ lost' = factories

\* A handler that has been entered and has not returned.
Active(h) == hpc[h] \notin {"idle", "done"}

\* A thread on which another one's handler runs stands still.
Suspended(t) == \E h \in Signals \ {t} : Active(h) /\ host[h] = t

\* A step of one thread: the others stay where they are.
MainGoto(from, to) == mpc = from /\ mpc' = to /\ UNCHANGED <<pc, hpc>>

HandlerGoto(h, from, to) ==
  hpc[h] = from /\ hpc' = [hpc EXCEPT ![h] = to] /\ UNCHANGED <<pc, mpc>>

CallGoto(c, from, to) == Goto(c, from, to) /\ UNCHANGED <<mpc, hpc>>

-----------------------------------------------------------------------------
(* The master's list. *)

\* registerFactory
register(s) == factories' = [factories EXCEPT ![s] = @ + 1]

\* Mutant of unregister: the element is found but not erased.
unregisterNothing(s) == UNCHANGED factories

\* unregisterFactory: the first of its entries, if there is one.
unregister(s) == factories' = [factories EXCEPT ![s] = IF @ = 0 THEN 0 ELSE @ - 1]

\* A thread drops a reference; the destructor of a slave calls the master.  When
\* the call fails the exception leaves the destructor.  Dropped and Thrown are where
\* the thread goes.
DropOne(t, Dropped, Thrown) ==
  /\ \E o \in holds[t] :
       \/ /\ Drop(t, o) \/ (Destruct(t, o) /\ o \notin Slaves)
          /\ UNCHANGED <<factories, unanswered>>
          /\ Dropped
       \/ /\ o \in Slaves /\ Destruct(t, o)
          /\ communicator = "up"
          /\ unregister(o)
          /\ UNCHANGED unanswered
          /\ Dropped
       \/ /\ o \in Slaves /\ Destruct(t, o)
          /\ unanswered' = unanswered \cup {o}
          /\ UNCHANGED factories
          /\ Thrown
  /\ UNCHANGED <<table, permissions, services, handlers, early, inside, lost>>

-----------------------------------------------------------------------------
(* main() and Node::init *)

\* The communicator and the node are there, and the object adapter is active.
Boot ==
  /\ MainGoto("boot", "next")
  /\ UNCHANGED <<locator, services, handlers, factories, history>>

\* A remote call fails, that of a slave's destructor too, an entry point is not
\* found, or the communicator has been destroyed: the exception ends the process.
MainThrows ==
  /\ \/ mpc \in {"boot", "next", "create", "init", "publish"}
     \/ mpc = "drop" /\ \E s \in Slaves : LastReference(Main, s)
  /\ Ended

deployService ==
  /\ MainGoto("next", "create")
  /\ deployed < Len(Order)
  /\ deployed' = deployed + 1
  /\ UNCHANGED <<locator, started, stopped, published, handlers, factories, history>>

Current == Order[deployed]

\* startService: the servant is made and registered ...
CreateServant ==
  /\ MainGoto("create", "init")
  /\ communicator = "up"
  /\ addServant(Current, [servant |-> Current, serviceId |-> Current,
                          allowedClients |-> {}])
  /\ holds' = [holds EXCEPT ![Main] = {Current}]
  /\ UNCHANGED <<mutex, permissions, request, destroyed, services, handlers,
                 factories, history>>

\* ... its service is initialized, which enters a slave into the list ...
serviceInit ==
  /\ MainGoto("init", "publish")
  /\ IF Current \in Slaves THEN communicator = "up" /\ register(Current)
                           ELSE UNCHANGED factories
  /\ started' = started \cup {Current}
  /\ UNCHANGED <<locator, deployed, stopped, published, handlers, history>>

\* ... and it is published, unless another client has published it.
Publish ==
  /\ MainGoto("publish", "drop")
  /\ communicator = "up"
  /\ published' = published \cup ({Current} \ Taken)
  /\ UNCHANGED <<locator, deployed, started, stopped, handlers, factories, history>>

\* The local reference to the servant is dropped.
MainDrop ==
  /\ DropOne(Main, MainGoto("drop", "next"), FALSE)
  /\ UNCHANGED request

WaitForShutdown ==
  /\ MainGoto("next", "wait")
  /\ deployed = Len(Order)
  /\ UNCHANGED <<locator, services, handlers, factories, history>>

\* waitForShutdown returns when the object adapter has no call left.
InCall(c) == pc[c] \in {"authorize", "upcall", "finish"}

End ==
  /\ mpc = "wait"
  /\ communicator = "destroying"
  /\ \A c \in Calls : ~InCall(c)
  /\ Ended

MainStep ==
  /\ ~Suspended(Main)
  /\ \/ Boot \/ MainThrows \/ deployService \/ CreateServant \/ serviceInit
     \/ Publish \/ MainDrop \/ WaitForShutdown \/ End

-----------------------------------------------------------------------------
(* handler() and Node::stopServices *)

\* The handler is entered on a thread that is there and not suspended already.
Signal(h) ==
  /\ Alive
  /\ HandlerGoto(h, "idle", "enter")
  /\ \E t \in {h, Main} \cup {c \in Calls : InCall(c)} \cup {g \in Signals : Active(g)} :
       ~Suspended(t) /\ host' = [host EXCEPT ![h] = t]
  /\ early' = (early \/ mpc # "wait")
  /\ UNCHANGED <<locator, services, at, seen, handlerMutex, terminated, communicator,
                 factories, inside, unanswered, lost>>

\* Before main() has made the node, the handler uses a null pointer.
HandlerCrash(h) ==
  /\ hpc[h] = "enter"
  /\ mpc = "boot" /\ ~terminated
  /\ Ended

\* The mutex is locked, which a handler waits for that runs on the thread of the one
\* that has it, too.
HandlerEnter(h) ==
  /\ handlerMutex = None
  /\ \/ /\ terminated
        /\ HandlerGoto(h, "enter", "done")
        /\ UNCHANGED <<at, seen, handlerMutex>>
     \/ /\ ~terminated /\ mpc # "boot"
        /\ HandlerGoto(h, "enter", "stop")
        /\ at' = [at EXCEPT ![h] = deployed]
        /\ seen' = [seen EXCEPT ![h] = deployed]
        /\ handlerMutex' = h
  /\ UNCHANGED <<locator, services, host, terminated, communicator, factories, history>>

\* Mutant of stopService: a service that is not started is passed over.
stopServiceOrSkip(h) ==
  /\ IF at[h] > 0 /\ Order[at[h]] \notin started
       THEN HandlerGoto(h, "stop", "stop") /\ at' = [at EXCEPT ![h] = @ - 1]
       ELSE /\ HandlerGoto(h, "stop", IF at[h] = 0 THEN "destroy" ELSE "unpublish")
            /\ UNCHANGED at
  /\ UNCHANGED <<locator, services, host, seen, handlerMutex, terminated,
                 communicator, factories, history>>

\* The next service of the loop; the loop ends at the beginning of the list, or with
\* an exception at a service that is not started.
stopService(h) ==
  /\ HandlerGoto(h, "stop", IF at[h] = 0 THEN "destroy"
                            ELSE IF Order[at[h]] \in started THEN "unpublish"
                                                             ELSE "destroy")
  /\ UNCHANGED <<locator, services, handlers, factories, history>>

\* Mutant of Unpublish: every exception is caught.
UnpublishOrNot(h) ==
  /\ HandlerGoto(h, "unpublish", "remove")
  /\ published' \in {published, published \ {Order[at[h]]}}
  /\ UNCHANGED <<locator, deployed, started, stopped, handlers, factories, history>>

\* unpublishService, which finds the service unless it belongs to another client,
\* or fails with an exception that ends the loop.
Unpublish(h) ==
  /\ \/ /\ HandlerGoto(h, "unpublish", "remove")
        /\ published' = published \ {Order[at[h]]}
     \/ /\ HandlerGoto(h, "unpublish", "destroy")
        /\ UNCHANGED published
  /\ UNCHANGED <<locator, deployed, started, stopped, handlers, factories, history>>

RemoveServants(h) ==
  /\ HandlerGoto(h, "remove", "drop")
  /\ removeServantsForService(h, Order[at[h]])
  /\ inside' = inside \cup {c \in Calls : pc[c] = "upcall" /\ Order[at[h]] \in holds[c]}
  /\ UNCHANGED <<mutex, permissions, request, destroyed, services, handlers,
                 factories, early, unanswered, lost>>

\* servantsToKill.clear()
HandlerDrop(h) ==
  /\ DropOne(h, HandlerGoto(h, "drop", "drop"), HandlerGoto(h, "drop", "destroy"))
  /\ UNCHANGED request

\* The end of stopService.  The reverse iterator of the last service is the end of the
\* list: it goes on from the service that is the last one then.
Stopped(h) ==
  /\ holds[h] = {}
  /\ HandlerGoto(h, "drop", "stop")
  /\ started' = started \ {Order[at[h]]}
  /\ stopped' = stopped \cup {Order[at[h]]}
  /\ at' = [at EXCEPT ![h] = (IF @ = seen[h] THEN deployed ELSE @) - 1]
  /\ UNCHANGED <<locator, deployed, published, host, seen, handlerMutex, terminated,
                 communicator, factories, history>>

\* Mutant of DestroyCommunicator: the handler is left by an exception.
HandlerLeft(h) ==
  /\ HandlerGoto(h, "destroy", "done")
  /\ handlerMutex' = None
  /\ UNCHANGED <<locator, services, host, at, seen, terminated, communicator,
                 factories, history>>

\* communicator->destroy(): no call is accepted any more ...
DestroyCommunicator(h) ==
  /\ HandlerGoto(h, "destroy", "waiting")
  /\ communicator' = "destroying"
  /\ UNCHANGED <<locator, services, host, at, seen, handlerMutex, terminated,
                 factories, history>>

\* ... and those in progress are waited for, the one too on whose thread this is.
HandlerDone(h) ==
  /\ HandlerGoto(h, "waiting", "done")
  /\ \A c \in Calls : ~InCall(c)
  /\ terminated' = TRUE
  /\ handlerMutex' = None
  /\ UNCHANGED <<locator, services, host, at, seen, communicator, factories, history>>

HandlerStep(h) ==
  /\ ~Suspended(h)
  /\ \/ HandlerCrash(h) \/ HandlerEnter(h) \/ stopService(h) \/ Unpublish(h)
     \/ RemoveServants(h) \/ HandlerDrop(h) \/ Stopped(h) \/ DestroyCommunicator(h)
     \/ HandlerDone(h)

-----------------------------------------------------------------------------
(* Calls of the servants. *)

\* Calls are numbered in the order in which they arrive.
CallLocate(c) ==
  /\ \A d \in Calls : d < c => pc[d] # "idle"
  /\ mpc \notin {"boot", "ended"} /\ communicator = "up"
  /\ \E id \in Identities, user \in Users : Locate(c, id, user)
  /\ UNCHANGED <<mpc, hpc, services, handlers, factories, history>>

CallAuthorize(c) ==
  /\ Authorize(c)
  /\ UNCHANGED <<mpc, hpc, services, handlers, factories, history>>

CallLeave(c) ==
  /\ CallGoto(c, "upcall", "finish")
  /\ request' = [request EXCEPT ![c] = None]

\* The servant of a service adds another one, for all clients or for some ...
CallAdd(c) ==
  /\ CallLeave(c)
  /\ \E s \in Services \cap holds[c], list \in ClientLists :
       addServant(c, [servant |-> c, serviceId |-> s, allowedClients |-> list])
  /\ UNCHANGED <<mutex, permissions, references, services, handlers,
                 factories, history>>

\* ... such a servant removes itself, if it is still registered ...
CallRemove(c) ==
  /\ CallLeave(c)
  /\ holds[c] \cap Services = {}
  /\ removeServant(c, request[c].id)
  /\ UNCHANGED <<mutex, permissions, destroyed, services, handlers,
                 factories, history>>

\* The call returns, which a servant that does something else does at once, and
\* the reference to the servant is dropped.
CallEnd(c) ==
  /\ pc[c] \in {"upcall", "finish"}
  /\ DropOne(c, CallGoto(c, pc[c], "done"), CallGoto(c, pc[c], "done"))
  /\ request' = [request EXCEPT ![c] = None]

CallStep(c) ==
  /\ ~Suspended(c)
  /\ CallAuthorize(c) \/ CallAdd(c) \/ CallRemove(c) \/ CallEnd(c)

-----------------------------------------------------------------------------

\* A node that was killed, or that has ended, is started again.
Kill == Alive /\ Ended

Restart ==
  /\ mpc = "ended" /\ mpc' = "boot"
  /\ \A s \in Slaves : lost[s] <= MaxLost
  /\ UNCHANGED <<locator, pc, hpc, services, handlers, factories, history>>

\* Nothing has to happen in a node that waits for calls, or that has ended.
Rest == mpc \in {"wait", "ended"} /\ UNCHANGED vars

Next ==
  \/ MainStep
  \/ \E h \in Signals : Signal(h) \/ HandlerStep(h)
  \/ \E c \in Calls : CallLocate(c) \/ CallStep(c)
  \/ Kill
  \/ Restart
  \/ Rest

Spec == Init /\ [][Next]_vars

\* Threads that have begun go on, and remote calls return or fail.
Fairness ==
  /\ WF_vars(MainStep)
  /\ \A h \in Signals : WF_vars(HandlerStep(h))
  /\ \A c \in Calls : WF_vars(CallStep(c))

FairSpec == Spec /\ Fairness

-----------------------------------------------------------------------------
(* Properties. *)

\* A call is in a servant only if an authorization service has granted, then or before,
\* a request with the same key, and the servant's list of clients admits the name of
\* the user: the servant found is still the one in the table when the service, which is
\* remote, has answered.  Which requests share a key is up to the text it consists of
\* (ServantLocator.cc, locate).
OnlyAuthorized ==
  \A c \in Calls : pc[c] = "upcall" /\ (PasswordCheck \/ SSLCheck) =>
    LET id == request[c].id
        user == request[c].user
    IN  /\ Key(user, id) \in authorized
        /\ servants[id] # None => \/ servants[id].allowedClients = {}
                                 \/ ClientId[user] \in servants[id].allowedClients

\* No call is in a servant that is being destroyed: services are stopped, and servants
\* remove themselves, while they are called (locate, removeServant and
\* removeServantsForService).
NoCallAfterDestruction ==
  \A c \in Calls : pc[c] = "upcall" => request[c].id \notin destroyed

\* Services are stopped in the reverse order of their starts: none is stopped as long
\* as one that was deployed after it, and before the signal, is not (stopServices).
StopsInReverse ==
  \A h \in Signals : \A j \in 1..seen[h] : \A i \in 1..(j - 1) :
    Order[i] \in stopped => Order[j] \in stopped

\* A stopped service has no servant in the table, but for those added by calls that
\* were in the service at that moment (removeServantsForService).
StoppedHasNoServant ==
  \A id \in Identities :
    servants[id] # None /\ servants[id].serviceId \in stopped => id \in inside

\* What this run of the node has published can be called, while services are stopped
\* too, if they were all started before the signal (startService, stopService).
PublishedIsReachable ==
  Alive /\ communicator = "up" /\ ~early =>
    \A s \in published : servants[s] # None

\* A slave whose service is stopped is no more in the master's list than it was
\* when the node was started, whichever thread drops the last reference, as long as
\* the master answers and the communicator works (~MaximaFactoryI).
StoppedIsUnlisted ==
  Alive /\ communicator = "up" =>
    \A s \in (stopped \cap Slaves) \ unanswered :
      (\A t \in Threads : s \notin holds[t]) => factories[s] = lost[s]

\* After a signal the process ends, however remote calls end and whatever its threads
\* are doing, but those that handlers run on: a handler that runs on the thread of a
\* call waits for that call, or for what it has locked, and one that runs on main's
\* thread before main is in waitForShutdown may wait for what main has locked (handler
\* of main.cc, stopServices).
Borrowed ==
  \E h \in Signals : /\ Active(h)
                     /\ host[h] # h /\ ~(host[h] = Main /\ mpc = "wait")
NodeEnds == \A h \in Signals : hpc[h] = "enter" ~> ~Alive \/ Borrowed
=============================================================================
