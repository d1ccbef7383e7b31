----------------------------- MODULE Node_proofs -----------------------------
(***************************************************************************)
(* Theorems about Node and its servant table, for any number of services,  *)
(* calls, users and signals.                                               *)
(*                                                                         *)
(* The invariant is proved in layers: TypeInv by itself, and each of the   *)
(* others with the help of those before it.                                *)
(***************************************************************************)
EXTENDS Node, TLAPS

-----------------------------------------------------------------------------
(* The invariants. *)

\* The services whose servant has been made, and those that have been initialized,
\* are the first ones of Order.
Created == IF mpc = "create" THEN deployed - 1 ELSE deployed
Initialized == IF mpc \in {"create", "init"} THEN deployed - 1 ELSE deployed

\* An object has been made, or will never be.
Used(o) ==
  \/ o \in Calls /\ pc[o] \in {"finish", "done"}
  \/ \E i \in 1..Created : Order[i] = o

Held(o) == \E t \in Threads : o \in holds[t]

IndexInv ==
  /\ mpc \in {"create", "init", "publish", "drop"} => deployed >= 1
  /\ \A h \in Signals : hpc[h] \in {"unpublish", "remove", "drop"} => at[h] >= 1
  /\ \A h \in Signals : seen[h] <= deployed

\* A slave is in the master's list at most once more than when the node was started,
\* and that only after its initialization.
ListInv ==
  \A s \in Slaves :
    /\ factories[s] <= lost[s] + 1
    /\ factories[s] > lost[s] => \E i \in 1..Initialized : Order[i] = s
    /\ Alive => lost[s] <= MaxLost

TypeInv == TypeOK /\ IndexInv /\ ListInv

\* The table is locked by the call that waits for its authorization.
MutexInv ==
  \A c \in Calls : /\ mutex = c <=> pc[c] = "authorize"
                   /\ pc[c] = "authorize" => /\ request[c] # None
                                             /\ servants[request[c].id] # None

\* An object is registered under its own name, once.
NameInv ==
  /\ \A id \in Identities :
       servants[id] # None => /\ Used(id)
                              /\ servants[id].servant = id
                              /\ id \in Services => servants[id].serviceId = id
  /\ \A c \in Calls : request[c] # None => Used(request[c].id)
  /\ \A c \in Calls :
       pc[c] = "upcall" => request[c] # None /\ holds[c] = {request[c].id}
  /\ \A t \in Threads : \A o \in holds[t] : Used(o)
  /\ \A o \in destroyed : Used(o)

\* What is in the cache was granted; the key of a call's permission is ...
Permission(c) == Key(request[c].user, request[c].id)
AccessInv == grantedPermissions \subseteq authorized /\ OnlyAuthorized

\* Nothing has a reference to an object whose destructor has begun.
DeadInv == \A o \in destroyed : ~InTable(o) /\ \A t \in Threads : o \notin holds[t]

\* The service s has been removed from the table.
Purged(s) == s \in stopped \/ \E h \in Signals : hpc[h] = "drop" /\ Order[at[h]] = s

\* A call that is in such a service is one of those that may still add a servant.
PurgeInv ==
  /\ \A s \in started \cup stopped : Used(s)
  /\ \A h \in Signals :
       hpc[h] \in {"unpublish", "remove", "drop"} => Used(Order[at[h]])
  /\ \A id \in Identities :
       servants[id] # None /\ Purged(servants[id].serviceId) => id \in inside
  /\ \A c \in Calls : \A s \in Services \cap holds[c] :
       pc[c] = "upcall" /\ Purged(s) => c \in inside

\* One handler stops the services, and none after it.
HandlerInv ==
  /\ terminated => handlerMutex = None
  /\ \A h \in Signals :
       /\ hpc[h] \in {"stop", "unpublish", "remove", "drop", "destroy", "waiting"} =>
            handlerMutex = h
       /\ seen[h] > 0 => handlerMutex = h \/ terminated
  /\ handlerMutex = None /\ ~terminated => stopped = {}

\* Of the services it has found, those it has passed are stopped, and no others but
\* the last one, which it may pass twice.
LoopInv ==
  \A h \in Signals : \A k \in 1..seen[h] :
    /\ at[h] < k => Order[k] \in stopped
    /\ Order[k] \in stopped => at[h] < k \/ k = seen[h]

\* Without a signal before the end of the start, services are stopped when all are
\* published, and one is unpublished before it is removed from the table.
PublishInv ==
  ~early =>
    /\ \A h \in Signals :
         /\ hpc[h] # "idle" => mpc = "wait"
         /\ hpc[h] \in {"remove", "drop"} => Order[at[h]] \notin published
    /\ mpc \in {"init", "publish"} => servants[Order[deployed]] # None
    /\ \A s \in published : servants[s] # None

\* The thread of main has the reference to the servant it has made; a call has none
\* before it enters.
HoldsInv ==
  /\ holds[Main] = IF mpc \in {"init", "publish", "drop"} THEN {Order[deployed]} ELSE {}
  /\ \A c \in Calls : pc[c] \in {"idle", "authorize"} => holds[c] = {}

IsInitialized(s) == \E i \in 1..Initialized : Order[i] = s

\* A slave is in the list from its initialization to its destruction, and nobody
\* forgets to destroy it.
SlaveInv ==
  \A s \in Slaves :
    /\ Used(s) /\ s \notin destroyed => servants[s] # None \/ Held(s)
    /\ s \notin destroyed =>
         factories[s] = IF IsInitialized(s) THEN lost[s] + 1 ELSE lost[s]
    /\ s \in destroyed \ unanswered => factories[s] = lost[s]
-----------------------------------------------------------------------------
(* Facts about steps. *)

\* What happens to the references and the master's list when a thread drops one.
DropEffect(t, o) ==
  /\ o \in holds[t]
  /\ holds' = [holds EXCEPT ![t] = @ \ {o}]
  /\ \/ /\ ~LastReference(t, o)
        /\ UNCHANGED <<destroyed, factories, unanswered>>
     \/ /\ LastReference(t, o)
        /\ destroyed' = destroyed \cup {o}
        /\ \/ o \notin Slaves /\ UNCHANGED <<factories, unanswered>>
           \/ o \in Slaves /\ unregister(o) /\ UNCHANGED unanswered
           \/ o \in Slaves /\ unanswered' = unanswered \cup {o} /\ UNCHANGED factories
  /\ UNCHANGED <<table, permissions, services, handlers, early, inside, lost>>

LEMMA MainDropEffect ==
  ASSUME MainDrop
  PROVE  /\ \E o \in holds[Main] : DropEffect(Main, o)
         /\ mpc = "drop" /\ mpc' = "next" /\ UNCHANGED <<pc, hpc, request>>
BY DEF MainDrop, DropOne, DropEffect, Drop, Destruct, MainGoto, LastReference

LEMMA HandlerDropEffect ==
  ASSUME NEW h \in Signals, HandlerDrop(h)
  PROVE  /\ \E o \in holds[h] : DropEffect(h, o)
         /\ hpc[h] = "drop" /\ hpc' \in {[hpc EXCEPT ![h] = "drop"],
                                          [hpc EXCEPT ![h] = "destroy"]}
         /\ UNCHANGED <<pc, mpc, request>>
BY DEF HandlerDrop, DropOne, DropEffect, Drop, Destruct, HandlerGoto, LastReference

LEMMA CallEndEffect ==
  ASSUME NEW c \in Calls, CallEnd(c)
  PROVE  /\ \E o \in holds[c] : DropEffect(c, o)
         /\ pc[c] \in {"upcall", "finish"} /\ pc' = [pc EXCEPT ![c] = "done"]
         /\ request' = [request EXCEPT ![c] = None]
         /\ UNCHANGED <<mpc, hpc>>
BY DEF CallEnd, DropOne, DropEffect, Drop, Destruct, CallGoto, Goto, LastReference

\* The steps that leave the locator and the places of the calls alone.
Calm ==
  \/ Boot \/ deployService \/ serviceInit \/ Publish \/ WaitForShutdown \/ Restart
  \/ \E h \in Signals : \/ Signal(h) \/ HandlerEnter(h) \/ stopService(h)
                        \/ Unpublish(h) \/ Stopped(h) \/ DestroyCommunicator(h)
                        \/ HandlerDone(h)

\* The steps that drop a reference.
Dropping ==
  MainDrop \/ (\E h \in Signals : HandlerDrop(h)) \/ (\E c \in Calls : CallEnd(c))

LEMMA StepCases ==
  ASSUME [Next]_vars
  PROVE  \/ UNCHANGED vars \/ Ended \/ Calm \/ Dropping \/ CreateServant
         \/ \E h \in Signals : RemoveServants(h)
         \/ \E c \in Calls : CallLocate(c) \/ CallAuthorize(c) \/ CallAdd(c) \/ CallRemove(c)
<1>1. CASE MainStep
  BY <1>1 DEF MainStep, MainThrows, End, Calm, Dropping
<1>2. ASSUME NEW h \in Signals, Signal(h) \/ HandlerStep(h)
      PROVE  Ended \/ Calm \/ Dropping \/ RemoveServants(h)
  BY <1>2 DEF HandlerStep, HandlerCrash, Calm, Dropping
<1>3. ASSUME NEW c \in Calls, CallLocate(c) \/ CallStep(c)
      PROVE  Dropping \/ CallLocate(c) \/ CallAuthorize(c) \/ CallAdd(c) \/ CallRemove(c)
  BY <1>3 DEF CallStep, Dropping
<1>4. CASE Kill \/ Restart \/ Rest
  BY <1>4 DEF Kill, Rest, Calm
<1> QED
  BY <1>1, <1>2, <1>3, <1>4 DEF Next

LEMMA OrderFact ==
  /\ Len(Order) \in Nat
  /\ \A i \in 1..Len(Order) : Order[i] \in Services
  /\ \A i, j \in 1..Len(Order) : Order[i] = Order[j] => i = j
BY NodeAssumption

LEMMA ThreadFact ==
  /\ Threads = Calls \cup Signals \cup {Main}
  /\ Main \notin Calls /\ Main \notin Signals /\ Calls \cap Signals = {}
BY NodeAssumption, LocatorAssumption DEF Threads

LEMMA NameFact ==
  /\ Objects = Services \cup Calls /\ Identities = Objects /\ Services \cap Calls = {}
  /\ Slaves \subseteq Services /\ MaxLost \in Nat
  /\ None \notin Calls /\ None \notin Signals
BY NodeAssumption, LocatorAssumption

LEMMA EntryFact ==
  ASSUME TypeOK, NEW id \in Identities, servants[id] # None
  PROVE  /\ servants[id].servant \in Objects
         /\ servants[id].serviceId \in Services
         /\ servants[id].allowedClients \subseteq Clients
<1>1. servants[id] \in ServantEntry
  BY DEF TypeOK, LocatorTypeOK
<1> QED
  BY <1>1 DEF ServantEntry

-----------------------------------------------------------------------------
(* TypeInv *)

LEMMA CalmKeepsType ==
  ASSUME TypeInv, Calm
  PROVE  TypeInv'
<1> USE DEF TypeInv, locator, table, permissions, references, services, handlers, history
<1>1. LocatorTypeOK' /\ pc' \in [Calls -> {"idle", "authorize", "upcall", "finish", "done"}]
  <2>1. UNCHANGED <<locator, pc>>
    BY DEF Calm, Boot, deployService, serviceInit, Publish, WaitForShutdown, Restart,
           Signal, HandlerEnter, stopService, Unpublish, Stopped, DestroyCommunicator,
           HandlerDone, MainGoto, HandlerGoto
  <2> QED
    BY <2>1 DEF TypeOK, LocatorTypeOK
<1>2. CASE Boot \/ WaitForShutdown
  BY <1>1, <1>2 DEF Boot, WaitForShutdown, MainGoto, TypeOK, IndexInv, ListInv, Alive,
                    Initialized
<1>3. CASE deployService
  <2>1. /\ mpc = "next" /\ mpc' = "create" /\ deployed < Len(Order)
        /\ deployed' = deployed + 1
        /\ UNCHANGED <<hpc, started, stopped, published, handlers, factories, history>>
    BY <1>3 DEF deployService, MainGoto
  <2>2. TypeOK' /\ IndexInv'
    BY <1>1, <2>1, OrderFact DEF TypeOK, IndexInv
  <2>3. ListInv'
    BY <2>1 DEF TypeOK, ListInv, Alive, Initialized
  <2> QED
    BY <2>2, <2>3
<1>4. CASE serviceInit
  <2>1. /\ mpc = "init" /\ mpc' = "publish"
        /\ IF Current \in Slaves THEN register(Current) ELSE UNCHANGED factories
        /\ started' = started \cup {Current}
        /\ UNCHANGED <<hpc, deployed, stopped, published, handlers, history>>
    BY <1>4 DEF serviceInit, MainGoto
  <2>2. deployed \in 1..Len(Order) /\ Current = Order[deployed] /\ Current \in Services
    BY <2>1, OrderFact DEF TypeOK, IndexInv, Current
  <2>3. Current \in Slaves =>
          factories[Current] <= lost[Current] /\ lost[Current] <= MaxLost
    <3>1. \A i \in 1..Initialized : Order[i] # Current
      BY <2>1, <2>2, OrderFact DEF Initialized
    <3>2. SUFFICES ASSUME Current \in Slaves
                   PROVE  factories[Current] <= lost[Current] /\ lost[Current] <= MaxLost
      OBVIOUS
    <3>3. factories[Current] \in Nat /\ lost[Current] \in Nat
      BY <3>2, NameFact DEF TypeOK
    <3> QED
      BY <2>1, <3>1, <3>2, <3>3 DEF ListInv, Alive
  <2>4. factories' \in [Slaves -> 0..(MaxLost + 1)]
    <3>1. CASE Current \in Slaves
      <4>1. factories' = [factories EXCEPT ![Current] = @ + 1]
        BY <2>1, <3>1 DEF register
      <4>2. factories \in [Slaves -> 0..(MaxLost + 1)] /\ MaxLost \in Nat
        BY NameFact DEF TypeOK
      <4>3. factories[Current] + 1 \in 0..(MaxLost + 1)
        <5>1. factories[Current] \in Nat /\ lost[Current] \in Nat
          BY <3>1, NameFact DEF TypeOK
        <5> QED
          BY <2>3, <3>1, <4>2, <5>1
      <4> QED
        BY <4>1, <4>2, <4>3
    <3>2. CASE Current \notin Slaves
      BY <2>1, <3>2 DEF TypeOK
    <3> QED
      BY <3>1, <3>2
  <2>5. TypeOK' /\ IndexInv'
    BY <1>1, <2>1, <2>2, <2>4 DEF TypeOK, IndexInv
  <2>6. ListInv'
    <3>1. SUFFICES ASSUME NEW s \in Slaves
                   PROVE  /\ factories'[s] <= lost[s] + 1
                          /\ factories'[s] > lost[s] => \E i \in 1..deployed : Order[i] = s
                          /\ lost[s] <= MaxLost
      BY <2>1 DEF ListInv, Alive, Initialized
    <3>2. CASE s = Current
      BY <2>1, <2>2, <2>3, <3>2, NameFact DEF TypeOK, register
    <3>3. CASE s # Current
      <4>1. factories'[s] = factories[s]
        BY <2>1, <3>3 DEF TypeOK, register
      <4> QED
        BY <2>1, <2>2, <4>1 DEF ListInv, Alive, Initialized
    <3> QED
      BY <3>2, <3>3
  <2> QED
    BY <2>5, <2>6
<1>5. CASE Publish
  <2>1. Current \in Services
    BY <1>5, OrderFact DEF Publish, MainGoto, TypeOK, IndexInv, Current
  <2> QED
    BY <1>1, <1>5, <2>1 DEF Publish, MainGoto, TypeOK, IndexInv, ListInv, Alive, Initialized
<1>6. CASE Restart
  BY <1>1, <1>6 DEF Restart, TypeOK, IndexInv, ListInv, Alive, Initialized
<1>7. ASSUME NEW h \in Signals,
             Signal(h) \/ HandlerEnter(h) \/ stopService(h) \/ Unpublish(h)
               \/ DestroyCommunicator(h) \/ HandlerDone(h)
      PROVE  TypeInv'
  <2>1. /\ hpc' \in [Signals -> {"idle", "enter", "stop", "unpublish", "remove", "drop",
                                 "destroy", "waiting", "done"}]
        /\ \A g \in Signals \ {h} : hpc'[g] = hpc[g]
    BY <1>7 DEF Signal, HandlerEnter, stopService, Unpublish, DestroyCommunicator,
                HandlerDone, HandlerGoto, TypeOK
  <2>2. /\ at' \in [Signals -> 0..Len(Order)] /\ seen' \in [Signals -> 0..Len(Order)]
        /\ handlerMutex' \in Signals \cup {None} /\ terminated' \in BOOLEAN
        /\ communicator' \in {"up", "destroying"} /\ early' \in BOOLEAN
        /\ published' \in SUBSET Services
    BY <1>7 DEF Signal, HandlerEnter, stopService, Unpublish, DestroyCommunicator,
                HandlerDone, HandlerGoto, TypeOK
  <2>3. host' \in [Signals -> Threads]
    <3>1. CASE Signal(h)
      <4>1. PICK t \in Threads : host' = [host EXCEPT ![h] = t]
        BY <3>1, ThreadFact DEF Signal
      <4> QED
        BY <4>1 DEF TypeOK
    <3>2. CASE UNCHANGED host
      BY <3>2 DEF TypeOK
    <3> QED
      BY <1>7, <3>1, <3>2 DEF HandlerEnter, stopService, Unpublish, DestroyCommunicator,
                              HandlerDone, handlers
  <2>4. UNCHANGED <<mpc, deployed, started, stopped, factories, inside, unanswered, lost>>
    BY <1>7 DEF Signal, HandlerEnter, stopService, Unpublish, DestroyCommunicator,
                HandlerDone, HandlerGoto
  <2>5. /\ hpc'[h] \in {"unpublish", "remove", "drop"} => at'[h] >= 1
        /\ seen'[h] <= deployed
        /\ \A g \in Signals \ {h} : at'[g] = at[g] /\ seen'[g] = seen[g]
    BY <1>7 DEF Signal, HandlerEnter, stopService, Unpublish, DestroyCommunicator,
                HandlerDone, HandlerGoto, TypeOK, IndexInv
  <2>6. TypeOK' /\ IndexInv'
    BY <1>1, <2>1, <2>2, <2>4, <2>5, <2>3 DEF TypeOK, IndexInv
  <2>7. ListInv'
    BY <2>4 DEF ListInv, Alive, Initialized
  <2> QED
    BY <2>6, <2>7
<1>8. ASSUME NEW h \in Signals, Stopped(h)
      PROVE  TypeInv'
  <2>1. /\ hpc[h] = "drop" /\ hpc' = [hpc EXCEPT ![h] = "stop"]
        /\ started' = started \ {Order[at[h]]}
        /\ stopped' = stopped \cup {Order[at[h]]}
        /\ at' = [at EXCEPT ![h] = (IF @ = seen[h] THEN deployed ELSE @) - 1]
        /\ UNCHANGED <<mpc, deployed, published, host, seen, handlerMutex, terminated,
                       communicator, factories, history>>
    BY <1>8 DEF Stopped, HandlerGoto
  <2>2. at[h] \in 1..Len(Order) /\ Order[at[h]] \in Services /\ seen[h] <= deployed
    BY <2>1, OrderFact DEF TypeOK, IndexInv
  <2>3. at' \in [Signals -> 0..Len(Order)]
    BY <2>1, <2>2 DEF TypeOK
  <2>4. TypeOK' /\ IndexInv'
    BY <1>1, <2>1, <2>2, <2>3 DEF TypeOK, IndexInv
  <2>5. ListInv'
    BY <2>1 DEF ListInv, Alive, Initialized
  <2> QED
    BY <2>4, <2>5
<1> QED
  BY <1>2, <1>3, <1>4, <1>5, <1>6, <1>7, <1>8 DEF Calm

LEMMA DroppingKeepsType ==
  ASSUME TypeInv, Dropping
  PROVE  TypeInv'
<1> USE DEF TypeInv
<1>1. ASSUME NEW t \in Threads, NEW o \in holds[t], DropEffect(t, o)
      PROVE  /\ holds' \in [Threads -> SUBSET Objects] /\ destroyed' \in SUBSET Objects
             /\ factories' \in [Slaves -> 0..(MaxLost + 1)]
             /\ unanswered' \in SUBSET Slaves
             /\ \A s \in Slaves : factories'[s] <= factories[s]
             /\ UNCHANGED <<table, permissions, services, handlers, early, inside, lost>>
  <2>1. holds' \in [Threads -> SUBSET Objects] /\ destroyed' \in SUBSET Objects
    BY <1>1 DEF DropEffect, TypeOK, LocatorTypeOK
  <2>2. /\ factories' \in [Slaves -> 0..(MaxLost + 1)]
        /\ \A s \in Slaves : factories'[s] <= factories[s]
    <3>1. CASE UNCHANGED factories
      BY <3>1, NameFact DEF TypeOK
    <3>2. CASE o \in Slaves /\ unregister(o)
      BY <3>2, NameFact DEF unregister, TypeOK
    <3> QED
      BY <1>1, <3>1, <3>2 DEF DropEffect
  <2>3. /\ unanswered' \in SUBSET Slaves
        /\ UNCHANGED <<table, permissions, services, handlers, early, inside, lost>>
    BY <1>1 DEF DropEffect, TypeOK
  <2> QED
    BY <2>1, <2>2, <2>3
<1>2. \E t \in Threads : \E o \in holds[t] : DropEffect(t, o)
  BY MainDropEffect, HandlerDropEffect, CallEndEffect, ThreadFact DEF Dropping
<1> DEFINE Moved ==
      /\ pc' \in [Calls -> {"idle", "authorize", "upcall", "finish", "done"}]
      /\ request' \in [Calls -> [id : Identities, user : Users] \cup {None}]
      /\ hpc' \in [Signals -> {"idle", "enter", "stop", "unpublish", "remove", "drop",
                               "destroy", "waiting", "done"}]
      /\ mpc' = mpc \/ (mpc = "drop" /\ mpc' = "next")
      /\ \A h \in Signals : hpc'[h] = hpc[h] \/ hpc'[h] = "destroy"
<1>3. Moved
  <2> USE DEF TypeOK, LocatorTypeOK
  <2>1. CASE MainDrop
    BY <2>1, MainDropEffect
  <2>2. ASSUME NEW h \in Signals, HandlerDrop(h)
        PROVE  Moved
    BY <2>2, HandlerDropEffect
  <2>3. ASSUME NEW c \in Calls, CallEnd(c)
        PROVE  Moved
    BY <2>3, CallEndEffect
  <2> QED
    BY <2>1, <2>2, <2>3 DEF Dropping
<1>4. TypeOK'
  BY <1>1, <1>2, <1>3 DEF TypeOK, LocatorTypeOK, table, permissions, services, handlers
<1>5. IndexInv'
  BY <1>1, <1>2, <1>3 DEF IndexInv, TypeOK, services, handlers
<1>6. ListInv'
  <2>1. factories' \in [Slaves -> Nat] /\ factories \in [Slaves -> Nat]
        /\ lost \in [Slaves -> Nat]
    BY <1>1, <1>2, NameFact DEF TypeOK
  <2> QED
    BY <1>1, <1>2, <1>3, <2>1 DEF ListInv, Alive, Initialized, services
<1> QED
  BY <1>4, <1>5, <1>6

LEMMA EnterKeepsType ==
  ASSUME TypeOK, NEW c \in Calls, NEW id \in Identities, NEW user \in Users,
         NEW result \in BOOLEAN, servants[id] # None, Enter(c, id, user, result)
  PROVE  /\ pc' \in [Calls -> {"idle", "authorize", "upcall", "finish", "done"}]
         /\ request' \in [Calls -> [id : Identities, user : Users] \cup {None}]
         /\ holds' \in [Threads -> SUBSET Objects]
<1> USE DEF TypeOK, LocatorTypeOK
<1>1. CASE AccessGranted(user, id, result)
  <2>1. servants[id].servant \in Objects
    BY EntryFact
  <2>2. holds' = [holds EXCEPT ![c] = {servants[id].servant}]
    BY <1>1 DEF Enter
  <2>3. holds' \in [Threads -> SUBSET Objects]
    BY <2>1, <2>2
  <2>4. request' \in [Calls -> [id : Identities, user : Users] \cup {None}]
    <3> DEFINE r == [id |-> id, user |-> user]
    <3>1. request' = [request EXCEPT ![c] = r]
      BY <1>1 DEF Enter
    <3>2. r \in [id : Identities, user : Users]
      OBVIOUS
    <3> HIDE DEF r
    <3> QED
      BY <3>1, <3>2
  <2>5. pc' \in [Calls -> {"idle", "authorize", "upcall", "finish", "done"}]
    BY <1>1 DEF Enter
  <2> QED
    BY <2>3, <2>4, <2>5
<1>2. CASE ~AccessGranted(user, id, result)
  BY <1>2 DEF Enter, Refuse
<1> QED
  BY <1>1, <1>2

LEMMA CallsKeepType ==
  ASSUME TypeInv, MutexInv, NEW c \in Calls,
         CallLocate(c) \/ CallAuthorize(c) \/ CallAdd(c) \/ CallRemove(c)
  PROVE  TypeInv'
<1> USE DEF TypeInv
<1>1. UNCHANGED <<mpc, hpc, services, handlers, factories, history>>
  BY DEF CallLocate, CallAuthorize, CallAdd, CallRemove, CallLeave, CallGoto
<1>2. LocatorTypeOK' /\ pc' \in [Calls -> {"idle", "authorize", "upcall", "finish", "done"}]
  <2>1. CASE CallLocate(c)
    <3>1. PICK id \in Identities, user \in Users : Locate(c, id, user)
      BY <2>1 DEF CallLocate
    <3>2. /\ pc' \in [Calls -> {"idle", "authorize", "upcall", "finish", "done"}]
          /\ request' \in [Calls -> [id : Identities, user : Users] \cup {None}]
          /\ holds' \in [Threads -> SUBSET Objects]
      <4>1. CASE servants[id] # None /\ Enter(c, id, user, Asked(user))
        <5>1. Asked(user) \in BOOLEAN
          BY LocatorAssumption DEF Asked
        <5> QED
          BY <4>1, <5>1, EnterKeepsType
      <4>2. CASE Refuse(c)
        BY <4>2 DEF Refuse, TypeOK, LocatorTypeOK
      <4>3. CASE /\ pc' = [pc EXCEPT ![c] = "authorize"]
                 /\ request' = [request EXCEPT ![c] = [id |-> id, user |-> user]]
                 /\ UNCHANGED holds
        BY <4>3 DEF TypeOK, LocatorTypeOK
      <4> QED
        BY <3>1, <4>1, <4>2, <4>3 DEF Locate
    <3>3. mutex' \in Calls \cup {None} /\ UNCHANGED <<servants, permissions, destroyed>>
      BY <3>1 DEF Locate, TypeOK, LocatorTypeOK
    <3> QED
      BY <3>2, <3>3 DEF TypeOK, LocatorTypeOK, permissions
  <2>2. CASE CallAuthorize(c)
    <3>1. Authorize(c) /\ pc[c] = "authorize"
      BY <2>2 DEF CallAuthorize, Authorize
    <3>2. /\ request[c] # None /\ request[c].id \in Identities /\ request[c].user \in Users
          /\ servants[request[c].id] # None
      BY <3>1 DEF MutexInv, TypeOK, LocatorTypeOK
    <3>3. /\ pc' \in [Calls -> {"idle", "authorize", "upcall", "finish", "done"}]
          /\ request' \in [Calls -> [id : Identities, user : Users] \cup {None}]
          /\ holds' \in [Threads -> SUBSET Objects]
      <4>1. CASE Refuse(c)
        BY <4>1 DEF Refuse, TypeOK, LocatorTypeOK
      <4>2. CASE Enter(c, request[c].id, request[c].user, TRUE)
        BY <3>2, <4>2, EnterKeepsType
      <4>3. CASE Enter(c, request[c].id, request[c].user, FALSE)
        BY <3>2, <4>3, EnterKeepsType
      <4> QED
        BY <3>1, <4>1, <4>2, <4>3 DEF Authorize
    <3>4. /\ grantedPermissions' \in SUBSET Keys /\ authorized' \in SUBSET Keys
          /\ mutex' = None /\ UNCHANGED <<servants, destroyed>>
      <4>1. \A user \in Users, id \in Identities : Key(user, id) \in Keys
        BY DEF Keys
      <4>2. Key(request[c].user, request[c].id) \in Keys
        BY <3>2, <4>1
      <4> QED
        BY <3>1, <4>2 DEF Authorize, permissions, TypeOK, LocatorTypeOK
    <3> QED
      BY <3>3, <3>4 DEF TypeOK, LocatorTypeOK
  <2>3. CASE CallAdd(c)
    <3>1. PICK s \in Services, list \in ClientLists :
            addServant(c, [servant |-> c, serviceId |-> s, allowedClients |-> list])
      BY <2>3 DEF CallAdd
    <3>2. [servant |-> c, serviceId |-> s, allowedClients |-> list] \in ServantEntry
      BY NameFact, NodeAssumption DEF ServantEntry
    <3>3. servants' \in [Identities -> ServantEntry \cup {None}]
      BY <3>1, <3>2 DEF addServant, TypeOK, LocatorTypeOK
    <3> QED
      BY <2>3, <3>3 DEF CallAdd, CallLeave, CallGoto, Goto, TypeOK, LocatorTypeOK,
                        permissions, references
  <2>4. CASE CallRemove(c)
    <3>1. removeServant(c, request[c].id)
      BY <2>4 DEF CallRemove
    <3>2. holds' \in [Threads -> SUBSET Objects]
      <4>1. {servants[i].servant :
               i \in {j \in Identities : j = request[c].id /\ servants[j] # None}}
              \subseteq Objects
        BY EntryFact
      <4> QED
        BY <3>1, <4>1 DEF removeServant, TypeOK, LocatorTypeOK
    <3>3. servants' \in [Identities -> ServantEntry \cup {None}]
      BY <3>1 DEF removeServant, TypeOK, LocatorTypeOK
    <3> QED
      BY <2>4, <3>2, <3>3 DEF CallRemove, CallLeave, CallGoto, Goto, TypeOK, LocatorTypeOK,
                              permissions
  <2> QED
    BY <2>1, <2>2, <2>3, <2>4
<1>3. TypeOK' /\ IndexInv' /\ ListInv'
  BY <1>1, <1>2 DEF TypeOK, IndexInv, ListInv, Alive, Initialized, services, handlers, history
<1> QED
  BY <1>3

LEMMA CreateKeepsType ==
  ASSUME TypeInv, CreateServant
  PROVE  TypeInv'
<1> USE DEF TypeInv
<1> DEFINE entry == [servant |-> Current, serviceId |-> Current, allowedClients |-> {}]
<1>1. /\ mpc = "create" /\ mpc' = "init"
      /\ servants' = [servants EXCEPT ![Current] = entry]
      /\ holds' = [holds EXCEPT ![Main] = {Current}]
      /\ UNCHANGED <<pc, hpc, mutex, permissions, request, destroyed, services, handlers,
                     factories, history>>
  BY DEF CreateServant, MainGoto, addServant
<1>2. Current \in Services /\ entry \in ServantEntry
  BY <1>1, OrderFact, NameFact DEF Current, TypeOK, IndexInv, ServantEntry
<1>3. /\ servants' \in [Identities -> ServantEntry \cup {None}]
      /\ holds' \in [Threads -> SUBSET Objects]
  BY <1>1, <1>2, NameFact DEF TypeOK, LocatorTypeOK
<1>4. TypeOK' /\ IndexInv' /\ ListInv'
  BY <1>1, <1>3 DEF TypeOK, LocatorTypeOK, IndexInv, ListInv, Alive, Initialized, permissions,
                    services, handlers, history
<1> QED
  BY <1>4

LEMMA RemoveKeepsType ==
  ASSUME TypeInv, NEW h \in Signals, RemoveServants(h)
  PROVE  TypeInv'
<1> USE DEF TypeInv
<1> DEFINE s == Order[at[h]]
<1>1. /\ hpc[h] = "remove" /\ hpc' = [hpc EXCEPT ![h] = "drop"]
      /\ removeServantsForService(h, s)
      /\ inside' = inside \cup {c \in Calls : pc[c] = "upcall" /\ s \in holds[c]}
      /\ UNCHANGED <<pc, mpc, mutex, permissions, request, destroyed, services, handlers,
                     factories, early, unanswered, lost>>
  BY DEF RemoveServants, HandlerGoto
<1>2. holds' \in [Threads -> SUBSET Objects]
  <2>1. {servants[id].servant : id \in OfService(s)} \subseteq Objects
    BY EntryFact DEF OfService
  <2> QED
    BY <1>1, <2>1 DEF removeServantsForService, TypeOK, LocatorTypeOK
<1>3. servants' \in [Identities -> ServantEntry \cup {None}]
  BY <1>1 DEF removeServantsForService, TypeOK, LocatorTypeOK
<1>4. TypeOK' /\ IndexInv'
  BY <1>1, <1>2, <1>3 DEF TypeOK, LocatorTypeOK, IndexInv, permissions, services, handlers
<1>5. ListInv'
  BY <1>1 DEF ListInv, Alive, Initialized, services
<1> QED
  BY <1>4, <1>5

-----------------------------------------------------------------------------
(* What calls and services do with the table, and MutexInv. *)

\* A call enters a servant: it may, and has a reference.
EnterEffect(c, id, user) ==
  /\ servants[id] # None
  /\ pc' = [pc EXCEPT ![c] = "upcall"]
  /\ request' = [request EXCEPT ![c] = [id |-> id, user |-> user]]
  /\ holds' = [holds EXCEPT ![c] = {servants[id].servant}]
  /\ PasswordCheck \/ SSLCheck =>
       /\ Key(user, id) \in authorized'
       /\ servants[id].allowedClients = {} \/ ClientId[user] \in servants[id].allowedClients

RefuseEffect(c) ==
  /\ pc' = [pc EXCEPT ![c] = "done"]
  /\ request' = [request EXCEPT ![c] = None]
  /\ UNCHANGED holds

LockEffect(c, id, user) ==
  /\ servants[id] # None
  /\ mutex' = c
  /\ pc' = [pc EXCEPT ![c] = "authorize"]
  /\ request' = [request EXCEPT ![c] = [id |-> id, user |-> user]]
  /\ UNCHANGED <<holds, permissions>>

LEMMA LocateEffect ==
  ASSUME TypeInv, AccessInv, NEW c \in Calls, CallLocate(c)
  PROVE  /\ pc[c] = "idle" /\ mutex = None
         /\ \E id \in Identities, user \in Users :
              \/ EnterEffect(c, id, user) /\ UNCHANGED mutex
              \/ RefuseEffect(c) /\ UNCHANGED mutex
              \/ LockEffect(c, id, user)
         /\ UNCHANGED <<servants, permissions, destroyed, mpc, hpc, services, handlers,
                        factories, history>>
<1>1. PICK id \in Identities, user \in Users : Locate(c, id, user)
  BY DEF CallLocate
<1>2. UNCHANGED authorized
  BY <1>1 DEF Locate, permissions
<1>3. ASSUME servants[id] # None, Asked(user) => Key(user, id) \in grantedPermissions,
             Enter(c, id, user, Asked(user))
      PROVE  EnterEffect(c, id, user) \/ RefuseEffect(c)
  <2>1. Asked(user) => Key(user, id) \in authorized'
    BY <1>2, <1>3 DEF AccessInv
  <2> QED
    BY <1>3, <2>1 DEF Enter, Refuse, AccessGranted, EnterEffect, RefuseEffect
<1>4. \/ EnterEffect(c, id, user) /\ UNCHANGED mutex
      \/ RefuseEffect(c) /\ UNCHANGED mutex
      \/ LockEffect(c, id, user)
  BY <1>1, <1>3 DEF Locate, Refuse, RefuseEffect, LockEffect
<1> QED
  BY <1>1, <1>4 DEF CallLocate, Locate

LEMMA AuthorizeEffect ==
  ASSUME TypeInv, MutexInv, AccessInv, NEW c \in Calls, CallAuthorize(c)
  PROVE  /\ pc[c] = "authorize" /\ mutex' = None
         /\ \E id \in Identities, user \in Users :
              /\ request[c] = [id |-> id, user |-> user]
              /\ EnterEffect(c, id, user) \/ RefuseEffect(c)
         /\ grantedPermissions' \subseteq authorized' /\ authorized \subseteq authorized'
         /\ UNCHANGED <<servants, destroyed, mpc, hpc, services, handlers, factories, history>>
<1> DEFINE id == request[c].id
           user == request[c].user
<1>1. /\ Authorize(c) /\ pc[c] = "authorize"
      /\ UNCHANGED <<mpc, hpc, services, handlers, factories, history>>
  BY DEF CallAuthorize, Authorize
<1>2. /\ request[c] # None /\ id \in Identities /\ user \in Users
      /\ request[c] = [id |-> id, user |-> user]
      /\ servants[id] # None
  BY <1>1 DEF MutexInv, TypeInv, TypeOK, LocatorTypeOK
<1>4. ASSUME Enter(c, id, user, TRUE), authorized' = authorized \cup {Key(user, id)}
      PROVE  EnterEffect(c, id, user) \/ RefuseEffect(c)
  BY <1>2, <1>4 DEF Enter, Refuse, AccessGranted, EnterEffect, RefuseEffect
<1>5. ASSUME Enter(c, id, user, FALSE)
      PROVE  EnterEffect(c, id, user) \/ RefuseEffect(c)
  BY <1>2, <1>5 DEF Enter, Refuse, AccessGranted, EnterEffect, RefuseEffect
<1>6. EnterEffect(c, id, user) \/ RefuseEffect(c)
  BY <1>1, <1>4, <1>5 DEF Authorize, Refuse, RefuseEffect
<1>7. grantedPermissions' \subseteq authorized' /\ authorized \subseteq authorized'
  BY <1>1 DEF Authorize, AccessInv, permissions
<1>8. mutex' = None /\ UNCHANGED <<servants, destroyed>>
  BY <1>1 DEF Authorize
<1> QED
  BY <1>1, <1>2, <1>6, <1>7, <1>8

LEMMA AddEffect ==
  ASSUME NEW c \in Calls, CallAdd(c)
  PROVE  /\ mutex = None /\ pc[c] = "upcall" /\ pc' = [pc EXCEPT ![c] = "finish"]
         /\ request' = [request EXCEPT ![c] = None]
         /\ \E s \in Services \cap holds[c], list \in SUBSET Clients :
              servants' = [servants EXCEPT ![c] =
                [servant |-> c, serviceId |-> s, allowedClients |-> list]]
         /\ UNCHANGED <<mutex, mpc, hpc, permissions, references, services, handlers,
                        factories, history>>
BY NodeAssumption DEF CallAdd, CallLeave, CallGoto, Goto, addServant

LEMMA RemoveEffect ==
  ASSUME NameInv, NEW c \in Calls, CallRemove(c), TypeInv
  PROVE  /\ mutex = None /\ pc[c] = "upcall" /\ pc' = [pc EXCEPT ![c] = "finish"]
         /\ request' = [request EXCEPT ![c] = None]
         /\ request[c].id \in Calls
         /\ servants' = [servants EXCEPT ![request[c].id] = None]
         /\ UNCHANGED <<mutex, mpc, hpc, permissions, references, services, handlers,
                        factories, history>>
<1>1. /\ mutex = None /\ pc[c] = "upcall" /\ pc' = [pc EXCEPT ![c] = "finish"]
      /\ request' = [request EXCEPT ![c] = None]
      /\ servants' = [servants EXCEPT ![request[c].id] = None]
      /\ UNCHANGED <<mutex, mpc, hpc, permissions, destroyed, services, handlers,
                     factories, history>>
  BY DEF CallRemove, CallLeave, CallGoto, Goto, removeServant
<1>2. request[c] # None /\ holds[c] = {request[c].id}
  BY <1>1 DEF NameInv
<1>3. request[c].id \in Identities /\ request[c].id \notin Services
  BY <1>2 DEF CallRemove, TypeInv, TypeOK, LocatorTypeOK
<1>4. {servants[i].servant : i \in {j \in Identities : j = request[c].id /\ servants[j] # None}}
        \subseteq {request[c].id}
  BY DEF NameInv
<1>5. holds' = holds
  <2>1. holds' = [holds EXCEPT ![c] = @ \cup
          {servants[i].servant : i \in {j \in Identities : j = request[c].id /\ servants[j] # None}}]
    BY DEF CallRemove, removeServant
  <2> QED
    BY <1>2, <1>4, <2>1 DEF TypeInv, TypeOK, LocatorTypeOK
<1> QED
  BY <1>1, <1>3, <1>5, NameFact DEF references

LEMMA CreateEffect ==
  ASSUME TypeInv, CreateServant
  PROVE  /\ mpc = "create" /\ mpc' = "init" /\ mutex = None
         /\ deployed \in 1..Len(Order) /\ Current = Order[deployed] /\ Current \in Services
         /\ servants' = [servants EXCEPT ![Current] =
              [servant |-> Current, serviceId |-> Current, allowedClients |-> {}]]
         /\ holds' = [holds EXCEPT ![Main] = {Current}]
         /\ UNCHANGED <<pc, hpc, mutex, permissions, request, destroyed, services, handlers,
                        factories, history>>
<1>1. mpc = "create" /\ deployed \in 1..Len(Order) /\ Current = Order[deployed]
  BY DEF CreateServant, MainGoto, TypeInv, TypeOK, IndexInv, Current
<1>2. Current \in Services
  BY <1>1, OrderFact
<1> QED
  BY <1>1, <1>2 DEF CreateServant, MainGoto, addServant

LEMMA PurgeEffect ==
  ASSUME TypeInv, NameInv, NEW h \in Signals, RemoveServants(h)
  PROVE  LET s == Order[at[h]]
             removed == {id \in Identities : servants[id] # None /\ servants[id].serviceId = s}
         IN  /\ hpc[h] = "remove" /\ hpc' = [hpc EXCEPT ![h] = "drop"]
             /\ s \in Services /\ mutex = None
             /\ servants' = [id \in Identities |-> IF id \in removed THEN None ELSE servants[id]]
             /\ holds' = [holds EXCEPT ![h] = @ \cup removed]
             /\ inside' = inside \cup {c \in Calls : pc[c] = "upcall" /\ s \in holds[c]}
             /\ UNCHANGED <<pc, mpc, mutex, permissions, request, destroyed, services,
                            handlers, factories, early, unanswered, lost>>
<1> DEFINE s == Order[at[h]]
           removed == {id \in Identities : servants[id] # None /\ servants[id].serviceId = s}
<1>1. /\ hpc[h] = "remove" /\ hpc' = [hpc EXCEPT ![h] = "drop"] /\ mutex = None
      /\ servants' = [id \in Identities |-> IF id \in OfService(s) THEN None ELSE servants[id]]
      /\ holds' = [holds EXCEPT ![h] = @ \cup {servants[id].servant : id \in OfService(s)}]
      /\ inside' = inside \cup {c \in Calls : pc[c] = "upcall" /\ s \in holds[c]}
      /\ UNCHANGED <<pc, mpc, mutex, permissions, request, destroyed, services, handlers,
                     factories, early, unanswered, lost>>
  BY DEF RemoveServants, HandlerGoto, removeServantsForService
<1>2. OfService(s) = removed
  BY DEF OfService
<1>3. {servants[id].servant : id \in removed} = removed
  BY DEF NameInv
<1>4. at[h] \in 1..Len(Order)
  BY <1>1 DEF TypeInv, TypeOK, IndexInv
<1>5. s \in Services
  BY <1>4, OrderFact
<1> HIDE DEF s, removed
<1>6. holds' = [holds EXCEPT ![h] = @ \cup removed]
  BY <1>1, <1>2, <1>3
<1> QED
  BY <1>1, <1>2, <1>5, <1>6 DEF s, removed

\* A quiet step changes nothing that the invariants about the table look at.
LEMMA CalmEffect ==
  ASSUME TypeInv, Calm
  PROVE  /\ UNCHANGED <<locator, pc, inside, unanswered, lost>>
         /\ \A o : Used(o)' <=> Used(o)
<1> USE DEF services, handlers, history, TypeInv
<1>1. UNCHANGED <<locator, pc, inside, unanswered, lost>>
  BY DEF Calm, Boot, deployService, serviceInit, Publish, WaitForShutdown, Restart,
         Signal, HandlerEnter, stopService, Unpublish, Stopped, DestroyCommunicator,
         HandlerDone, MainGoto, HandlerGoto
<1>2. Created' = Created
  <2>1. CASE deployService
    BY <2>1 DEF deployService, MainGoto, Created, TypeOK
  <2>2. CASE ~deployService
    <3>1. deployed' = deployed /\ (mpc = "create" <=> mpc' = "create")
      BY <2>2 DEF Calm, Boot, serviceInit, Publish, WaitForShutdown, Restart,
         Signal, HandlerEnter, stopService, Unpublish, Stopped, DestroyCommunicator,
         HandlerDone, MainGoto, HandlerGoto
    <3> QED
      BY <3>1 DEF Created
  <2> QED
    BY <2>1, <2>2
<1> QED
  BY <1>1, <1>2 DEF Used

\* A thread drops a reference; a call is at its end when it does, and main has
\* published the service.
SomeDrop ==
  \E t \in Threads : /\ t \in Calls => pc'[t] = "done"
                     /\ t = Main => mpc = "drop" /\ mpc' = "next"
                     /\ mpc = "drop" /\ mpc' # "drop" => t = Main
                     /\ \E o \in holds[t] : DropEffect(t, o)

LEMMA DroppingEffect ==
  ASSUME TypeInv, Dropping
  PROVE  /\ SomeDrop
         /\ \/ UNCHANGED <<pc, request>>
            \/ \E c \in Calls : /\ pc[c] \in {"upcall", "finish"}
                                /\ pc' = [pc EXCEPT ![c] = "done"]
                                /\ request' = [request EXCEPT ![c] = None]
         /\ mpc' = mpc \/ (mpc' = "next" /\ mpc = "drop")
         /\ \A h \in Signals : hpc'[h] = hpc[h] \/ (hpc[h] = "drop" /\ hpc'[h] = "destroy")
<1>1. CASE MainDrop
  <2>1. \E o \in holds[Main] : DropEffect(Main, o)
    BY <1>1, MainDropEffect
  <2>2. mpc = "drop" /\ mpc' = "next" /\ UNCHANGED <<pc, hpc, request>>
    BY <1>1, MainDropEffect
  <2>3. SomeDrop
    BY <2>1, <2>2, ThreadFact DEF SomeDrop
  <2> QED
    BY <2>2, <2>3
<1>2. ASSUME NEW h \in Signals, HandlerDrop(h)
      PROVE  /\ SomeDrop
             /\ UNCHANGED <<pc, request, mpc>>
             /\ \A g \in Signals : hpc'[g] = hpc[g] \/ (hpc[g] = "drop" /\ hpc'[g] = "destroy")
  <2>1. \E o \in holds[h] : DropEffect(h, o)
    BY <1>2, HandlerDropEffect
  <2>2. /\ hpc[h] = "drop" /\ UNCHANGED <<pc, request, mpc>>
        /\ hpc' \in {[hpc EXCEPT ![h] = "drop"], [hpc EXCEPT ![h] = "destroy"]}
    BY <1>2, HandlerDropEffect
  <2>3. SomeDrop
    BY <2>1, <2>2, ThreadFact DEF SomeDrop
  <2>4. \A g \in Signals : hpc'[g] = hpc[g] \/ (hpc[g] = "drop" /\ hpc'[g] = "destroy")
    BY <2>2 DEF TypeInv, TypeOK
  <2> QED
    BY <2>2, <2>3, <2>4
<1>3. ASSUME NEW c \in Calls, CallEnd(c)
      PROVE  /\ SomeDrop
             /\ pc[c] \in {"upcall", "finish"} /\ pc' = [pc EXCEPT ![c] = "done"]
             /\ request' = [request EXCEPT ![c] = None]
             /\ UNCHANGED <<mpc, hpc>>
  <2>1. \E o \in holds[c] : DropEffect(c, o)
    BY <1>3, CallEndEffect
  <2>2. /\ pc[c] \in {"upcall", "finish"} /\ pc' = [pc EXCEPT ![c] = "done"]
        /\ request' = [request EXCEPT ![c] = None]
        /\ UNCHANGED <<mpc, hpc>>
    BY <1>3, CallEndEffect
  <2>3. pc'[c] = "done"
    BY <2>2 DEF TypeInv, TypeOK
  <2>4. SomeDrop
    BY <2>1, <2>2, <2>3, ThreadFact DEF SomeDrop
  <2> QED
    BY <2>2, <2>4
<1>4. SomeDrop
  BY <1>1, <1>2, <1>3 DEF Dropping
<1>5. \/ UNCHANGED <<pc, request>>
      \/ \E c \in Calls : /\ pc[c] \in {"upcall", "finish"}
                          /\ pc' = [pc EXCEPT ![c] = "done"]
                          /\ request' = [request EXCEPT ![c] = None]
  BY <1>1, <1>2, <1>3 DEF Dropping
<1>6. /\ mpc' = mpc \/ (mpc' = "next" /\ mpc = "drop")
      /\ \A h \in Signals : hpc'[h] = hpc[h] \/ (hpc[h] = "drop" /\ hpc'[h] = "destroy")
  BY <1>1, <1>2, <1>3 DEF Dropping
<1> QED
  BY <1>4, <1>5, <1>6

LEMMA DropFact ==
  ASSUME TypeInv, NEW t \in Threads, NEW o \in holds[t], DropEffect(t, o)
  PROVE  /\ UNCHANGED <<mutex, servants, grantedPermissions, authorized, deployed, started,
                        stopped, published, at, seen, handlerMutex, terminated,
                        communicator, early, inside, lost>>
         /\ holds'[t] = holds[t] \ {o}
         /\ \A u \in Threads \ {t} : holds'[u] = holds[u]
         /\ \A p : InTable(p)' <=> InTable(p)
         /\ \/ UNCHANGED <<destroyed, factories, unanswered>>
            \/ /\ LastReference(t, o)
               /\ destroyed' = destroyed \cup {o}
BY DEF DropEffect, table, permissions, services, handlers, TypeInv, TypeOK, LocatorTypeOK,
       InTable

-----------------------------------------------------------------------------
(* MutexInv *)

LEMMA MutexKeeps ==
  ASSUME TypeInv, MutexInv, NameInv, AccessInv, [Next]_vars
  PROVE  MutexInv'
<1> USE DEF MutexInv
<1> USE DEF TypeInv
<1>1. CASE UNCHANGED vars
  BY <1>1 DEF vars, locator, table, references
<1>2. CASE Ended
  BY <1>2, NameFact DEF Ended
<1>3. CASE Calm
  BY <1>3, CalmEffect DEF locator, table
<1>4. CASE Dropping
  <2>1. PICK t \in Threads : /\ t \in Calls => pc'[t] = "done"
                            /\ \E o \in holds[t] : DropEffect(t, o)
    BY <1>4, DroppingEffect DEF SomeDrop
  <2>2. UNCHANGED <<mutex, servants>>
    BY <2>1, DropFact
  <2>3. \A c \in Calls : \/ pc'[c] = pc[c] /\ request'[c] = request[c]
                         \/ pc[c] # "authorize" /\ pc'[c] # "authorize"
    BY <1>4, DroppingEffect DEF TypeOK, LocatorTypeOK
  <2> QED
    BY <2>2, <2>3
<1>5. CASE CreateServant
  <2>1. \A c \in Calls : pc[c] # "authorize"
    BY <1>5, CreateEffect, NameFact
  <2> QED
    BY <1>5, <2>1, CreateEffect
<1>6. ASSUME NEW h \in Signals, RemoveServants(h)
      PROVE  MutexInv'
  <2>1. \A c \in Calls : pc[c] # "authorize"
    BY <1>6, PurgeEffect, NameFact
  <2> QED
    BY <1>6, <2>1, PurgeEffect
<1>7. ASSUME NEW c \in Calls, CallLocate(c)
      PROVE  MutexInv'
  <2>1. pc[c] = "idle" /\ mutex = None /\ UNCHANGED servants
    BY <1>7, LocateEffect
  <2>2. PICK id \in Identities, user \in Users :
          \/ EnterEffect(c, id, user) /\ UNCHANGED mutex
          \/ RefuseEffect(c) /\ UNCHANGED mutex
          \/ LockEffect(c, id, user)
    BY <1>7, LocateEffect
  <2>3. \A d \in Calls : pc[d] # "authorize"
    BY <2>1, NameFact
  <2>4. CASE EnterEffect(c, id, user) /\ UNCHANGED mutex
    BY <2>1, <2>3, <2>4, NameFact DEF EnterEffect, TypeOK, LocatorTypeOK
  <2>5. CASE RefuseEffect(c) /\ UNCHANGED mutex
    BY <2>1, <2>3, <2>5, NameFact DEF RefuseEffect, TypeOK, LocatorTypeOK
  <2>6. CASE LockEffect(c, id, user)
    <3>1. request'[c] = [id |-> id, user |-> user] /\ pc'[c] = "authorize"
      BY <2>6 DEF LockEffect, TypeOK, LocatorTypeOK
    <3>2. request'[c] # None
      BY <3>1, LocatorAssumption
    <3>3. \A d \in Calls \ {c} : pc'[d] = pc[d] /\ d # mutex'
      BY <2>6 DEF LockEffect, TypeOK
    <3> QED
      BY <2>1, <2>3, <2>6, <3>1, <3>2, <3>3 DEF LockEffect
  <2> QED
    BY <2>2, <2>4, <2>5, <2>6
<1>8. ASSUME NEW c \in Calls, CallAuthorize(c)
      PROVE  MutexInv'
  <2>1. pc[c] = "authorize" /\ mutex' = None /\ UNCHANGED servants
    BY <1>8, AuthorizeEffect
  <2>2. \A d \in Calls \ {c} : pc[d] # "authorize" /\ pc'[d] = pc[d]
    BY <1>8, <2>1, AuthorizeEffect DEF EnterEffect, RefuseEffect, TypeOK
  <2>3. pc'[c] # "authorize"
    BY <1>8, AuthorizeEffect DEF EnterEffect, RefuseEffect, TypeOK
  <2> QED
    BY <2>1, <2>2, <2>3, NameFact
<1>9. ASSUME NEW c \in Calls, CallAdd(c) \/ CallRemove(c)
      PROVE  MutexInv'
  <2>1. mutex = None /\ mutex' = None /\ pc' = [pc EXCEPT ![c] = "finish"]
    BY <1>9, AddEffect, RemoveEffect
  <2> QED
    BY <2>1, NameFact DEF TypeOK
<1> QED
  BY <1>1, <1>2, <1>3, <1>4, <1>5, <1>6, <1>7, <1>8, <1>9, StepCases

-----------------------------------------------------------------------------
(* NameInv *)

\* Names are used up by the steps of calls and by the creation of servants.
LEMMA UsedByCall ==
  ASSUME TypeInv, NEW c \in Calls, NEW to, pc' = [pc EXCEPT ![c] = to],
         pc[c] \in {"finish", "done"} => to \in {"finish", "done"},
         UNCHANGED <<mpc, deployed>>
  PROVE  /\ \A o : Used(o) => Used(o)'
         /\ to \in {"finish", "done"} => Used(c)'
         /\ \A o \in Services : Used(o)' => Used(o)
BY NameFact DEF Used, Created, TypeInv, TypeOK

LEMMA UsedByDropping ==
  ASSUME TypeInv, Dropping
  PROVE  /\ \A o : Used(o) => Used(o)'
         /\ \A o \in Services : Used(o)' => Used(o)
<1>1. Created' = Created
  <2>1. UNCHANGED deployed
    BY DroppingEffect, DropFact DEF SomeDrop
  <2> QED
    BY <2>1, DroppingEffect DEF Created
<1>2. \A d \in Calls : pc[d] \in {"finish", "done"} => pc'[d] \in {"finish", "done"}
  BY DroppingEffect DEF TypeInv, TypeOK
<1> QED
  BY <1>1, <1>2, NameFact DEF Used

LEMMA UsedByCreation ==
  ASSUME TypeInv, CreateServant
  PROVE  /\ \A o : Used(o) => Used(o)'
         /\ Used(Current)' /\ ~Used(Current)
         /\ \A o : Used(o)' => Used(o) \/ o = Current
<1>1. /\ mpc = "create" /\ mpc' = "init" /\ UNCHANGED <<pc, deployed>>
      /\ deployed \in 1..Len(Order) /\ Current = Order[deployed] /\ Current \in Services
  BY CreateEffect DEF services
<1>2. Created = deployed - 1 /\ Created' = deployed
  BY <1>1 DEF Created
<1>3. Current' = Current
  BY <1>1 DEF Current
<1>4. \A o : Used(o)' <=> Used(o) \/ o = Current
  BY <1>1, <1>2 DEF Used
<1>5. ~Used(Current)
  BY <1>1, <1>2, OrderFact, NameFact DEF Used
<1> QED
  BY <1>3, <1>4, <1>5

LEMMA NameKeepsEnter ==
  ASSUME TypeInv, NameInv, NEW c \in Calls, NEW id \in Identities, NEW user \in Users,
         pc[c] \in {"idle", "authorize"}, EnterEffect(c, id, user) \/ RefuseEffect(c),
         UNCHANGED <<servants, destroyed, mpc, deployed>>
  PROVE  NameInv'
<1> USE DEF TypeInv
<1>1. \A o : Used(o) => Used(o)'
  BY UsedByCall DEF EnterEffect, RefuseEffect
<1>2. CASE EnterEffect(c, id, user)
  <2>1. /\ servants[id] # None /\ servants[id].servant = id /\ Used(id)
    BY <1>2 DEF EnterEffect, NameInv
  <2>2. /\ request'[c] = [id |-> id, user |-> user] /\ holds'[c] = {id}
        /\ \A d \in Calls \ {c} : request'[d] = request[d] /\ pc'[d] = pc[d]
        /\ \A t \in Threads \ {c} : holds'[t] = holds[t]
    BY <1>2, <2>1, ThreadFact DEF EnterEffect, TypeOK, LocatorTypeOK
  <2>3. request'[c] # None /\ request'[c].id = id
    BY <2>2, LocatorAssumption
  <2>4. \A d \in Calls : (request[d] # None => Used(request[d].id))'
    BY <1>1, <2>1, <2>2, <2>3 DEF NameInv
  <2>5. \A d \in Calls :
          pc'[d] = "upcall" => request'[d] # None /\ holds'[d] = {request'[d].id}
    BY <2>2, <2>3, ThreadFact DEF NameInv
  <2>6. \A t \in Threads : \A o \in holds'[t] : Used(o)'
    BY <1>1, <2>1, <2>2 DEF NameInv
  <2> QED
    BY <1>1, <2>4, <2>5, <2>6 DEF NameInv
<1>3. CASE RefuseEffect(c)
  <2>1. /\ request'[c] = None /\ holds' = holds /\ pc'[c] = "done"
        /\ \A d \in Calls \ {c} : request'[d] = request[d] /\ pc'[d] = pc[d]
    BY <1>3 DEF RefuseEffect, TypeOK, LocatorTypeOK
  <2> QED
    BY <1>1, <2>1 DEF NameInv
<1> QED
  BY <1>2, <1>3

LEMMA NameKeeps ==
  ASSUME TypeInv, MutexInv, NameInv, AccessInv, [Next]_vars
  PROVE  NameInv'
<1> USE DEF TypeInv
<1>1. CASE UNCHANGED vars
  BY <1>1 DEF vars, locator, table, references, services, NameInv, Used, Created
<1>2. CASE Ended
  BY <1>2 DEF Ended, NameInv
<1>3. CASE Calm
  BY <1>3, CalmEffect DEF NameInv, locator, table, references
<1>4. CASE Dropping
  <2>1. PICK t \in Threads : /\ t \in Calls => pc'[t] = "done"
                            /\ \E o \in holds[t] : DropEffect(t, o)
    BY <1>4, DroppingEffect DEF SomeDrop
  <2>2. PICK o \in holds[t] : DropEffect(t, o)
    BY <2>1
  <2>3. \A p : Used(p) => Used(p)'
    BY <1>4, UsedByDropping
  <2>4. /\ UNCHANGED servants
        /\ holds'[t] = holds[t] \ {o}
        /\ \A u \in Threads \ {t} : holds'[u] = holds[u]
        /\ destroyed' = destroyed \/ destroyed' = destroyed \cup {o}
    BY <2>2, DropFact
  <2>5. \A c \in Calls : \/ pc'[c] = pc[c] /\ request'[c] = request[c]
                         \/ pc'[c] = "done" /\ request'[c] = None
    BY <1>4, DroppingEffect DEF TypeOK, LocatorTypeOK
  <2>6. \A c \in Calls :
          pc'[c] = "upcall" => request'[c] # None /\ holds'[c] = {request'[c].id}
    BY <2>1, <2>4, <2>5, ThreadFact DEF NameInv
  <2> QED
    BY <2>3, <2>4, <2>5, <2>6 DEF NameInv
<1>5. CASE CreateServant
  <2>1. /\ Current \in Services
        /\ servants' = [servants EXCEPT ![Current] =
             [servant |-> Current, serviceId |-> Current, allowedClients |-> {}]]
        /\ holds' = [holds EXCEPT ![Main] = {Current}]
        /\ UNCHANGED <<pc, request, destroyed>>
    BY <1>5, CreateEffect
  <2>2. Used(Current)' /\ \A o : Used(o) => Used(o)'
    BY <1>5, UsedByCreation
  <2>2a. PICK s \in Services : s = Current /\ Used(s)'
    BY <1>5, <2>1, <2>2, CreateEffect DEF Current, services
  <2>3. /\ servants'[s].servant = s /\ servants'[s].serviceId = s
        /\ \A id \in Identities \ {s} : servants'[id] = servants[id]
    BY <2>1, <2>2a, NameFact DEF TypeOK, LocatorTypeOK
  <2>4. \A t \in Threads : holds'[t] = holds[t] \/ holds'[t] = {s}
    BY <2>1, <2>2a DEF TypeOK, LocatorTypeOK
  <2>5. \A c \in Calls : holds'[c] = holds[c]
    BY <2>1, ThreadFact DEF TypeOK, LocatorTypeOK
  <2> QED
    BY <2>1, <2>2, <2>2a, <2>3, <2>4, <2>5 DEF NameInv
<1>6. ASSUME NEW h \in Signals, RemoveServants(h)
      PROVE  NameInv'
  <2> DEFINE s == Order[at[h]]
             removed == {id \in Identities : servants[id] # None /\ servants[id].serviceId = s}
  <2>1. /\ servants' = [id \in Identities |-> IF id \in removed THEN None ELSE servants[id]]
        /\ holds' = [holds EXCEPT ![h] = @ \cup removed]
        /\ UNCHANGED <<pc, mpc, request, destroyed, deployed>>
    BY <1>6, PurgeEffect DEF services
  <2>2. \A o : Used(o)' <=> Used(o)
    BY <2>1 DEF Used, Created
  <2>3. \A o \in removed : Used(o)
    BY DEF NameInv
  <2>4. \A t \in Threads : \A o \in holds'[t] : Used(o)
    BY <2>1, <2>3, ThreadFact DEF NameInv, TypeOK, LocatorTypeOK
  <2>5. \A c \in Calls : holds'[c] = holds[c]
    BY <2>1, ThreadFact DEF TypeOK, LocatorTypeOK
  <2> QED
    BY <2>1, <2>2, <2>4, <2>5 DEF NameInv
<1>7. ASSUME NEW c \in Calls, CallLocate(c)
      PROVE  NameInv'
  <2>1. /\ pc[c] = "idle" /\ UNCHANGED <<servants, destroyed, mpc, deployed>>
    BY <1>7, LocateEffect DEF services
  <2>2. PICK id \in Identities, user \in Users :
          EnterEffect(c, id, user) \/ RefuseEffect(c) \/ LockEffect(c, id, user)
    BY <1>7, LocateEffect
  <2>3. CASE LockEffect(c, id, user)
    <3>1. /\ servants[id] # None
          /\ pc' = [pc EXCEPT ![c] = "authorize"]
          /\ request' = [request EXCEPT ![c] = [id |-> id, user |-> user]]
          /\ holds' = holds
      BY <2>3 DEF LockEffect
    <3>2. \A o : Used(o) => Used(o)'
      BY <2>1, <3>1, UsedByCall
    <3>3. /\ request'[c].id = id /\ pc'[c] = "authorize"
          /\ \A d \in Calls \ {c} : request'[d] = request[d] /\ pc'[d] = pc[d]
      BY <3>1 DEF TypeOK, LocatorTypeOK
    <3>4. Used(id)
      BY <3>1 DEF NameInv
    <3> QED
      BY <2>1, <3>1, <3>2, <3>3, <3>4 DEF NameInv
  <2> QED
    BY <2>1, <2>2, <2>3, NameKeepsEnter
<1>8. ASSUME NEW c \in Calls, CallAuthorize(c)
      PROVE  NameInv'
  BY <1>8, AuthorizeEffect, NameKeepsEnter DEF services
<1>9. ASSUME NEW c \in Calls, CallAdd(c) \/ CallRemove(c)
      PROVE  NameInv'
  <2>1. /\ pc[c] = "upcall" /\ pc' = [pc EXCEPT ![c] = "finish"]
        /\ request' = [request EXCEPT ![c] = None]
        /\ UNCHANGED <<mpc, deployed, holds, destroyed>>
    BY <1>9, AddEffect, RemoveEffect DEF services, references
  <2>2. Used(c)' /\ \A o : Used(o) => Used(o)'
    BY <2>1, UsedByCall
  <2>3. /\ request'[c] = None /\ pc'[c] = "finish"
        /\ \A d \in Calls \ {c} : request'[d] = request[d] /\ pc'[d] = pc[d]
    BY <2>1 DEF TypeOK, LocatorTypeOK
  <2>4. \A id \in Identities : servants'[id] # None =>
          \/ servants'[id] = servants[id]
          \/ id = c /\ servants'[id].servant = c
    <3>1. CASE CallAdd(c)
      BY <3>1, AddEffect, NameFact DEF TypeOK, LocatorTypeOK
    <3>2. CASE CallRemove(c)
      <4>1. servants' = [servants EXCEPT ![request[c].id] = None]
        BY <3>2, RemoveEffect
      <4> QED
        BY <4>1 DEF TypeOK, LocatorTypeOK
    <3> QED
      BY <1>9, <3>1, <3>2
  <2> QED
    BY <2>1, <2>2, <2>3, <2>4, NameFact DEF NameInv
<1> QED
  BY <1>1, <1>2, <1>3, <1>4, <1>5, <1>6, <1>7, <1>8, <1>9, StepCases

-----------------------------------------------------------------------------
(* AccessInv *)

\* A call that is in a servant keeps its permission while the table changes, for
\* no entry is put in the place of the one it has found.
LEMMA AccessKept ==
  ASSUME TypeInv, NameInv, AccessInv, NEW d \in Calls, pc[d] = "upcall",
         request'[d] = request[d], authorized \subseteq authorized',
         \A id \in Identities :
           Used(id) /\ servants'[id] # None => servants'[id] = servants[id],
         PasswordCheck \/ SSLCheck
  PROVE  /\ Permission(d)' \in authorized'
         /\ servants'[request'[d].id] # None =>
              \/ servants'[request'[d].id].allowedClients = {}
              \/ ClientId[request'[d].user] \in servants'[request'[d].id].allowedClients
<1>1. request[d] # None /\ request[d].id \in Identities /\ Used(request[d].id)
  BY DEF NameInv, TypeInv, TypeOK, LocatorTypeOK
<1>2. Permission(d)' = Permission(d)
  BY DEF Permission
<1>3. servants'[request[d].id] # None =>
        servants'[request[d].id] = servants[request[d].id]
  BY <1>1
<1> QED
  BY <1>2, <1>3 DEF AccessInv, OnlyAuthorized, Permission

LEMMA AccessKeepsEnter ==
  ASSUME TypeInv, NameInv, AccessInv, NEW c \in Calls, NEW id \in Identities,
         NEW user \in Users, EnterEffect(c, id, user) \/ RefuseEffect(c),
         grantedPermissions' \subseteq authorized', authorized \subseteq authorized',
         UNCHANGED servants
  PROVE  AccessInv'
<1> SUFFICES ASSUME NEW d \in Calls, pc'[d] = "upcall", PasswordCheck \/ SSLCheck
             PROVE  /\ Permission(d)' \in authorized'
                    /\ servants'[request'[d].id] # None =>
                         \/ servants'[request'[d].id].allowedClients = {}
                         \/ ClientId[request'[d].user] \in servants'[request'[d].id].allowedClients
  BY DEF AccessInv, OnlyAuthorized, Permission
<1>1. CASE d = c
  <2>1. EnterEffect(c, id, user)
    BY <1>1 DEF RefuseEffect, TypeInv, TypeOK
  <2>2. request'[c] = [id |-> id, user |-> user]
    BY <2>1 DEF EnterEffect, TypeInv, TypeOK, LocatorTypeOK
  <2>3. Permission(c)' = Key(user, id)
    BY <2>2 DEF Permission
  <2>4. request'[c].user = user /\ request'[c].id = id
    BY <2>2
  <2> QED
    BY <1>1, <2>1, <2>3, <2>4 DEF EnterEffect
<1>2. CASE d # c
  <2>1. pc[d] = "upcall" /\ request'[d] = request[d]
    BY <1>2 DEF EnterEffect, RefuseEffect, TypeInv, TypeOK, LocatorTypeOK
  <2> QED
    BY <2>1, AccessKept
<1> QED
  BY <1>1, <1>2

LEMMA AccessKeeps ==
  ASSUME TypeInv, MutexInv, NameInv, AccessInv, [Next]_vars
  PROVE  AccessInv'
<1> USE DEF TypeInv
<1> DEFINE Same ==
      /\ UNCHANGED <<grantedPermissions, authorized>>
      /\ \A d \in Calls : pc'[d] = "upcall" => pc[d] = "upcall" /\ request'[d] = request[d]
      /\ \A id \in Identities :
           Used(id) /\ servants'[id] # None => servants'[id] = servants[id]
<1>0. ASSUME Same
      PROVE  AccessInv'
  <2>1. OnlyAuthorized'
    BY <1>0, AccessKept DEF OnlyAuthorized, Permission
  <2> QED
    BY <1>0, <2>1 DEF AccessInv
<1>1. CASE UNCHANGED vars
  BY <1>0, <1>1 DEF vars, locator, table, permissions
<1>2. CASE Ended
  BY <1>2 DEF Ended, AccessInv, OnlyAuthorized
<1>3. CASE Calm
  BY <1>0, <1>3, CalmEffect DEF locator, table, permissions
<1>4. CASE Dropping
  <2>1. UNCHANGED <<servants, grantedPermissions, authorized>>
    BY <1>4, DroppingEffect, DropFact DEF SomeDrop
  <2>2. \A d \in Calls : pc'[d] = "upcall" => pc[d] = "upcall" /\ request'[d] = request[d]
    BY <1>4, DroppingEffect DEF TypeOK, LocatorTypeOK
  <2> QED
    BY <1>0, <2>1, <2>2
<1>5. CASE CreateServant
  <2>1. /\ UNCHANGED <<pc, request, grantedPermissions, authorized>>
        /\ servants' = [servants EXCEPT ![Current] =
             [servant |-> Current, serviceId |-> Current, allowedClients |-> {}]]
    BY <1>5, CreateEffect DEF permissions
  <2>2. ~Used(Current)
    BY <1>5, UsedByCreation
  <2>3. \A id \in Identities : Used(id) => servants'[id] = servants[id]
    BY <2>1, <2>2 DEF TypeOK, LocatorTypeOK
  <2> QED
    BY <1>0, <2>1, <2>3
<1>6. ASSUME NEW h \in Signals, RemoveServants(h)
      PROVE  AccessInv'
  <2>1. /\ UNCHANGED <<pc, request, grantedPermissions, authorized>>
        /\ \A id \in Identities : servants'[id] # None => servants'[id] = servants[id]
    BY <1>6, PurgeEffect DEF permissions
  <2> QED
    BY <1>0, <2>1
<1>7. ASSUME NEW c \in Calls, CallLocate(c)
      PROVE  AccessInv'
  <2>1. pc[c] = "idle" /\ UNCHANGED <<servants, grantedPermissions, authorized>>
    BY <1>7, LocateEffect DEF permissions
  <2>2. PICK id \in Identities, user \in Users :
          EnterEffect(c, id, user) \/ RefuseEffect(c) \/ LockEffect(c, id, user)
    BY <1>7, LocateEffect
  <2>3. CASE LockEffect(c, id, user)
    <3>1. \A d \in Calls : pc'[d] = "upcall" => pc[d] = "upcall" /\ request'[d] = request[d]
      BY <2>3 DEF LockEffect, TypeOK, LocatorTypeOK
    <3> QED
      BY <1>0, <2>1, <3>1
  <2>4. CASE EnterEffect(c, id, user) \/ RefuseEffect(c)
    BY <2>1, <2>4, AccessKeepsEnter DEF AccessInv
  <2> QED
    BY <2>2, <2>3, <2>4
<1>8. ASSUME NEW c \in Calls, CallAuthorize(c)
      PROVE  AccessInv'
  BY <1>8, AuthorizeEffect, AccessKeepsEnter
<1>9. ASSUME NEW c \in Calls, CallAdd(c) \/ CallRemove(c)
      PROVE  AccessInv'
  <2>1. /\ pc[c] = "upcall" /\ pc' = [pc EXCEPT ![c] = "finish"]
        /\ request' = [request EXCEPT ![c] = None]
        /\ UNCHANGED <<grantedPermissions, authorized>>
    BY <1>9, AddEffect, RemoveEffect DEF permissions
  <2>2. \A d \in Calls : pc'[d] = "upcall" => pc[d] = "upcall" /\ request'[d] = request[d]
    BY <2>1 DEF TypeOK, LocatorTypeOK
  <2>3. ~Used(c)
    BY <2>1, OrderFact, NameFact DEF Used, Created, TypeOK
  <2>4. \A id \in Identities :
          Used(id) /\ servants'[id] # None => servants'[id] = servants[id]
    <3>1. CASE CallAdd(c)
      BY <2>3, <3>1, AddEffect DEF TypeOK, LocatorTypeOK
    <3>2. CASE CallRemove(c)
      <4>1. servants' = [servants EXCEPT ![request[c].id] = None]
        BY <3>2, RemoveEffect
      <4> QED
        BY <4>1 DEF TypeOK, LocatorTypeOK
    <3> QED
      BY <1>9, <3>1, <3>2
  <2> QED
    BY <1>0, <2>1, <2>2, <2>4
<1> QED
  BY <1>1, <1>2, <1>3, <1>4, <1>5, <1>6, <1>7, <1>8, <1>9, StepCases

-----------------------------------------------------------------------------
(* DeadInv *)

\* An object that is referred to after a step was so before, or has just been made.
LEMMA DestructionKept ==
  ASSUME NameInv, DeadInv, UNCHANGED destroyed,
         \A o : InTable(o)' => InTable(o) \/ Held(o) \/ ~Used(o),
         \A t \in Threads : \A o \in holds'[t] : InTable(o) \/ Held(o) \/ ~Used(o)
  PROVE  DeadInv'
BY DEF DeadInv, NameInv, Held

LEMMA DestructionKeepsEnter ==
  ASSUME TypeInv, NameInv, DeadInv, NEW c \in Calls, NEW id \in Identities,
         NEW user \in Users, EnterEffect(c, id, user) \/ RefuseEffect(c),
         UNCHANGED <<servants, destroyed>>
  PROVE  DeadInv'
<1>1. \A t \in Threads : \A o \in holds'[t] : InTable(o) \/ Held(o)
  <2>1. CASE EnterEffect(c, id, user)
    <3>1. InTable(servants[id].servant)
      BY <2>1 DEF EnterEffect, InTable
    <3>2. /\ holds'[c] = {servants[id].servant}
          /\ \A t \in Threads \ {c} : holds'[t] = holds[t]
      BY <2>1, ThreadFact DEF EnterEffect, TypeInv, TypeOK, LocatorTypeOK
    <3> QED
      BY <3>1, <3>2 DEF Held
  <2>2. CASE RefuseEffect(c)
    BY <2>2 DEF RefuseEffect, Held
  <2> QED
    BY <2>1, <2>2
<1>2. \A o : InTable(o)' => InTable(o)
  BY DEF InTable
<1> QED
  BY <1>1, <1>2, DestructionKept

LEMMA DestructionKeeps ==
  ASSUME TypeInv, MutexInv, NameInv, AccessInv, DeadInv, [Next]_vars
  PROVE  DeadInv'
<1> USE DEF TypeInv
<1>1. CASE UNCHANGED vars
  BY <1>1 DEF vars, locator, table, references, DeadInv, InTable
<1>2. CASE Ended
  BY <1>2 DEF Ended, DeadInv
<1>3. CASE Calm
  BY <1>3, CalmEffect DEF locator, table, references, DeadInv, InTable
<1>4. CASE Dropping
  <2>1. PICK t \in Threads : \E o \in holds[t] : DropEffect(t, o)
    BY <1>4, DroppingEffect DEF SomeDrop
  <2>2. PICK o \in holds[t] : DropEffect(t, o)
    BY <2>1
  <2>3. /\ holds'[t] = holds[t] \ {o}
        /\ \A u \in Threads \ {t} : holds'[u] = holds[u]
        /\ \A p : InTable(p)' <=> InTable(p)
        /\ \/ destroyed' = destroyed
           \/ LastReference(t, o) /\ destroyed' = destroyed \cup {o}
    BY <2>2, DropFact
  <2> QED
    BY <2>3 DEF DeadInv, LastReference
<1>5. CASE CreateServant
  <2>1. /\ UNCHANGED destroyed
        /\ servants' = [servants EXCEPT ![Current] =
             [servant |-> Current, serviceId |-> Current, allowedClients |-> {}]]
        /\ holds' = [holds EXCEPT ![Main] = {Current}]
    BY <1>5, CreateEffect
  <2>2. ~Used(Current)
    BY <1>5, UsedByCreation
  <2>3. \A o : InTable(o)' => InTable(o) \/ o = Current
    BY <2>1 DEF InTable, TypeOK, LocatorTypeOK
  <2>4. \A t \in Threads : \A o \in holds'[t] : o \in holds[t] \/ o = Current
    BY <2>1 DEF TypeOK, LocatorTypeOK
  <2> QED
    BY <2>1, <2>2, <2>3, <2>4, DestructionKept DEF Held
<1>6. ASSUME NEW h \in Signals, RemoveServants(h)
      PROVE  DeadInv'
  <2> DEFINE removed == {id \in Identities : servants[id] # None
                                            /\ servants[id].serviceId = Order[at[h]]}
  <2>1. /\ servants' = [id \in Identities |-> IF id \in removed THEN None ELSE servants[id]]
        /\ holds' = [holds EXCEPT ![h] = @ \cup removed]
        /\ UNCHANGED destroyed
    BY <1>6, PurgeEffect
  <2>2. \A o \in removed : InTable(o)
    BY DEF NameInv, InTable
  <2>3. \A t \in Threads : \A o \in holds'[t] : InTable(o) \/ Held(o)
    BY <2>1, <2>2 DEF TypeOK, LocatorTypeOK, Held
  <2>4. \A o : InTable(o)' => InTable(o)
    BY <2>1 DEF InTable
  <2> QED
    BY <2>1, <2>3, <2>4, DestructionKept
<1>7. ASSUME NEW c \in Calls, CallLocate(c)
      PROVE  DeadInv'
  <2>1. UNCHANGED <<servants, destroyed>>
    BY <1>7, LocateEffect
  <2>2. PICK id \in Identities, user \in Users :
          EnterEffect(c, id, user) \/ RefuseEffect(c) \/ LockEffect(c, id, user)
    BY <1>7, LocateEffect
  <2>3. CASE LockEffect(c, id, user)
    BY <2>1, <2>3 DEF LockEffect, DeadInv, InTable
  <2> QED
    BY <2>1, <2>2, <2>3, DestructionKeepsEnter
<1>8. ASSUME NEW c \in Calls, CallAuthorize(c)
      PROVE  DeadInv'
  BY <1>8, AuthorizeEffect, DestructionKeepsEnter
<1>9. ASSUME NEW c \in Calls, CallAdd(c)
      PROVE  DeadInv'
  <2>1. ~Used(c)
    BY <1>9, AddEffect, OrderFact, NameFact DEF Used, Created, TypeOK
  <2>2. UNCHANGED <<holds, destroyed>>
    BY <1>9, AddEffect DEF references
  <2>3. \A o : InTable(o)' => InTable(o) \/ o = c
    <3>1. /\ servants'[c].servant = c
          /\ \A id \in Identities \ {c} : servants'[id] = servants[id]
      BY <1>9, AddEffect, NameFact DEF TypeOK, LocatorTypeOK
    <3> QED
      BY <3>1 DEF InTable
  <2> QED
    BY <2>1, <2>2, <2>3, DestructionKept DEF Held
<1>10. ASSUME NEW c \in Calls, CallRemove(c)
       PROVE  DeadInv'
  <2>1. /\ servants' = [servants EXCEPT ![request[c].id] = None]
        /\ UNCHANGED <<holds, destroyed>>
    BY <1>10, RemoveEffect DEF references
  <2>2. \A o : InTable(o)' => InTable(o)
    BY <2>1 DEF InTable, TypeOK, LocatorTypeOK
  <2> QED
    BY <2>1, <2>2, DestructionKept DEF Held
<1> QED
  BY <1>1, <1>2, <1>3, <1>4, <1>5, <1>6, <1>7, <1>8, <1>9, <1>10, StepCases

-----------------------------------------------------------------------------
(* PurgeInv *)

\* A service is purged once its handler has removed it from the table, and stays so.
LEMMA PurgedByCalm ==
  ASSUME TypeInv, Calm
  PROVE  /\ \A s : Purged(s)' => Purged(s)
         /\ \A h \in Signals : hpc'[h] \in {"unpublish", "remove", "drop"} =>
              /\ at'[h] = at[h]
              /\ hpc[h] \notin {"unpublish", "remove", "drop"} => Order[at[h]] \in started
         /\ \A s \in started' \cup stopped' :
              \/ s \in started \cup stopped
              \/ \E i \in 1..Created : Order[i] = s
              \/ \E h \in Signals : hpc[h] = "drop" /\ s = Order[at[h]]
<1> USE DEF TypeInv, services, handlers
<1>1. CASE Boot \/ deployService \/ serviceInit \/ Publish \/ WaitForShutdown \/ Restart
  <2>1. /\ UNCHANGED <<hpc, at, stopped>>
        /\ started' = started \/ (mpc = "init" /\ started' = started \cup {Order[deployed]})
    BY <1>1 DEF Boot, deployService, serviceInit, Publish, WaitForShutdown, Restart, MainGoto,
                Current
  <2>2. mpc = "init" => deployed \in 1..Created
    BY DEF Created, TypeOK, IndexInv
  <2> QED
    BY <2>1, <2>2 DEF Purged
<1>2. ASSUME NEW h \in Signals,
             Signal(h) \/ HandlerEnter(h) \/ stopService(h) \/ Unpublish(h)
               \/ DestroyCommunicator(h) \/ HandlerDone(h)
      PROVE  /\ UNCHANGED <<started, stopped>>
             /\ \A g \in Signals \ {h} : hpc'[g] = hpc[g] /\ at'[g] = at[g]
             /\ hpc'[h] # "drop"
             /\ hpc'[h] \in {"unpublish", "remove"} =>
                  /\ at'[h] = at[h]
                  /\ hpc[h] # "unpublish" => Order[at[h]] \in started
  BY <1>2 DEF Signal, HandlerEnter, stopService, Unpublish, DestroyCommunicator, HandlerDone,
              HandlerGoto, TypeOK
<1>3. ASSUME NEW h \in Signals, Stopped(h)
      PROVE  /\ hpc[h] = "drop" /\ hpc'[h] = "stop"
             /\ started' \subseteq started /\ stopped' = stopped \cup {Order[at[h]]}
             /\ \A g \in Signals \ {h} : hpc'[g] = hpc[g] /\ at'[g] = at[g]
  BY <1>3 DEF Stopped, HandlerGoto, TypeOK
<1>4. CASE \E h \in Signals : Signal(h) \/ HandlerEnter(h) \/ stopService(h) \/ Unpublish(h)
               \/ DestroyCommunicator(h) \/ HandlerDone(h)
  BY <1>2, <1>4 DEF Purged
<1>5. CASE \E h \in Signals : Stopped(h)
  BY <1>3, <1>5 DEF Purged
<1> QED
  BY <1>1, <1>4, <1>5 DEF Calm

\* The servant of a service that has been purged is not in the table.
LEMMA PurgedIsAbsent ==
  ASSUME TypeInv, NameInv, PurgeInv, NEW s \in Services, Purged(s)
  PROVE  servants[s] = None
<1>1. s \in Identities /\ s \notin inside
  BY NameFact DEF TypeInv, TypeOK
<1>2. servants[s] # None => servants[s].serviceId = s
  BY <1>1 DEF NameInv
<1> QED
  BY <1>1, <1>2 DEF PurgeInv

LEMMA PurgeKeepsEnter ==
  ASSUME TypeInv, NameInv, PurgeInv, NEW c \in Calls, NEW id \in Identities,
         NEW user \in Users, pc[c] \in {"idle", "authorize"}, EnterEffect(c, id, user) \/ RefuseEffect(c),
         UNCHANGED <<servants, mpc, hpc, started, stopped, deployed, at, inside>>
  PROVE  PurgeInv'
<1>1. \A o : Used(o) => Used(o)'
  BY UsedByCall DEF EnterEffect, RefuseEffect
<1>2. \A s : Purged(s)' <=> Purged(s)
  BY DEF Purged
<1>3. \A s \in Services \cap holds'[c] : pc'[c] = "upcall" => ~Purged(s)
  <2>1. CASE EnterEffect(c, id, user)
    <3>1. servants[id] # None /\ holds'[c] = {id}
      BY <2>1, ThreadFact DEF EnterEffect, NameInv, TypeInv, TypeOK, LocatorTypeOK
    <3> QED
      BY <3>1, PurgedIsAbsent
  <2>2. CASE RefuseEffect(c)
    BY <2>2 DEF RefuseEffect, TypeInv, TypeOK
  <2> QED
    BY <2>1, <2>2
<1>4. \A d \in Calls \ {c} : pc'[d] = pc[d] /\ holds'[d] = holds[d]
  BY ThreadFact DEF EnterEffect, RefuseEffect, TypeInv, TypeOK, LocatorTypeOK
<1> QED
  BY <1>1, <1>2, <1>3, <1>4 DEF PurgeInv

LEMMA PurgeKeeps ==
  ASSUME TypeInv, MutexInv, NameInv, AccessInv, PurgeInv, [Next]_vars
  PROVE  PurgeInv'
<1> USE DEF TypeInv
<1>1. CASE UNCHANGED vars
  BY <1>1 DEF vars, locator, table, references, services, handlers, history, PurgeInv, Used,
              Created, Purged
<1>2. CASE Ended
  BY <1>2 DEF Ended, PurgeInv
<1>3. CASE Calm
  <2>1. UNCHANGED <<servants, holds, pc, inside>>
    BY <1>3, CalmEffect DEF locator, table, references
  <2>2. \A o : Used(o)' <=> Used(o)
    BY <1>3, CalmEffect
  <2>3. \A s \in started' \cup stopped' : Used(s)'
    BY <1>3, <2>2, PurgedByCalm DEF PurgeInv, Used
  <2>4. \A h \in Signals :
          hpc'[h] \in {"unpublish", "remove", "drop"} => Used(Order[at[h]])'
    BY <1>3, <2>2, PurgedByCalm DEF PurgeInv
  <2> QED
    BY <1>3, <2>1, <2>3, <2>4, PurgedByCalm DEF PurgeInv
<1>4. CASE Dropping
  <2>1. PICK t \in Threads : \E o \in holds[t] : DropEffect(t, o)
    BY <1>4, DroppingEffect DEF SomeDrop
  <2>2. PICK o \in holds[t] : DropEffect(t, o)
    BY <2>1
  <2>3. /\ UNCHANGED <<servants, started, stopped, at, inside>>
        /\ \A u \in Threads : holds'[u] \subseteq holds[u]
    BY <2>2, DropFact
  <2>4. /\ \A c \in Calls : pc'[c] = "upcall" => pc[c] = "upcall"
        /\ \A h \in Signals : hpc'[h] = hpc[h] \/ hpc'[h] = "destroy"
    BY <1>4, DroppingEffect DEF TypeOK
  <2>5. \A s : Purged(s)' => Purged(s)
    BY <2>3, <2>4 DEF Purged
  <2>6. \A p : Used(p) => Used(p)'
    BY <1>4, UsedByDropping
  <2> QED
    BY <2>3, <2>4, <2>5, <2>6, ThreadFact DEF PurgeInv
<1>5. CASE CreateServant
  <2>1. /\ Current \in Services
        /\ servants' = [servants EXCEPT ![Current] =
             [servant |-> Current, serviceId |-> Current, allowedClients |-> {}]]
        /\ holds' = [holds EXCEPT ![Main] = {Current}]
        /\ UNCHANGED <<pc, hpc, started, stopped, at, inside>>
    BY <1>5, CreateEffect DEF services, handlers, history
  <2>2. ~Used(Current) /\ \A o : Used(o) => Used(o)'
    BY <1>5, UsedByCreation
  <2>3. \A s : Purged(s)' <=> Purged(s)
    BY <2>1 DEF Purged
  <2>4. ~Purged(Current)
    BY <2>2 DEF Purged, PurgeInv
  <2>5. /\ servants'[Current].serviceId = Current
        /\ \A id \in Identities \ {Current} : servants'[id] = servants[id]
    BY <2>1, NameFact DEF TypeOK, LocatorTypeOK
  <2>6. \A id \in Identities :
          servants'[id] # None /\ Purged(servants'[id].serviceId) => id \in inside
    BY <2>4, <2>5 DEF PurgeInv
  <2>7. \A c \in Calls : holds'[c] = holds[c]
    BY <2>1, ThreadFact DEF TypeOK, LocatorTypeOK
  <2> QED
    BY <2>1, <2>2, <2>3, <2>6, <2>7 DEF PurgeInv
<1>6. ASSUME NEW h \in Signals, RemoveServants(h)
      PROVE  PurgeInv'
  <2> DEFINE s == Order[at[h]]
             removed == {id \in Identities : servants[id] # None /\ servants[id].serviceId = s}
  <2>1. /\ servants' = [id \in Identities |-> IF id \in removed THEN None ELSE servants[id]]
        /\ holds' = [holds EXCEPT ![h] = @ \cup removed]
        /\ inside' = inside \cup {c \in Calls : pc[c] = "upcall" /\ s \in holds[c]}
        /\ hpc[h] = "remove" /\ hpc' = [hpc EXCEPT ![h] = "drop"]
        /\ UNCHANGED <<pc, mpc, started, stopped, deployed, at>>
    BY <1>6, PurgeEffect DEF services, handlers
  <2>2. \A o : Used(o)' <=> Used(o)
    BY <2>1 DEF Used, Created
  <2>3. \A p : Purged(p)' => Purged(p) \/ p = s
    BY <2>1 DEF Purged, TypeOK
  <2>4. \A c \in Calls : holds'[c] = holds[c]
    BY <2>1, ThreadFact DEF TypeOK, LocatorTypeOK
  <2>5. \A id \in Identities :
          servants'[id] # None => servants'[id] = servants[id] /\ servants[id].serviceId # s
    BY <2>1
  <2>6. \A id \in Identities :
          (servants[id] # None /\ Purged(servants[id].serviceId) => id \in inside)'
    BY <2>1, <2>3, <2>5 DEF PurgeInv
  <2>7. \A c \in Calls : \A p \in Services \cap holds'[c] :
          pc'[c] = "upcall" /\ Purged(p)' => c \in inside'
    BY <2>1, <2>3, <2>4 DEF PurgeInv
  <2>8. \A g \in Signals :
          hpc'[g] \in {"unpublish", "remove", "drop"} => Used(Order[at[g]])'
    BY <2>1, <2>2 DEF PurgeInv, TypeOK
  <2> QED
    BY <2>1, <2>2, <2>6, <2>7, <2>8 DEF PurgeInv
<1>7. ASSUME NEW c \in Calls, CallLocate(c)
      PROVE  PurgeInv'
  <2>1. /\ pc[c] = "idle"
        /\ UNCHANGED <<servants, mpc, hpc, started, stopped, deployed, at, inside>>
    BY <1>7, LocateEffect DEF services, handlers, history
  <2>2. PICK id \in Identities, user \in Users :
          EnterEffect(c, id, user) \/ RefuseEffect(c) \/ LockEffect(c, id, user)
    BY <1>7, LocateEffect
  <2>3. CASE LockEffect(c, id, user)
    <3>1. UNCHANGED holds /\ \A d \in Calls : pc'[d] = "upcall" => pc[d] = "upcall"
      BY <2>3 DEF LockEffect, TypeOK
    <3>2. \A o : Used(o) => Used(o)'
      BY <2>1, <2>3, UsedByCall DEF LockEffect
    <3>3. \A s : Purged(s)' <=> Purged(s)
      BY <2>1 DEF Purged
    <3> QED
      BY <2>1, <3>1, <3>2, <3>3 DEF PurgeInv
  <2> QED
    BY <2>1, <2>2, <2>3, PurgeKeepsEnter
<1>8. ASSUME NEW c \in Calls, CallAuthorize(c)
      PROVE  PurgeInv'
  BY <1>8, AuthorizeEffect, PurgeKeepsEnter DEF services, handlers, history
<1>9. ASSUME NEW c \in Calls, CallAdd(c) \/ CallRemove(c)
      PROVE  PurgeInv'
  <2>1. /\ pc[c] = "upcall" /\ pc' = [pc EXCEPT ![c] = "finish"]
        /\ UNCHANGED <<mpc, hpc, holds, started, stopped, deployed, at, inside>>
    BY <1>9, AddEffect, RemoveEffect DEF services, handlers, history, references
  <2>2. \A o : Used(o) => Used(o)'
    BY <2>1, UsedByCall
  <2>3. \A s : Purged(s)' <=> Purged(s)
    BY <2>1 DEF Purged
  <2>4. \A d \in Calls : pc'[d] = "upcall" => pc[d] = "upcall"
    BY <2>1 DEF TypeOK
  <2>5. \A id \in Identities :
          servants'[id] # None /\ Purged(servants'[id].serviceId) => id \in inside
    <3>1. CASE CallAdd(c)
      <4>1. PICK s \in Services \cap holds[c], list \in SUBSET Clients :
              servants' = [servants EXCEPT ![c] =
                [servant |-> c, serviceId |-> s, allowedClients |-> list]]
        BY <3>1, AddEffect
      <4>2. servants'[c].serviceId = s /\ \A id \in Identities \ {c} : servants'[id] = servants[id]
        BY <4>1, NameFact DEF TypeOK, LocatorTypeOK
      <4> QED
        BY <2>1, <4>2 DEF PurgeInv
    <3>2. CASE CallRemove(c)
      <4>1. servants' = [servants EXCEPT ![request[c].id] = None]
        BY <3>2, RemoveEffect
      <4> QED
        BY <4>1 DEF TypeOK, LocatorTypeOK, PurgeInv
    <3> QED
      BY <1>9, <3>1, <3>2
  <2> QED
    BY <2>1, <2>2, <2>3, <2>4, <2>5 DEF PurgeInv
<1> QED
  BY <1>1, <1>2, <1>3, <1>4, <1>5, <1>6, <1>7, <1>8, <1>9, StepCases

-----------------------------------------------------------------------------
(* HandlerInv and LoopInv *)

\* A handler is in the part of main.cc that is guarded by its mutex.
Stopping(h) == hpc[h] \in {"stop", "unpublish", "remove", "drop", "destroy", "waiting"}

LEMMA HandlerKept ==
  ASSUME HandlerInv, LoopInv, \A h \in Signals : Stopping(h)' => Stopping(h),
         UNCHANGED <<terminated, handlerMutex, seen, at, stopped>>
  PROVE  HandlerInv' /\ LoopInv'
BY DEF HandlerInv, LoopInv, Stopping

LEMMA EnterKeepsHandlers ==
  ASSUME TypeInv, HandlerInv, LoopInv, NEW h \in Signals, HandlerEnter(h)
  PROVE  HandlerInv' /\ LoopInv'
<1> USE DEF TypeInv
<1>1. handlerMutex = None /\ UNCHANGED <<terminated, stopped>>
  BY DEF HandlerEnter, services
<1>2. CASE terminated
  <2>1. /\ hpc' = [hpc EXCEPT ![h] = "done"] /\ UNCHANGED <<at, seen, handlerMutex>>
    BY <1>2 DEF HandlerEnter, HandlerGoto
  <2> QED
    BY <1>1, <2>1, HandlerKept DEF Stopping, TypeOK
<1>3. CASE ~terminated
  <2>1. /\ hpc' = [hpc EXCEPT ![h] = "stop"] /\ handlerMutex' = h
        /\ at' = [at EXCEPT ![h] = deployed] /\ seen' = [seen EXCEPT ![h] = deployed]
    BY <1>3 DEF HandlerEnter, HandlerGoto
  <2>2. stopped = {} /\ \A g \in Signals : seen[g] = 0 /\ ~Stopping(g)
    <3>1. stopped = {}
      BY <1>1, <1>3 DEF HandlerInv
    <3>2. ASSUME NEW g \in Signals
          PROVE  ~(seen[g] > 0) /\ ~Stopping(g)
      <4>1. handlerMutex # g
        BY <1>1, NameFact
      <4> QED
        BY <1>3, <4>1 DEF HandlerInv, Stopping
    <3>3. \A g \in Signals : seen[g] \in Nat
      BY DEF TypeOK
    <3> QED
      BY <3>1, <3>2, <3>3
  <2>3. HandlerInv'
    BY <1>1, <1>3, <2>1, <2>2, NameFact DEF HandlerInv, Stopping, TypeOK
  <2>4. LoopInv'
    <3>1. SUFFICES ASSUME NEW g \in Signals, NEW k \in 1..seen'[g]
                   PROVE  ~(at'[g] < k)
      BY <1>1, <2>2 DEF LoopInv
    <3>2. g = h /\ seen'[h] = deployed /\ at'[h] = deployed
      BY <2>1, <2>2 DEF TypeOK
    <3> QED
      BY <3>2 DEF TypeOK
  <2> QED
    BY <2>3, <2>4
<1> QED
  BY <1>2, <1>3

LEMMA StoppedKeepsHandlers ==
  ASSUME TypeInv, HandlerInv, LoopInv, NEW h \in Signals, Stopped(h)
  PROVE  HandlerInv' /\ LoopInv'
<1> USE DEF TypeInv
<1> DEFINE a == at[h]
<1>1. /\ hpc[h] = "drop" /\ hpc' = [hpc EXCEPT ![h] = "stop"]
      /\ stopped' = stopped \cup {Order[a]}
      /\ at' = [at EXCEPT ![h] = (IF @ = seen[h] THEN deployed ELSE @) - 1]
      /\ UNCHANGED <<deployed, seen, handlerMutex, terminated>>
  BY DEF Stopped, HandlerGoto
<1>2. handlerMutex = h /\ h # None
  BY <1>1, NameFact DEF HandlerInv
<1>3. /\ a \in 1..Len(Order) /\ seen[h] \in 0..Len(Order) /\ deployed \in 0..Len(Order)
      /\ seen[h] <= deployed
      /\ at'[h] = (IF a = seen[h] THEN deployed ELSE a) - 1
  BY <1>1 DEF TypeOK, IndexInv
<1>4. HandlerInv'
  BY <1>1, <1>2 DEF HandlerInv, TypeOK
<1>5. ASSUME NEW k \in 1..seen[h]
      PROVE  /\ at'[h] < k => Order[k] \in stopped'
             /\ Order[k] \in stopped' => at'[h] < k \/ k = seen[h]
  <2>1. /\ at[h] < k => Order[k] \in stopped
        /\ Order[k] \in stopped => at[h] < k \/ k = seen[h]
    BY DEF LoopInv
  <2>2. k \in 1..Len(Order) /\ (Order[k] \in stopped' => Order[k] \in stopped \/ k = a)
    BY <1>1, <1>3, OrderFact
  <2>3. k = a => Order[k] \in stopped'
    BY <1>1
  <2>4. CASE a = seen[h]
    BY <1>1, <1>3, <2>1, <2>2, <2>3, <2>4, OrderFact
  <2>5. CASE a # seen[h]
    BY <1>1, <1>3, <2>1, <2>2, <2>3, <2>5, OrderFact
  <2> QED
    BY <2>4, <2>5
<1>6. ASSUME NEW g \in Signals \ {h}
      PROVE  seen[g] = 0
  BY <1>2 DEF HandlerInv, TypeOK
<1>7. LoopInv'
  BY <1>1, <1>5, <1>6 DEF LoopInv
<1> QED
  BY <1>4, <1>7

LEMMA HandlerKeeps ==
  ASSUME TypeInv, NameInv, AccessInv, MutexInv, HandlerInv, LoopInv, [Next]_vars
  PROVE  HandlerInv' /\ LoopInv'
<1> USE DEF TypeInv, services, handlers
<1>1. CASE UNCHANGED vars
  BY <1>1, HandlerKept DEF vars, Stopping
<1>2. CASE Ended
  BY <1>2 DEF Ended, HandlerInv, LoopInv
<1>3. CASE Calm
  <2>1. CASE Boot \/ deployService \/ serviceInit \/ Publish \/ WaitForShutdown \/ Restart
    <3>1. UNCHANGED <<hpc, terminated, handlerMutex, seen, at, stopped>>
      BY <2>1 DEF Boot, deployService, serviceInit, Publish, WaitForShutdown, Restart, MainGoto
    <3> QED
      BY <3>1, HandlerKept DEF Stopping
  <2>2. ASSUME NEW h \in Signals,
               Signal(h) \/ stopService(h) \/ Unpublish(h) \/ DestroyCommunicator(h)
        PROVE  HandlerInv' /\ LoopInv'
    <3>1. /\ \A g \in Signals : Stopping(g)' => Stopping(g)
          /\ UNCHANGED <<terminated, handlerMutex, seen, at, stopped>>
      BY <2>2 DEF Signal, stopService, Unpublish, DestroyCommunicator, HandlerGoto, Stopping,
                  TypeOK
    <3> QED
      BY <3>1, HandlerKept
  <2>3. ASSUME NEW h \in Signals, HandlerDone(h)
        PROVE  HandlerInv' /\ LoopInv'
    <3>1. /\ hpc[h] = "waiting" /\ hpc' = [hpc EXCEPT ![h] = "done"]
          /\ terminated' = TRUE /\ handlerMutex' = None /\ UNCHANGED <<seen, at, stopped>>
      BY <2>3 DEF HandlerDone, HandlerGoto
    <3>2. \A g \in Signals : ~Stopping(g)'
      BY <3>1 DEF HandlerInv, Stopping, TypeOK
    <3> QED
      BY <3>1, <3>2 DEF HandlerInv, LoopInv, Stopping
  <2> QED
    BY <1>3, <2>1, <2>2, <2>3, EnterKeepsHandlers, StoppedKeepsHandlers DEF Calm
<1>4. CASE Dropping
  <2>1. UNCHANGED <<terminated, handlerMutex, seen, at, stopped>>
    BY <1>4, DroppingEffect, DropFact DEF SomeDrop
  <2> QED
    BY <1>4, <2>1, DroppingEffect, HandlerKept DEF Stopping
<1>5. CASE CreateServant
  BY <1>5, CreateEffect, HandlerKept DEF Stopping
<1>6. ASSUME NEW h \in Signals, RemoveServants(h)
      PROVE  HandlerInv' /\ LoopInv'
  <2>1. /\ hpc[h] = "remove" /\ hpc' = [hpc EXCEPT ![h] = "drop"]
        /\ UNCHANGED <<terminated, handlerMutex, seen, at, stopped>>
    BY <1>6, PurgeEffect
  <2> QED
    BY <2>1, HandlerKept DEF Stopping, TypeOK
<1>7. ASSUME NEW c \in Calls, CallLocate(c) \/ CallAuthorize(c) \/ CallAdd(c) \/ CallRemove(c)
      PROVE  HandlerInv' /\ LoopInv'
  <2>1. UNCHANGED <<hpc, terminated, handlerMutex, seen, at, stopped>>
    BY <1>7, LocateEffect, AuthorizeEffect, AddEffect, RemoveEffect
  <2> QED
    BY <2>1, HandlerKept DEF Stopping
<1> QED
  BY <1>1, <1>2, <1>3, <1>4, <1>5, <1>6, <1>7, StepCases

\* Of two services that the handler has found, the later one is stopped first: the
\* loop has passed it when it comes to the earlier one.
LEMMA LoopOrder ==
  ASSUME TypeInv, LoopInv
  PROVE  StopsInReverse
<1>1. ASSUME NEW h \in Signals, NEW j \in 1..seen[h], NEW i \in 1..(j - 1),
             Order[i] \in stopped
      PROVE  Order[j] \in stopped
  <2>1. at[h] \in Nat /\ seen[h] \in Nat /\ i \in 1..seen[h] /\ i # seen[h]
    BY DEF TypeInv, TypeOK
  <2>2. at[h] < i
    BY <1>1, <2>1 DEF LoopInv
  <2> QED
    BY <2>1, <2>2 DEF LoopInv
<1> QED
  BY <1>1 DEF StopsInReverse

-----------------------------------------------------------------------------
(* PublishInv *)

LEMMA PublishKept ==
  ASSUME PublishInv, \A h \in Signals : hpc'[h] # "idle" => hpc[h] # "idle",
         \A h \in Signals : hpc'[h] \in {"remove", "drop"} => hpc[h] \in {"remove", "drop"}
                                                              /\ at'[h] = at[h],
         mpc' = mpc, UNCHANGED <<early, published, deployed>>,
         \A s \in published \cup {Order[deployed]} : servants[s] # None => servants'[s] # None
  PROVE  PublishInv'
BY DEF PublishInv

LEMMA MainKeepsPublish ==
  ASSUME TypeInv, PublishInv,
         Boot \/ deployService \/ serviceInit \/ Publish \/ WaitForShutdown \/ Restart
  PROVE  PublishInv'
<1> USE DEF locator, table, services, handlers, history
<1>1. /\ mpc # "wait" /\ UNCHANGED <<servants, hpc, at, early>>
      /\ mpc' = "init" => mpc = "init"
      /\ mpc' = "publish" => mpc = "init" /\ UNCHANGED deployed
      /\ mpc' # "init"
  BY DEF Boot, deployService, serviceInit, Publish, WaitForShutdown, Restart, MainGoto
<1>2. \/ published' = published
      \/ /\ mpc = "publish" /\ published' \subseteq published \cup {Order[deployed]}
  BY DEF Boot, deployService, serviceInit, Publish, WaitForShutdown, Restart, MainGoto, Current
<1> QED
  BY <1>1, <1>2 DEF PublishInv

LEMMA HandlerKeepsPublish ==
  ASSUME TypeInv, PublishInv, NEW h \in Signals,
         \/ Signal(h) \/ HandlerEnter(h) \/ stopService(h) \/ Unpublish(h)
         \/ Stopped(h) \/ DestroyCommunicator(h) \/ HandlerDone(h)
  PROVE  PublishInv'
<1> USE DEF locator, table, services, handlers, history, TypeInv
<1>1. CASE Unpublish(h)
  <2>1. /\ hpc'[h] = "remove" => Order[at[h]] \notin published'
        /\ published' \subseteq published
        /\ \A g \in Signals \ {h} : hpc'[g] = hpc[g]
        /\ hpc[h] # "idle" /\ UNCHANGED <<mpc, servants, deployed, early, at>>
        /\ hpc'[h] # "drop"
    BY <1>1 DEF Unpublish, HandlerGoto, TypeOK
  <2> QED
    BY <2>1 DEF PublishInv
<1>2. CASE ~Unpublish(h)
  <2>1. /\ UNCHANGED <<mpc, servants, deployed, published>>
        /\ \A g \in Signals \ {h} : hpc'[g] = hpc[g] /\ at'[g] = at[g]
        /\ hpc'[h] \notin {"remove", "drop"}
        /\ ~early' => ~early /\ (hpc[h] = "idle" => mpc = "wait")
    BY <1>2 DEF Signal, HandlerEnter, stopService, Stopped, DestroyCommunicator, HandlerDone,
                HandlerGoto, TypeOK
  <2> QED
    BY <2>1 DEF PublishInv
<1> QED
  BY <1>1, <1>2

LEMMA PublishKeeps ==
  ASSUME TypeInv, MutexInv, NameInv, AccessInv, PublishInv, [Next]_vars
  PROVE  PublishInv'
<1> USE DEF TypeInv, services, handlers, history
<1>1. CASE UNCHANGED vars
  BY <1>1 DEF vars, locator, table, PublishInv
<1>2. CASE Ended
  BY <1>2 DEF Ended, PublishInv
<1>3. CASE Calm
  BY <1>3, MainKeepsPublish, HandlerKeepsPublish DEF Calm
<1>4. CASE Dropping
  <2>1. UNCHANGED <<servants, early, published, deployed, at>>
    BY <1>4, DroppingEffect, DropFact DEF SomeDrop
  <2>2. /\ mpc' = mpc \/ (mpc = "drop" /\ mpc' = "next")
        /\ \A h \in Signals : hpc'[h] = hpc[h] \/ (hpc[h] = "drop" /\ hpc'[h] = "destroy")
    BY <1>4, DroppingEffect
  <2> QED
    BY <2>1, <2>2 DEF PublishInv
<1>5. CASE CreateServant
  <2>1. /\ mpc = "create" /\ mpc' = "init" /\ Current = Order[deployed]
        /\ servants' = [servants EXCEPT ![Current] =
             [servant |-> Current, serviceId |-> Current, allowedClients |-> {}]]
        /\ Current \in Services
        /\ UNCHANGED <<hpc, early, published, deployed, at>>
    BY <1>5, CreateEffect
  <2>2. /\ servants'[Current] # None
        /\ \A id \in Identities : servants[id] # None => servants'[id] # None
    <3>1. [servant |-> Current, serviceId |-> Current, allowedClients |-> {}] \in ServantEntry
      BY <2>1, NameFact DEF ServantEntry
    <3> QED
      BY <2>1, <3>1, NameFact, LocatorAssumption DEF TypeOK, LocatorTypeOK
  <2>3. published \subseteq Identities
    BY NameFact DEF TypeOK
  <2> QED
    BY <2>1, <2>2, <2>3 DEF PublishInv
<1>6. ASSUME NEW h \in Signals, RemoveServants(h)
      PROVE  PublishInv'
  <2> DEFINE s == Order[at[h]]
             removed == {id \in Identities : servants[id] # None /\ servants[id].serviceId = s}
  <2>1. /\ servants' = [id \in Identities |-> IF id \in removed THEN None ELSE servants[id]]
        /\ hpc[h] = "remove" /\ hpc' = [hpc EXCEPT ![h] = "drop"]
        /\ UNCHANGED <<mpc, early, published, deployed, at>>
    BY <1>6, PurgeEffect
  <2>2. \A g \in Signals : hpc'[g] = hpc[g] \/ (g = h /\ hpc'[g] = "drop")
    BY <2>1 DEF TypeOK
  <2>3. ASSUME ~early
        PROVE  /\ mpc = "wait" /\ s \notin published
               /\ \A p \in published : servants'[p] # None
    <3>1. mpc = "wait" /\ s \notin published /\ \A p \in published : servants[p] # None
      BY <2>1, <2>3 DEF PublishInv
    <3>2. \A p \in published : p \in Identities /\ p \in Services
      BY NameFact DEF TypeOK
    <3>3. \A p \in published : p \notin removed
      BY <3>1, <3>2 DEF NameInv
    <3> QED
      BY <2>1, <3>1, <3>2, <3>3
  <2> QED
    BY <2>1, <2>2, <2>3 DEF PublishInv
<1>7. ASSUME NEW c \in Calls, CallLocate(c) \/ CallAuthorize(c)
      PROVE  PublishInv'
  BY <1>7, LocateEffect, AuthorizeEffect DEF PublishInv
<1>8. ASSUME NEW c \in Calls, CallAdd(c) \/ CallRemove(c)
      PROVE  PublishInv'
  <2>1. UNCHANGED <<mpc, hpc, early, published, deployed, at>>
    BY <1>8, AddEffect, RemoveEffect
  <2>2. \A s \in Services : servants'[s] = servants[s]
    <3>1. CASE CallAdd(c)
      BY <3>1, AddEffect, NameFact DEF TypeOK, LocatorTypeOK
    <3>2. CASE CallRemove(c)
      <4>1. servants' = [servants EXCEPT ![request[c].id] = None] /\ request[c].id \in Calls
        BY <3>2, RemoveEffect
      <4> QED
        BY <4>1, NameFact DEF TypeOK, LocatorTypeOK
    <3> QED
      BY <1>8, <3>1, <3>2
  <2>3. mpc \in {"init", "publish"} => Order[deployed] \in Services
    BY OrderFact DEF TypeOK, IndexInv
  <2> QED
    BY <2>1, <2>2, <2>3 DEF PublishInv, TypeOK
<1> QED
  BY <1>1, <1>2, <1>3, <1>4, <1>5, <1>6, <1>7, <1>8, StepCases

-----------------------------------------------------------------------------
(* HoldsInv *)

LEMMA HoldsKeeps ==
  ASSUME TypeInv, MutexInv, NameInv, AccessInv, HoldsInv, [Next]_vars
  PROVE  HoldsInv'
<1> USE DEF TypeInv, services
<1>1. CASE UNCHANGED vars
  BY <1>1 DEF vars, locator, references, HoldsInv
<1>2. CASE Ended
  BY <1>2, ThreadFact DEF Ended, HoldsInv
<1>3. CASE Calm
  <2>1. UNCHANGED <<holds, pc>>
    BY <1>3, CalmEffect DEF locator, references
  <2>2. \/ deployed' = deployed
        \/ mpc' \notin {"init", "publish", "drop"}
    BY <1>3 DEF Calm, Boot, deployService, serviceInit, Publish, WaitForShutdown, Restart,
                Signal, HandlerEnter, stopService, Unpublish, Stopped, DestroyCommunicator,
                HandlerDone, MainGoto, HandlerGoto
  <2>3. mpc \in {"init", "publish", "drop"} <=> mpc' \in {"init", "publish", "drop"}
    BY <1>3 DEF Calm, Boot, deployService, serviceInit, Publish, WaitForShutdown, Restart,
                Signal, HandlerEnter, stopService, Unpublish, Stopped, DestroyCommunicator,
                HandlerDone, MainGoto, HandlerGoto
  <2> QED
    BY <2>1, <2>2, <2>3 DEF HoldsInv
<1>4. CASE Dropping
  <2>1. PICK t \in Threads : /\ t \in Calls => pc'[t] = "done"
                             /\ t = Main => mpc = "drop" /\ mpc' = "next"
                             /\ mpc = "drop" /\ mpc' # "drop" => t = Main
                             /\ \E o \in holds[t] : DropEffect(t, o)
    BY <1>4, DroppingEffect DEF SomeDrop
  <2>2. PICK o \in holds[t] : DropEffect(t, o)
    BY <2>1
  <2>3. /\ holds'[t] = holds[t] \ {o}
        /\ \A u \in Threads \ {t} : holds'[u] = holds[u]
        /\ UNCHANGED deployed
    BY <2>2, DropFact
  <2>4. \A c \in Calls : pc'[c] = pc[c] \/ pc'[c] = "done"
    BY <1>4, DroppingEffect DEF TypeOK
  <2>5. mpc' = mpc \/ (mpc' = "next" /\ mpc = "drop")
    BY <1>4, DroppingEffect
  <2>6. CASE t = Main
    BY <2>1, <2>3, <2>4, <2>6, ThreadFact DEF HoldsInv
  <2>7. CASE t # Main
    <3>1. mpc' = mpc /\ holds'[Main] = holds[Main]
      BY <2>1, <2>3, <2>5, <2>7, ThreadFact
    <3> QED
      BY <2>1, <2>3, <2>4, <3>1, ThreadFact DEF HoldsInv
  <2> QED
    BY <2>6, <2>7
<1>5. CASE CreateServant
  <2>1. /\ mpc' = "init" /\ Current = Order[deployed] /\ UNCHANGED <<deployed, pc>>
        /\ holds' = [holds EXCEPT ![Main] = {Current}]
    BY <1>5, CreateEffect
  <2>2. /\ holds'[Main] = {Order[deployed']}
        /\ \A c \in Calls : holds'[c] = holds[c]
    BY <2>1, ThreadFact DEF TypeOK, LocatorTypeOK
  <2> QED
    BY <2>1, <2>2 DEF HoldsInv
<1>6. ASSUME NEW h \in Signals, RemoveServants(h)
      PROVE  HoldsInv'
  <2>1. /\ \A t \in Threads \ {h} : holds'[t] = holds[t]
        /\ UNCHANGED <<pc, mpc, deployed>>
    BY <1>6, PurgeEffect DEF TypeOK, LocatorTypeOK
  <2> QED
    BY <2>1, ThreadFact DEF HoldsInv
<1>7. ASSUME NEW c \in Calls, CallLocate(c)
      PROVE  HoldsInv'
  <2>1. pc[c] = "idle" /\ UNCHANGED <<mpc, deployed>>
    BY <1>7, LocateEffect
  <2>2. PICK id \in Identities, user \in Users :
          EnterEffect(c, id, user) \/ RefuseEffect(c) \/ LockEffect(c, id, user)
    BY <1>7, LocateEffect
  <2>3. /\ \A t \in Threads \ {c} : holds'[t] = holds[t]
        /\ \A d \in Calls \ {c} : pc'[d] = pc[d]
        /\ pc'[c] = "authorize" => holds'[c] = holds[c]
        /\ pc'[c] # "idle"
    BY <2>2 DEF EnterEffect, RefuseEffect, LockEffect, TypeOK, LocatorTypeOK
  <2> QED
    BY <2>1, <2>3, ThreadFact DEF HoldsInv
<1>8. ASSUME NEW c \in Calls, CallAuthorize(c)
      PROVE  HoldsInv'
  <2>1. UNCHANGED <<mpc, deployed>>
    BY <1>8, AuthorizeEffect
  <2>2. PICK id \in Identities, user \in Users : EnterEffect(c, id, user) \/ RefuseEffect(c)
    BY <1>8, AuthorizeEffect
  <2>3. /\ \A t \in Threads \ {c} : holds'[t] = holds[t]
        /\ \A d \in Calls \ {c} : pc'[d] = pc[d]
        /\ pc'[c] \notin {"idle", "authorize"}
    BY <2>2 DEF EnterEffect, RefuseEffect, TypeOK, LocatorTypeOK
  <2> QED
    BY <2>1, <2>3, ThreadFact DEF HoldsInv
<1>9. ASSUME NEW c \in Calls, CallAdd(c) \/ CallRemove(c)
      PROVE  HoldsInv'
  BY <1>9, AddEffect, RemoveEffect DEF HoldsInv, references, TypeOK
<1> QED
  BY <1>1, <1>2, <1>3, <1>4, <1>5, <1>6, <1>7, <1>8, <1>9, StepCases

-----------------------------------------------------------------------------
(* SlaveInv *)

\* Steps that destroy nothing and lose no reference.
LEMMA SlaveKept ==
  ASSUME SlaveInv, UNCHANGED <<destroyed, unanswered, factories, lost>>,
         \A s \in Services : Used(s)' => Used(s) \/ Held(s)',
         \A s \in Services : IsInitialized(s)' <=> IsInitialized(s),
         \A s \in Services :
           servants[s] # None \/ Held(s) => servants'[s] # None \/ Held(s)'
  PROVE  SlaveInv'
BY NameFact DEF SlaveInv

\* An object somebody has a reference to is initialized, unless it is main's.
LEMMA HeldIsInitialized ==
  ASSUME TypeInv, NameInv, HoldsInv, NEW t \in Threads, NEW s \in Slaves, s \in holds[t]
  PROVE  \/ IsInitialized(s)
         \/ mpc = "init" /\ s \in holds[Main]
<1>1. Used(s) /\ s \notin Calls
  BY NameFact DEF NameInv
<1>2. PICK i \in 1..Created : Order[i] = s
  BY <1>1 DEF Used
<1>3. CASE mpc = "init" /\ i = deployed
  BY <1>2, <1>3 DEF HoldsInv
<1>4. CASE ~(mpc = "init" /\ i = deployed)
  <2>1. i \in 1..Initialized
    BY <1>4 DEF Created, Initialized, TypeInv, TypeOK
  <2> QED
    BY <1>2, <2>1 DEF IsInitialized
<1> QED
  BY <1>3, <1>4

LEMMA DroppingKeepsSlaves ==
  ASSUME TypeInv, NameInv, DeadInv, HoldsInv, SlaveInv, Dropping
  PROVE  SlaveInv'
<1> USE DEF TypeInv
<1>1. PICK t \in Threads : /\ t = Main => mpc = "drop" /\ mpc' = "next"
                           /\ \E o \in holds[t] : DropEffect(t, o)
  BY DroppingEffect DEF SomeDrop
<1>2. PICK o \in holds[t] : DropEffect(t, o)
  BY <1>1
<1>3. /\ UNCHANGED <<servants, deployed, lost>>
      /\ holds'[t] = holds[t] \ {o}
      /\ \A u \in Threads \ {t} : holds'[u] = holds[u]
  BY <1>2, DropFact
<1>4. \A s \in Services : (Used(s)' => Used(s)) /\ (IsInitialized(s)' <=> IsInitialized(s))
  <2>1. Initialized' = Initialized
    BY <1>3, DroppingEffect DEF Initialized
  <2> QED
    BY <2>1, UsedByDropping DEF IsInitialized
<1>5. \A p : p # o => (Held(p)' <=> Held(p))
  BY <1>3 DEF Held
<1>6. CASE ~LastReference(t, o)
  <2>1. UNCHANGED <<destroyed, factories, unanswered>>
    BY <1>2, <1>6 DEF DropEffect
  <2>2. InTable(o) \/ Held(o)'
    BY <1>3, <1>6 DEF LastReference, Held
  <2>3. o \in Services => servants[o] # None \/ Held(o)'
    BY <2>2 DEF InTable, NameInv
  <2> QED
    BY <1>3, <1>4, <1>5, <2>1, <2>3, SlaveKept
<1>7. CASE LastReference(t, o)
  <2>1. /\ destroyed' = destroyed \cup {o}
        /\ \/ o \notin Slaves /\ UNCHANGED <<factories, unanswered>>
           \/ o \in Slaves /\ unregister(o) /\ UNCHANGED unanswered
           \/ o \in Slaves /\ unanswered' = unanswered \cup {o} /\ UNCHANGED factories
    BY <1>2, <1>7 DEF DropEffect
  <2>2. \A s \in Slaves \ {o} : /\ factories'[s] = factories[s]
                                /\ s \in unanswered' <=> s \in unanswered
    BY <2>1 DEF unregister, TypeOK
  <2>3. ASSUME NEW s \in Slaves \ {o}
        PROVE  /\ Used(s)' /\ s \notin destroyed' => servants'[s] # None \/ Held(s)'
               /\ s \notin destroyed' =>
                    factories'[s] = IF IsInitialized(s)' THEN lost'[s] + 1 ELSE lost'[s]
               /\ s \in destroyed' \ unanswered' => factories'[s] = lost'[s]
    BY <1>3, <1>4, <1>5, <2>1, <2>2, NameFact DEF SlaveInv
  <2>4. ASSUME o \in Slaves \ unanswered'
        PROVE  factories'[o] = lost[o]
    <3>1. o \notin destroyed
      BY <1>7 DEF DeadInv, LastReference
    <3>2. IsInitialized(o)
      <4>1. CASE mpc = "init" /\ o \in holds[Main]
        BY <1>1, <1>7, <4>1, ThreadFact DEF LastReference
      <4> QED
        BY <2>4, <4>1, HeldIsInitialized
    <3>3. factories[o] = lost[o] + 1 /\ lost[o] \in Nat
      BY <2>4, <3>1, <3>2, NameFact DEF SlaveInv, TypeOK
    <3>4. unregister(o)
      BY <2>1, <2>4
    <3>5. factories'[o] = IF factories[o] = 0 THEN 0 ELSE factories[o] - 1
      BY <2>4, <3>4 DEF unregister, TypeOK
    <3> QED
      BY <3>3, <3>5
  <2> QED
    BY <1>3, <2>1, <2>3, <2>4 DEF SlaveInv
<1> QED
  BY <1>6, <1>7

LEMMA CalmKeepsSlaves ==
  ASSUME TypeInv, NameInv, DeadInv, HoldsInv, SlaveInv, Calm
  PROVE  SlaveInv'
<1> USE DEF TypeInv, services, handlers, history
<1>1. /\ UNCHANGED <<servants, holds, destroyed, unanswered, lost>>
      /\ \A o : Used(o)' <=> Used(o)
  BY CalmEffect DEF locator, table, references
<1>2. \A o : Held(o)' <=> Held(o)
  BY <1>1 DEF Held
<1>3. CASE serviceInit
  <2>1. /\ mpc = "init" /\ mpc' = "publish" /\ UNCHANGED deployed
        /\ IF Current \in Slaves THEN register(Current) ELSE UNCHANGED factories
    BY <1>3 DEF serviceInit, MainGoto
  <2>2. deployed \in 1..Len(Order) /\ Current = Order[deployed]
        /\ Initialized = deployed - 1 /\ Initialized' = deployed
    BY <2>1 DEF Current, Initialized, TypeOK, IndexInv
  <2>3. Current \notin destroyed
    BY <2>1, <2>2, ThreadFact DEF HoldsInv, DeadInv
  <2>4. \A s \in Slaves : IsInitialized(s)' <=> IsInitialized(s) \/ s = Current
    BY <2>2 DEF IsInitialized
  <2>5. ~IsInitialized(Current)
    BY <2>2, OrderFact DEF IsInitialized
  <2>6. \A s \in Slaves : factories'[s] = IF s = Current THEN factories[s] + 1 ELSE factories[s]
    BY <2>1 DEF register, TypeOK
  <2>7. ASSUME NEW s \in Slaves
        PROVE  /\ Used(s)' /\ s \notin destroyed' => servants'[s] # None \/ Held(s)'
               /\ s \notin destroyed' =>
                    factories'[s] = IF IsInitialized(s)' THEN lost'[s] + 1 ELSE lost'[s]
               /\ s \in destroyed' \ unanswered' => factories'[s] = lost'[s]
    <3>1. CASE s = Current
      BY <1>1, <1>2, <2>3, <2>4, <2>5, <2>6, <3>1 DEF SlaveInv
    <3>2. CASE s # Current
      BY <1>1, <1>2, <2>4, <2>6, <3>2 DEF SlaveInv
    <3> QED
      BY <3>1, <3>2
  <2> QED
    BY <2>7 DEF SlaveInv
<1>4. CASE ~serviceInit
  <2>1. UNCHANGED factories /\ Initialized' = Initialized
    <3>1. CASE deployService
      BY <3>1 DEF deployService, MainGoto, Initialized, TypeOK
    <3>2. CASE ~deployService
      <4>1. /\ UNCHANGED <<factories, deployed>>
            /\ mpc \in {"create", "init"} <=> mpc' \in {"create", "init"}
        BY <1>4, <3>2 DEF Calm, Boot, Publish, WaitForShutdown, Restart, Signal, HandlerEnter,
             stopService, Unpublish, Stopped, DestroyCommunicator, HandlerDone, MainGoto,
             HandlerGoto
      <4> QED
        BY <4>1 DEF Initialized
    <3> QED
      BY <3>1, <3>2
  <2>2. \A s : IsInitialized(s)' <=> IsInitialized(s)
    BY <2>1 DEF IsInitialized
  <2> QED
    BY <1>1, <1>2, <2>1, <2>2, SlaveKept
<1> QED
  BY <1>3, <1>4

LEMMA EnterKeepsSlaves ==
  ASSUME TypeInv, HoldsInv, SlaveInv, NEW c \in Calls, NEW id \in Identities,
         NEW user \in Users, pc[c] \in {"idle", "authorize"},
         EnterEffect(c, id, user) \/ RefuseEffect(c) \/ LockEffect(c, id, user),
         UNCHANGED <<servants, destroyed, mpc, deployed, factories, unanswered, lost>>
  PROVE  SlaveInv'
<1> USE DEF TypeInv
<1>1. \A s \in Services : Used(s)' => Used(s)
  <2>1. PICK to : pc' = [pc EXCEPT ![c] = to] /\ to \in {"upcall", "done", "authorize"}
    BY DEF EnterEffect, RefuseEffect, LockEffect
  <2> QED
    BY <2>1, UsedByCall
<1>2. \A s \in Services : IsInitialized(s)' <=> IsInitialized(s)
  BY DEF IsInitialized, Initialized
<1>3. \A t \in Threads : holds[t] \subseteq holds'[t]
  <2>1. holds[c] = {} /\ \A t \in Threads \ {c} : holds'[t] = holds[t]
    BY DEF HoldsInv, EnterEffect, RefuseEffect, LockEffect, TypeOK, LocatorTypeOK
  <2> QED
    BY <2>1
<1>4. \A s : Held(s) => Held(s)'
  BY <1>3 DEF Held
<1> QED
  BY <1>1, <1>2, <1>4, SlaveKept

LEMMA SlaveKeeps ==
  ASSUME TypeInv, MutexInv, NameInv, AccessInv, DeadInv, HoldsInv, SlaveInv,
         [Next]_vars
  PROVE  SlaveInv'
<1> USE DEF TypeInv, services, handlers, history
<1>1. CASE UNCHANGED vars
  BY <1>1 DEF vars, locator, table, references, SlaveInv, Used, Created, Held, IsInitialized,
              Initialized
<1>2. CASE Ended
  <2>1. Initialized' = 0 /\ Created' = 0
    BY <1>2 DEF Ended, Initialized, Created
  <2>2. \A s \in Services : ~Used(s)' /\ ~IsInitialized(s)'
    BY <1>2, <2>1, NameFact DEF Ended, Used, IsInitialized
  <2> QED
    BY <1>2, <2>2, NameFact DEF Ended, SlaveInv
<1>3. CASE Calm
  BY <1>3, CalmKeepsSlaves
<1>4. CASE Dropping
  BY <1>4, DroppingKeepsSlaves
<1>5. CASE CreateServant
  <2>1. /\ mpc = "create" /\ mpc' = "init" /\ UNCHANGED <<pc, deployed>>
        /\ servants' = [servants EXCEPT ![Current] =
             [servant |-> Current, serviceId |-> Current, allowedClients |-> {}]]
        /\ holds' = [holds EXCEPT ![Main] = {Current}]
        /\ UNCHANGED <<destroyed, unanswered, factories, lost>>
    BY <1>5, CreateEffect
  <2>2. PICK v \in Services : v = Current
    BY <1>5, CreateEffect
  <2>3. /\ \A o : Used(o)' => Used(o) \/ o = v
        /\ ~Used(v)
    BY <1>5, <2>2, UsedByCreation
  <2>4. Held(v)'
    BY <2>1, <2>2, ThreadFact DEF Held, TypeOK, LocatorTypeOK
  <2>5. \A t \in Threads : holds[t] \subseteq holds'[t]
    BY <2>1, ThreadFact DEF HoldsInv, TypeOK, LocatorTypeOK
  <2>6. \A s : Held(s) => Held(s)'
    BY <2>5 DEF Held
  <2>7. \A s \in Services \ {v} : servants'[s] = servants[s]
    BY <2>1, <2>2, NameFact DEF TypeOK, LocatorTypeOK
  <2>8. \A s \in Services : IsInitialized(s)' <=> IsInitialized(s)
    BY <2>1 DEF IsInitialized, Initialized
  <2> QED
    BY <2>1, <2>3, <2>4, <2>6, <2>7, <2>8, SlaveKept
<1>6. ASSUME NEW h \in Signals, RemoveServants(h)
      PROVE  SlaveInv'
  <2> DEFINE removed == {id \in Identities : servants[id] # None
                                            /\ servants[id].serviceId = Order[at[h]]}
  <2>1. /\ servants' = [id \in Identities |-> IF id \in removed THEN None ELSE servants[id]]
        /\ holds' = [holds EXCEPT ![h] = @ \cup removed]
        /\ UNCHANGED <<pc, mpc, deployed, destroyed, unanswered, factories, lost>>
    BY <1>6, PurgeEffect
  <2>2. \A t \in Threads : holds[t] \subseteq holds'[t] /\ removed \subseteq holds'[h]
    BY <2>1, ThreadFact DEF TypeOK, LocatorTypeOK
  <2>3. \A s : Held(s) \/ s \in removed => Held(s)'
    BY <2>2, ThreadFact DEF Held
  <2>4. \A s \in Services : /\ Used(s)' <=> Used(s)
                            /\ IsInitialized(s)' <=> IsInitialized(s)
    BY <2>1 DEF Used, Created, IsInitialized, Initialized
  <2>5. \A s \in Services : servants[s] # None => servants'[s] # None \/ Held(s)'
    BY <2>1, <2>3, NameFact
  <2> QED
    BY <2>1, <2>3, <2>4, <2>5, SlaveKept
<1>7. ASSUME NEW c \in Calls, CallLocate(c)
      PROVE  SlaveInv'
  BY <1>7, LocateEffect, EnterKeepsSlaves
<1>8. ASSUME NEW c \in Calls, CallAuthorize(c)
      PROVE  SlaveInv'
  BY <1>8, AuthorizeEffect, EnterKeepsSlaves
<1>9. ASSUME NEW c \in Calls, CallAdd(c) \/ CallRemove(c)
      PROVE  SlaveInv'
  <2>1. /\ pc[c] = "upcall" /\ pc' = [pc EXCEPT ![c] = "finish"]
        /\ UNCHANGED <<mpc, holds, destroyed, deployed, factories, unanswered, lost>>
    BY <1>9, AddEffect, RemoveEffect DEF references
  <2>2. \A s \in Services : servants'[s] = servants[s]
    <3>1. CASE CallAdd(c)
      BY <3>1, AddEffect, NameFact DEF TypeOK, LocatorTypeOK
    <3>2. CASE CallRemove(c)
      <4>1. servants' = [servants EXCEPT ![request[c].id] = None] /\ request[c].id \in Calls
        BY <3>2, RemoveEffect
      <4> QED
        BY <4>1, NameFact DEF TypeOK, LocatorTypeOK
    <3> QED
      BY <1>9, <3>1, <3>2
  <2>3. \A s \in Services : Used(s)' => Used(s)
    BY <2>1, UsedByCall
  <2>4. \A s \in Services : /\ IsInitialized(s)' <=> IsInitialized(s)
                            /\ Held(s)' <=> Held(s)
    BY <2>1 DEF IsInitialized, Initialized, Held
  <2> QED
    BY <2>1, <2>2, <2>3, <2>4, SlaveKept
<1> QED
  BY <1>1, <1>2, <1>3, <1>4, <1>5, <1>6, <1>7, <1>8, <1>9, StepCases

-----------------------------------------------------------------------------
(* The theorems. *)

\* What the theorems of this module follow from.
IInv ==
  /\ TypeInv /\ MutexInv /\ NameInv /\ AccessInv /\ DeadInv
  /\ PurgeInv /\ HandlerInv /\ LoopInv /\ PublishInv /\ HoldsInv /\ SlaveInv

LEMMA InitEstablishes == Init => IInv
<1> SUFFICES ASSUME Init
             PROVE  IInv
  OBVIOUS
<1>1. TypeInv
  <2>1. LocatorTypeOK
    BY DEF Init, LocatorInit, LocatorTypeOK
  <2>2. 0 \in 0..Len(Order) /\ 0 \in 0..(MaxLost + 1) /\ MaxLost \in Nat
    BY OrderFact, NameFact
  <2>3. TypeOK
    BY <2>1, <2>2, ThreadFact DEF Init, LocatorInit, TypeOK
  <2>4. IndexInv /\ ListInv
    BY <2>2 DEF Init, IndexInv, ListInv
  <2> QED
    BY <2>3, <2>4 DEF TypeInv
<1>2. MutexInv /\ AccessInv /\ DeadInv
  BY NameFact
     DEF Init, LocatorInit, MutexInv, AccessInv, OnlyAuthorized, DeadInv
<1>3. NameInv /\ PurgeInv
  BY DEF Init, LocatorInit, NameInv, PurgeInv
<1>4. HandlerInv /\ LoopInv /\ PublishInv /\ HoldsInv
  BY ThreadFact DEF Init, LocatorInit, HandlerInv, LoopInv, PublishInv, HoldsInv
<1>5. SlaveInv
  <2>1. Initialized = 0 /\ Created = 0
    BY DEF Init, Initialized, Created
  <2>2. \A s \in Services : ~Used(s) /\ ~IsInitialized(s)
    BY <2>1, NameFact DEF Init, LocatorInit, Used, IsInitialized
  <2> QED
    BY <2>2, NameFact DEF Init, LocatorInit, SlaveInv
<1> QED
  BY <1>1, <1>2, <1>3, <1>4, <1>5 DEF IInv

\* The end of the process leaves a state that Init could have begun with, but for
\* the master's list.
LEMMA TypeKeeps ==
  ASSUME TypeInv, MutexInv, NameInv, AccessInv, [Next]_vars
  PROVE  TypeInv'
<1>1. CASE UNCHANGED vars
  BY <1>1 DEF vars, locator, table, permissions, references, services, handlers, history,
              TypeInv, TypeOK, LocatorTypeOK, IndexInv, ListInv, Alive, Initialized
<1>2. CASE Ended
  <2>1. factories' \in [Slaves -> 0..(MaxLost + 1)] /\ lost' = factories'
    BY <1>2 DEF Ended, TypeInv, TypeOK
  <2>2. TypeOK'
    <3>1. LocatorTypeOK'
      BY <1>2 DEF Ended, LocatorTypeOK
    <3>2. 0 \in 0..Len(Order)
      BY OrderFact
    <3> QED
      BY <1>2, <2>1, <3>1, <3>2, ThreadFact DEF Ended, TypeOK
  <2>3. IndexInv' /\ ListInv'
    BY <1>2, <2>1, NameFact DEF Ended, IndexInv, ListInv, Alive
  <2> QED
    BY <2>2, <2>3 DEF TypeInv
<1> QED
  BY <1>1, <1>2, StepCases, CalmKeepsType, DroppingKeepsType, CreateKeepsType,
     RemoveKeepsType, CallsKeepType

LEMMA StepKeeps == IInv /\ [Next]_vars => IInv'
BY TypeKeeps, MutexKeeps, NameKeeps, AccessKeeps, DestructionKeeps, PurgeKeeps, HandlerKeeps,
   PublishKeeps, HoldsKeeps, SlaveKeeps DEF IInv

\* The invariant holds in every state.
THEOREM Invariance == Spec => []IInv
<1>1. Init => IInv
  BY InitEstablishes
<1>2. IInv /\ [Next]_vars => IInv'
  BY StepKeeps
<1> QED
  BY <1>1, <1>2, PTL DEF Spec

\* The variables have their types: no iterator leaves the list of services, whatever is
\* deployed meanwhile, and no slave is listed twice in one run (stopServices, init).
THEOREM TypeCorrect == Spec => []TypeOK
<1>1. IInv => TypeOK
  BY DEF IInv, TypeInv
<1> QED
  BY <1>1, Invariance, PTL

\* A call in a servant has a key under which a permission was granted, by either of the
\* services, and the name of its user is on the servant's list if there is one; the
\* table stays locked while a service is asked, so that the entry found is the one the
\* list is taken from.  No assumption is made of the keys (locate).
THEOREM CallsAuthorized == Spec => []OnlyAuthorized
<1>1. IInv => OnlyAuthorized
  BY DEF IInv, AccessInv
<1> QED
  BY <1>1, Invariance, PTL

\* A servant is not destroyed while a call is in it, whether the node removes it, it
\* removes itself, or its service is stopped: the call has the reference that locate
\* has given it, which is one to the object in the table (locate, removeServant,
\* removeServantsForService).
THEOREM ReferencesCounted == Spec => []NoCallAfterDestruction
<1>1. IInv => NoCallAfterDestruction
  <2> SUFFICES ASSUME IInv, NEW c \in Calls, pc[c] = "upcall"
               PROVE  request[c].id \notin destroyed
    BY DEF NoCallAfterDestruction
  <2>1. holds[c] = {request[c].id}
    BY DEF IInv, NameInv
  <2> QED
    BY <2>1 DEF IInv, DeadInv, Threads
<1> QED
  BY <1>1, Invariance, PTL

\* Services are stopped in the reverse order, whatever is deployed meanwhile, and
\* however many signals there are (handler, stopServices).
THEOREM ReverseOrder == Spec => []StopsInReverse
<1>1. IInv => StopsInReverse
  BY LoopOrder DEF IInv
<1> QED
  BY <1>1, Invariance, PTL

\* A stopped service has no servant but those added by calls it was still in
\* (removeServantsForService).
THEOREM ServantsRemoved == Spec => []StoppedHasNoServant
<1>1. IInv => StoppedHasNoServant
  BY DEF IInv, PurgeInv, Purged, StoppedHasNoServant
<1> QED
  BY <1>1, Invariance, PTL

\* What is published can be called (startService, stopService).
THEOREM PublishedServed == Spec => []PublishedIsReachable
<1>1. IInv => PublishedIsReachable
  BY DEF IInv, PublishInv, PublishedIsReachable
<1> QED
  BY <1>1, Invariance, PTL

\* A stopped slave is out of the master's list once nobody refers to its servant
\* (~MaximaFactoryI).
THEOREM SlavesUnlisted == Spec => []StoppedIsUnlisted
<1>1. ASSUME IInv, NEW s \in (stopped \cap Slaves) \ unanswered,
             \A t \in Threads : s \notin holds[t]
      PROVE  factories[s] = lost[s]
  <2>1. s \in Services /\ Purged(s) /\ Used(s) /\ ~Held(s)
    BY <1>1, NameFact DEF IInv, PurgeInv, Purged, Held
  <2>2. servants[s] = None
    BY <1>1, <2>1, PurgedIsAbsent DEF IInv
  <2> QED
    BY <1>1, <2>1, <2>2 DEF IInv, SlaveInv
<1>2. IInv => StoppedIsUnlisted
  BY <1>1 DEF StoppedIsUnlisted
<1> QED
  BY <1>2, Invariance, PTL
=============================================================================
