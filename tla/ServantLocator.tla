--------------------------- MODULE ServantLocator ---------------------------
(***************************************************************************)
(* The table of the servants of a node (ServantLocator.cc): which servant  *)
(* a call is given to, and whether the caller has the permission.          *)
(*                                                                         *)
(* A call is a thread of the Ice server.  The table is locked while it is  *)
(* looked at or changed, and while the authorization service, which is     *)
(* remote, is asked.  Servants are counted references: an object is        *)
(* destroyed by the thread that drops the last one, outside of the lock.   *)
(*                                                                         *)
(* Permissions that were granted are cached in one map for both kinds of   *)
(* authorization, under a text that is put together from the name of the   *)
(* client, the password, if there is one, and the identity.  Nothing is    *)
(* assumed of that text: requests may share one.                           *)
(*                                                                         *)
(* What the servants do is left to the modules that extend this one.       *)
(***************************************************************************)
EXTENDS Naturals, FiniteSets

CONSTANTS
  Calls,         \* the calls, each in a thread of its own
  Others,        \* the other threads that change the table
  Services,      \* the services of the node
  Identities,    \* the names servants are registered under, with their facets
  Objects,       \* the servants
  Users,         \* users with their passwords, certificates, or nobody
  Certified,     \* the users known by the certificate of their connection
  Clients,       \* the names of clients
  ClientId,      \* the name of a user: the one it gives, or that in its certificate
  Key(_, _),     \* the text under which the permission of a user for an identity is kept
  PasswordCheck, \* whether there is an authorization service for passwords
  SSLCheck,      \* whether there is one for certificates
  None

\* The timeout and the time of the last access are kept and never looked at.
ServantEntry ==
  [servant : Objects, serviceId : Services, allowedClients : SUBSET Clients]

ASSUME LocatorAssumption ==
  /\ Certified \subseteq Users
  /\ ClientId \in [Users -> Clients]
  /\ PasswordCheck \in BOOLEAN
  /\ SSLCheck \in BOOLEAN
  /\ Calls \cap Others = {}
  /\ None \notin Calls \cup Others \cup Identities \cup Objects \cup Services
  /\ None \notin ServantEntry \cup [id : Identities, user : Users]

VARIABLES
  mutex,              \* the thread that has locked the table, or None
  servants,           \* the table: identity to ServantEntry
  grantedPermissions, \* the keys in the cache
  authorized,         \* history: the keys of the requests the services have granted
  pc,                 \* where a call is
  request,            \* the identity a call is for, and its user
  holds,              \* the objects a thread has references to
  destroyed           \* the objects whose destructor has begun

table == <<mutex, servants>>
permissions == <<grantedPermissions, authorized>>
references == <<holds, destroyed>>

Threads == Calls \cup Others
Keys == {Key(user, id) : user \in Users, id \in Identities}

LocatorTypeOK ==
  /\ mutex \in Calls \cup {None}
  /\ servants \in [Identities -> ServantEntry \cup {None}]
  /\ grantedPermissions \in SUBSET Keys
  /\ authorized \in SUBSET Keys
  /\ request \in [Calls -> [id : Identities, user : Users] \cup {None}]
  /\ holds \in [Threads -> SUBSET Objects]
  /\ destroyed \in SUBSET Objects

LocatorInit ==
  /\ mutex = None
  /\ servants = [id \in Identities |-> None]
  /\ grantedPermissions = {}
  /\ authorized = {}
  /\ pc = [c \in Calls |-> "idle"]
  /\ request = [c \in Calls |-> None]
  /\ holds = [t \in Threads |-> {}]
  /\ destroyed = {}

Goto(c, from, to) == pc[c] = from /\ pc' = [pc EXCEPT ![c] = to]

-----------------------------------------------------------------------------
(* locate *)

\* Whether there is a service to ask about the user of the call.
Asked(user) == IF user \in Certified THEN SSLCheck ELSE PasswordCheck

\* Mutant of AccessGranted: an empty list of clients admits nobody, and a list
\* everybody.
AccessGrantedToUnlisted(user, id, result) ==
  \/ ~PasswordCheck /\ ~SSLCheck
  \/ result /\ ClientId[user] \notin servants[id].allowedClients

\* The end of checkAccessGranted: without any service everybody has access, else
\* the client must be authorized and, if the servant has a list, be on it.
AccessGranted(user, id, result) ==
  \/ ~PasswordCheck /\ ~SSLCheck
  \/ /\ result
     /\ \/ servants[id].allowedClients = {}
        \/ ClientId[user] \in servants[id].allowedClients

\* The end of a call that has not found its servant, that is denied access (by a
\* servant that throws AccessDeniedException), or whose authorization has failed.
Refuse(c) ==
  /\ pc' = [pc EXCEPT ![c] = "done"]
  /\ request' = [request EXCEPT ![c] = None]
  /\ UNCHANGED holds

\* Mutant of Enter: the servant is returned and no reference to it taken.
EnterWithoutReference(c, id, user, result) ==
  IF AccessGranted(user, id, result)
    THEN /\ pc' = [pc EXCEPT ![c] = "upcall"]
         /\ request' = [request EXCEPT ![c] = [id |-> id, user |-> user]]
         /\ UNCHANGED holds
    ELSE Refuse(c)

\* The servant is entered, or the call refused.
Enter(c, id, user, result) ==
  IF AccessGranted(user, id, result)
    THEN /\ pc' = [pc EXCEPT ![c] = "upcall"]
         /\ request' = [request EXCEPT ![c] = [id |-> id, user |-> user]]
         /\ holds' = [holds EXCEPT ![c] = {servants[id].servant}]
    ELSE Refuse(c)

\* A call arrives.  What can be decided without a remote call is: the identity is
\* unknown, there is nobody to ask, or the permission is in the cache.
Locate(c, id, user) ==
  /\ pc[c] = "idle"
  /\ mutex = None
  /\ \/ /\ servants[id] = None
        /\ Refuse(c)
        /\ UNCHANGED mutex
     \/ /\ servants[id] # None
        /\ Asked(user) => Key(user, id) \in grantedPermissions
        /\ Enter(c, id, user, Asked(user))
        /\ UNCHANGED mutex
     \/ /\ servants[id] # None
        /\ Asked(user) /\ Key(user, id) \notin grantedPermissions
        /\ mutex' = c
        /\ pc' = [pc EXCEPT ![c] = "authorize"]
        /\ request' = [request EXCEPT ![c] = [id |-> id, user |-> user]]
        /\ UNCHANGED holds
  /\ UNCHANGED <<servants, permissions, destroyed>>

\* The authorization service answers, or the remote call to it fails.
Authorize(c) ==
  LET id == request[c].id
      user == request[c].user
  IN  /\ pc[c] = "authorize"
      /\ mutex' = None
      /\ \/ /\ Enter(c, id, user, TRUE)
            /\ grantedPermissions' = grantedPermissions \cup {Key(user, id)}
            /\ authorized' = authorized \cup {Key(user, id)}
         \/ /\ Enter(c, id, user, FALSE)
            /\ UNCHANGED permissions
         \/ /\ Refuse(c)
            /\ UNCHANGED permissions
      /\ UNCHANGED <<servants, destroyed>>

-----------------------------------------------------------------------------
(* The table, with the lock taken and given back in the same step. *)

\* AlreadyRegisteredException is thrown when the identity is taken.
addServant(id, entry) ==
  /\ mutex = None
  /\ servants[id] = None
  /\ servants' = [servants EXCEPT ![id] = entry]

AlreadyRegistered(id) == mutex = None /\ servants[id] # None

\* Mutant of removeServant: the result of the search is not checked.
removeServantUnchecked(t, id) ==
  /\ mutex = None
  /\ servants' = [servants EXCEPT ![id] = None]
  /\ holds' = [holds EXCEPT ![t] = @ \cup
                 {IF servants[id] = None THEN None ELSE servants[id].servant}]

\* The reference of the table, if there is one, becomes one of the thread.
removeServant(t, id) ==
  /\ mutex = None
  /\ servants' = [servants EXCEPT ![id] = None]
  /\ holds' = [holds EXCEPT ![t] =
                 @ \cup {servants[i].servant :
                          i \in {j \in Identities : j = id /\ servants[j] # None}}]

OfService(s) == {id \in Identities : servants[id] # None /\ servants[id].serviceId = s}

\* Mutant of removeServantsForService: only the servant of the service itself.
removeServantOfService(t, s) ==
  /\ mutex = None
  /\ servants' = [servants EXCEPT ![s] = None]
  /\ holds' = [holds EXCEPT ![t] = @ \cup {s}]

removeServantsForService(t, s) ==
  /\ mutex = None
  /\ servants' = [id \in Identities |-> IF id \in OfService(s) THEN None ELSE servants[id]]
  /\ holds' = [holds EXCEPT ![t] = @ \cup {servants[id].servant : id \in OfService(s)}]

-----------------------------------------------------------------------------
(* References. *)

InTable(o) == \E id \in Identities : servants[id] # None /\ servants[id].servant = o

\* No other reference to the object is left.
LastReference(t, o) ==
  /\ o \in holds[t]
  /\ ~InTable(o)
  /\ \A u \in Threads \ {t} : o \notin holds[u]

\* A reference that is not the last one is dropped ...
Drop(t, o) ==
  /\ o \in holds[t]
  /\ ~LastReference(t, o)
  /\ holds' = [holds EXCEPT ![t] = @ \ {o}]
  /\ UNCHANGED destroyed

\* ... or the last one, and the destructor runs.
Destruct(t, o) ==
  /\ LastReference(t, o)
  /\ holds' = [holds EXCEPT ![t] = @ \ {o}]
  /\ destroyed' = destroyed \cup {o}
=============================================================================
