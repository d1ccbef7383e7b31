------------------------- MODULE MaximaFactory_proofs -------------------------
(***************************************************************************)
(* Theorems about MaximaFactory, for any number of calls and resources.    *)
(***************************************************************************)
EXTENDS MaximaFactory, TLAPS

\* A resource is registered or some call has a reference to it.
Referenced(o) == InTable(o) \/ \E c \in Calls : o \in holds[c]

\* A call has no reference before and after, and just one while it is in a resource.
HoldsInv ==
  \A c \in Calls :
    /\ pc[c] \in {"idle", "done"} => holds[c] = {}
    /\ pc[c] \in {"upcall", "execute", "relaunch", "signal"} =>
         \A o, p \in holds[c] : o = p

\* A resource that has not been launched is nowhere.
UnbornInv ==
  /\ \A o \in Calls : launched[o] = 0 => maxima[o] = 0 /\ ~Referenced(o)
  /\ \A c \in Calls :
       /\ pc[c] \in {"idle", "upcall", "write", "make", "launch"} => launched[c] = 0
       /\ pc[c] \in {"write", "make", "launch", "add"} => name[c] # None
       /\ pc[c] = "add" => c \in holds[c]
       /\ launched[c] # 0 => name[c] # None

\* The lock is that of the call that executes or restarts.
LockInv ==
  \A c, o \in Calls :
    lock[o] = c <=> pc[c] \in {"execute", "relaunch"} /\ o \in holds[c]

\* There is an instance under every command, and none while one is launched.
InstanceInv ==
  \A c, o \in Calls :
    o \in holds[c] => /\ pc[c] = "execute" => maxima[o] # 0
                      /\ pc[c] = "relaunch" => maxima[o] = 0

\* The processes are those of the instances, which are those of resources that are
\* referenced.
ProcessInv ==
  /\ \A p \in running : p[2] = maxima[p[1]] /\ p[2] # 0
  /\ \A o \in Calls : maxima[o] # 0 => <<o, maxima[o]>> \in running /\ Referenced(o)

\* As long as all restarts go well and no interrupt meets one, every resource that is
\* not locked for a restart has an instance, the one that an interrupt has found.
ProtectedInv ==
  /\ crashed => unprotected
  /\ ~unprotected =>
       /\ \A o \in Calls :
            launched[o] # 0 /\ Referenced(o) /\ (\A d \in Calls : lock[o] = d => pc[d] # "relaunch")
              => maxima[o] # 0
       /\ \A c, o \in Calls :
            pc[c] = "signal" /\ o \in holds[c] => pointer[c] = maxima[o] /\ pointer[c] # 0

\* As long as no two calls are between the two halves of _maximaCount++, names differ,
\* and the directories of the resources there are.
DirectoryInv ==
  ~overlapped =>
    /\ \A c, d \in Calls : pc[c] = "write" /\ pc[d] = "write" => c = d
    /\ \A c \in Calls : name[c] # None =>
         IF pc[c] = "write" THEN name[c] = count ELSE name[c] < count
    /\ \A c, d \in Calls : c # d /\ name[c] # None => name[c] # name[d]
    /\ \A o \in Calls : Referenced(o) \/ pc[o] = "launch" => name[o] \in dirs

IInv ==
  /\ TypeOK
  /\ HoldsInv
  /\ UnbornInv
  /\ LockInv
  /\ InstanceInv
  /\ ProcessInv
  /\ ProtectedInv
  /\ DirectoryInv
-----------------------------------------------------------------------------
(* References. *)

\* The constants as the proofs use them.
LEMMA Constants ==
  /\ Threads = Calls
  /\ Calls \subseteq Objects /\ Objects = {Factory} \cup Calls /\ Factory \notin Calls
  /\ None \notin Calls /\ None \notin ServantEntry /\ None \notin Nat
  /\ Factory \in Identities /\ Services = {Factory}
  /\ ~PasswordCheck /\ ~SSLCheck
  /\ Launches \subseteq Calls
BY LocatorAssumption, FactoryAssumption DEF Threads

\* An object that can be looked up is in the table.
LEMMA EntryInTable ==
  ASSUME TypeOK, NEW id \in Identities, servants[id] # None
  PROVE  /\ servants[id] \in ServantEntry
         /\ servants[id].servant \in Objects
         /\ InTable(servants[id].servant)
BY DEF TypeOK, LocatorTypeOK, ServantEntry, InTable

\* Types of what most steps leave alone.
LEMMA LocateStep ==
  ASSUME TypeOK, NEW c \in Calls, Arrive(c)
  PROVE  /\ \/ /\ pc' = [pc EXCEPT ![c] = "done"]
               /\ holds' = holds
               /\ request' = [request EXCEPT ![c] = None]
            \/ /\ pc' = [pc EXCEPT ![c] = "upcall"]
               /\ \E o \in Objects : InTable(o) /\ holds' = [holds EXCEPT ![c] = {o}]
               /\ \E id \in Identities, user \in Users :
                    request' = [request EXCEPT ![c] = [id |-> id, user |-> user]]
         /\ pc[c] = "idle"
         /\ UNCHANGED <<mutex, servants, permissions, destroyed, factory, dirs, resource,
                        threads, crashed, history>>
<1>1. PICK id \in Identities, user \in Users : Locate(c, id, user)
  BY DEF Arrive
<1>2. ~Asked(user)
  BY Constants DEF Asked
<1>3. UNCHANGED <<servants, permissions, destroyed, factory, dirs, resource, threads,
                  crashed, history>> /\ pc[c] = "idle"
  BY <1>1 DEF Arrive, Locate
<1>4. CASE servants[id] = None
  BY <1>1, <1>3, <1>4 DEF Locate, Refuse
<1>5. CASE servants[id] # None
  <2>1. Enter(c, id, user, Asked(user)) /\ mutex' = mutex
    BY <1>1, <1>2, <1>5 DEF Locate
  <2>2. AccessGranted(user, id, Asked(user))
    BY Constants DEF AccessGranted
  <2> QED
    BY <1>3, <1>5, <2>1, <2>2, EntryInTable DEF Enter
<1> QED
  BY <1>4, <1>5
-----------------------------------------------------------------------------
(* Every step preserves the invariant. *)

LEMMA ArriveKeeps ==
  ASSUME IInv, NEW c \in Calls, Arrive(c)
  PROVE  IInv'
<1> USE DEF IInv
<1>1. /\ \/ /\ pc' = [pc EXCEPT ![c] = "done"]
            /\ holds' = holds
         \/ /\ pc' = [pc EXCEPT ![c] = "upcall"]
            /\ \E o \in Objects : InTable(o) /\ holds' = [holds EXCEPT ![c] = {o}]
      /\ pc[c] = "idle"
      /\ UNCHANGED <<mutex, servants, permissions, destroyed, factory, dirs, resource,
                     threads, crashed, history>>
  BY LocateStep
<1>2. TypeOK'
  <2>1. request' \in [Calls -> [id : Identities, user : Users] \cup {None}]
    BY LocateStep DEF TypeOK, LocatorTypeOK
  <2>2. holds' \in [Threads -> SUBSET Objects]
    BY <1>1, Constants DEF TypeOK, LocatorTypeOK
  <2>3. pc' \in [Calls -> Stages]
    BY <1>1 DEF TypeOK, Stages
  <2> QED
    BY <1>1, <2>1, <2>2, <2>3
       DEF TypeOK, LocatorTypeOK, permissions, factory, resource, threads, history
<1>3. holds[c] = {} /\ holds \in [Calls -> SUBSET Objects]
  BY <1>1, Constants DEF HoldsInv, TypeOK, LocatorTypeOK
<1>4. \A o \in Objects : InTable(o)' <=> InTable(o)
  BY <1>1 DEF InTable
<1>5. \A o \in Calls : Referenced(o)' <=> Referenced(o)
  BY <1>1, <1>3, <1>4, Constants DEF Referenced
<1>6. pc \in [Calls -> Stages] /\ pc' \in [Calls -> Stages]
  BY <1>2 DEF TypeOK
<1>7. HoldsInv'
  BY <1>1, <1>3, <1>6 DEF HoldsInv
<1>8. UnbornInv'
  BY <1>1, <1>3, <1>5, <1>6 DEF UnbornInv, factory, resource
<1>9. LockInv'
  BY <1>1, <1>3, <1>6 DEF LockInv, resource
<1>10. InstanceInv'
  BY <1>1, <1>3, <1>6 DEF InstanceInv, resource
<1>11. ProcessInv'
  BY <1>1, <1>5 DEF ProcessInv, resource
<1>12. ProtectedInv'
  BY <1>1, <1>3, <1>5, <1>6 DEF ProtectedInv, resource, threads, history
<1>13. DirectoryInv'
  BY <1>1, <1>5, <1>6 DEF DirectoryInv, factory, history
<1> QED
  BY <1>2, <1>7, <1>8, <1>9, <1>10, <1>11, <1>12, <1>13

\* The table and what belongs to it keep their types when they are left alone.
LEMMA LocatorKept ==
  ASSUME LocatorTypeOK, UNCHANGED locator
  PROVE  LocatorTypeOK'
BY DEF LocatorTypeOK, locator, table, permissions, references

LEMMA ReadCountKeeps ==
  ASSUME IInv, NEW c \in Calls, ReadCount(c)
  PROVE  IInv'
<1> USE Constants DEF IInv
<1>1. pc \in [Calls -> Stages] /\ pc' \in [Calls -> Stages]
  BY DEF TypeOK, Stages, ReadCount, Step, Goto
<1>2. LocatorTypeOK'
  BY LocatorKept DEF TypeOK, ReadCount
<1>3. TypeOK'
  BY <1>1, <1>2 DEF TypeOK, ReadCount, Step, Goto, locator, table, references, factory, resource, threads, history
<1>4. UNCHANGED <<servants, holds>>
  BY DEF ReadCount, locator, table, references
<1>5. \A p \in Calls : Referenced(p)' <=> Referenced(p)
  BY <1>4 DEF Referenced, InTable
<1>6. HoldsInv'
  BY <1>1, <1>4 DEF HoldsInv, ReadCount, Step, Goto
<1>7. UnbornInv'
  BY <1>1, <1>4, <1>5 DEF UnbornInv, TypeOK, ReadCount, Step, Goto, locator, table, references, factory, resource, threads, history
<1>8. LockInv'
  BY <1>1, <1>4 DEF LockInv, HoldsInv, TypeOK, ReadCount, Step, Goto, locator, table, references, factory, resource, threads, history
<1>9. InstanceInv'
  BY <1>1, <1>4 DEF InstanceInv, LockInv, HoldsInv, TypeOK, ReadCount, Step, Goto, locator, table, references, factory, resource, threads, history
<1>10. ProcessInv'
  BY <1>1, <1>5 DEF ProcessInv, TypeOK, ReadCount, Step, Goto, locator, table, references, factory, resource, threads, history
<1>11. ProtectedInv'
  BY <1>1, <1>4, <1>5 DEF ProtectedInv, UnbornInv, LockInv, HoldsInv, TypeOK, ReadCount, Step, Goto, locator, table, references, factory, resource, threads, history
<1>12. DirectoryInv'
  <2> SUFFICES ASSUME ~overlapped'
               PROVE  DirectoryInv'
    BY DEF DirectoryInv
  <2>1. /\ ~overlapped /\ count \in Nat /\ launched[c] = 0 /\ ~Referenced(c)
        /\ \A d \in Calls : pc[d] # "write"
        /\ name' = [name EXCEPT ![c] = count] /\ pc' = [pc EXCEPT ![c] = "write"]
        /\ UNCHANGED <<count, dirs>>
    BY DEF ReadCount, Step, Goto, TypeOK, UnbornInv
  <2>2. \A d \in Calls : name[d] # None => name[d] < count /\ name[d] # count
    BY <2>1 DEF DirectoryInv, TypeOK
  <2>3. \A d \in Calls \ {c} : name'[d] = name[d] /\ (pc'[d] = pc[d])
    BY <1>1, <2>1 DEF TypeOK
  <2>4. name'[c] = count /\ pc'[c] = "write" /\ count # None
    BY <1>1, <2>1 DEF TypeOK
  <2>5. \A d, e \in Calls : pc'[d] = "write" /\ pc'[e] = "write" => d = e
    BY <2>1, <2>3
  <2>6. \A d \in Calls : name'[d] # None =>
          IF pc'[d] = "write" THEN name'[d] = count' ELSE name'[d] < count'
    BY <2>1, <2>2, <2>3, <2>4
  <2>7. \A d, e \in Calls : d # e /\ name'[d] # None => name'[d] # name'[e]
    BY <2>1, <2>2, <2>3, <2>4 DEF DirectoryInv
  <2>8. \A p \in Calls : Referenced(p)' \/ pc'[p] = "launch" => name'[p] \in dirs'
    BY <1>5, <2>1, <2>3, <2>4 DEF DirectoryInv
  <2> QED
    BY <2>5, <2>6, <2>7, <2>8 DEF DirectoryInv
<1> QED
  BY <1>3, <1>6, <1>7, <1>8, <1>9, <1>10, <1>11, <1>12

LEMMA WriteCountKeeps ==
  ASSUME IInv, NEW c \in Calls, WriteCount(c)
  PROVE  IInv'
<1> USE Constants DEF IInv
<1>1. pc \in [Calls -> Stages] /\ pc' \in [Calls -> Stages]
  BY DEF TypeOK, Stages, WriteCount, Step, Goto
<1>2. LocatorTypeOK'
  BY LocatorKept DEF TypeOK, WriteCount
<1>3. TypeOK'
  BY <1>1, <1>2 DEF TypeOK, UnbornInv, WriteCount, Step, Goto, locator, table, references, factory, resource, threads, history
<1>4. UNCHANGED <<servants, holds>>
  BY DEF WriteCount, locator, table, references
<1>5. \A p \in Calls : Referenced(p)' <=> Referenced(p)
  BY <1>4 DEF Referenced, InTable
<1>6. HoldsInv'
  BY <1>1, <1>4 DEF HoldsInv, WriteCount, Step, Goto
<1>7. UnbornInv'
  BY <1>1, <1>4, <1>5 DEF UnbornInv, TypeOK, WriteCount, Step, Goto, locator, table, references, factory, resource, threads, history
<1>8. LockInv'
  BY <1>1, <1>4 DEF LockInv, HoldsInv, TypeOK, WriteCount, Step, Goto, locator, table, references, factory, resource, threads, history
<1>9. InstanceInv'
  BY <1>1, <1>4 DEF InstanceInv, LockInv, HoldsInv, TypeOK, WriteCount, Step, Goto, locator, table, references, factory, resource, threads, history
<1>10. ProcessInv'
  BY <1>1, <1>5 DEF ProcessInv, TypeOK, WriteCount, Step, Goto, locator, table, references, factory, resource, threads, history
<1>11. ProtectedInv'
  BY <1>1, <1>4, <1>5 DEF ProtectedInv, UnbornInv, LockInv, HoldsInv, TypeOK, WriteCount, Step, Goto, locator, table, references, factory, resource, threads, history
<1>12. DirectoryInv'
  BY <1>1, <1>5 DEF DirectoryInv, UnbornInv, TypeOK, WriteCount, Step, Goto, locator, table, references, factory, resource, threads, history
<1> QED
  BY <1>3, <1>6, <1>7, <1>8, <1>9, <1>10, <1>11, <1>12

LEMMA MakeDirectoryKeeps ==
  ASSUME IInv, NEW c \in Calls, MakeDirectory(c)
  PROVE  IInv'
<1> USE Constants DEF IInv
<1>1. pc \in [Calls -> Stages] /\ pc' \in [Calls -> Stages]
  BY DEF TypeOK, Stages, MakeDirectory, Step, Goto
<1>2. LocatorTypeOK'
  BY LocatorKept DEF TypeOK, MakeDirectory
<1>3. TypeOK'
  BY <1>1, <1>2 DEF TypeOK, UnbornInv, MakeDirectory, Step, Goto, locator, table, references, factory, resource, threads, history
<1>4. UNCHANGED <<servants, holds>>
  BY DEF MakeDirectory, locator, table, references
<1>5. \A p \in Calls : Referenced(p)' <=> Referenced(p)
  BY <1>4 DEF Referenced, InTable
<1>6. HoldsInv'
  BY <1>1, <1>4 DEF HoldsInv, MakeDirectory, Step, Goto
<1>7. UnbornInv'
  BY <1>1, <1>4, <1>5 DEF UnbornInv, TypeOK, MakeDirectory, Step, Goto, locator, table, references, factory, resource, threads, history
<1>8. LockInv'
  BY <1>1, <1>4 DEF LockInv, HoldsInv, TypeOK, MakeDirectory, Step, Goto, locator, table, references, factory, resource, threads, history
<1>9. InstanceInv'
  BY <1>1, <1>4 DEF InstanceInv, LockInv, HoldsInv, TypeOK, MakeDirectory, Step, Goto, locator, table, references, factory, resource, threads, history
<1>10. ProcessInv'
  BY <1>1, <1>5 DEF ProcessInv, TypeOK, MakeDirectory, Step, Goto, locator, table, references, factory, resource, threads, history
<1>11. ProtectedInv'
  BY <1>1, <1>4, <1>5 DEF ProtectedInv, UnbornInv, LockInv, HoldsInv, TypeOK, MakeDirectory, Step, Goto, locator, table, references, factory, resource, threads, history
<1>12. DirectoryInv'
  BY <1>1, <1>5 DEF DirectoryInv, UnbornInv, TypeOK, MakeDirectory, Step, Goto, locator, table, references, factory, resource, threads, history
<1> QED
  BY <1>3, <1>6, <1>7, <1>8, <1>9, <1>10, <1>11, <1>12

LEMMA BeginExecuteKeeps ==
  ASSUME IInv, NEW c \in Calls, NEW o \in Calls, BeginExecute(c, o)
  PROVE  IInv'
<1> USE Constants DEF IInv
<1>1. pc \in [Calls -> Stages] /\ pc' \in [Calls -> Stages]
  BY DEF TypeOK, Stages, BeginExecute, Crash, Step, Goto
<1>2. LocatorTypeOK'
  BY LocatorKept DEF TypeOK, BeginExecute, Crash
<1>3. TypeOK'
  <2>1. CASE maxima[o] = 0
    BY <1>1, <1>2, <2>1 DEF TypeOK, BeginExecute, Crash, factory, resource, threads, history
  <2>2. CASE maxima[o] # 0
    <3>1. lock' \in [Calls -> Calls \cup {None}]
      BY <2>2 DEF TypeOK, BeginExecute
    <3>2. UNCHANGED <<count, name, dirs, maxima, launched, running, pointer, interrupted,
                      crashed, overlapped, unprotected>>
      BY <2>2 DEF BeginExecute, factory, threads, history
    <3> QED
      BY <1>1, <1>2, <3>1, <3>2 DEF TypeOK
  <2> QED
    BY <2>1, <2>2
<1>4. UNCHANGED <<servants, holds>>
  BY DEF BeginExecute, Crash, locator, table, references
<1>5. \A p \in Calls : Referenced(p)' <=> Referenced(p)
  BY <1>4 DEF Referenced, InTable
<1>6. HoldsInv'
  BY <1>1, <1>4 DEF HoldsInv, BeginExecute, Crash, Step, Goto
<1>7. UnbornInv'
  BY <1>1, <1>4, <1>5 DEF UnbornInv, TypeOK, BeginExecute, Crash, Step, Goto, locator, table, references, factory, resource, threads, history
<1>8. LockInv'
  BY <1>1, <1>4 DEF LockInv, HoldsInv, TypeOK, BeginExecute, Crash, Step, Goto, locator, table, references, factory, resource, threads, history
<1>9. InstanceInv'
  BY <1>1, <1>4 DEF InstanceInv, LockInv, HoldsInv, TypeOK, BeginExecute, Crash, Step, Goto, locator, table, references, factory, resource, threads, history
<1>10. ProcessInv'
  BY <1>1, <1>5 DEF ProcessInv, TypeOK, BeginExecute, Crash, Step, Goto, locator, table, references, factory, resource, threads, history
<1>11. ProtectedInv'
  <2>1. /\ o \in holds[c] /\ lock[o] = None /\ pc[c] = "upcall"
        /\ UNCHANGED <<maxima, launched, pointer, unprotected>>
    BY DEF BeginExecute, Crash, Step, Goto, resource, threads, history
  <2>2. launched[o] # 0 /\ Referenced(o)
    BY <2>1 DEF UnbornInv, Referenced
  <2>3. maxima[o] = 0 => unprotected
    BY <2>1, <2>2 DEF ProtectedInv
  <2>4. crashed' => crashed \/ maxima[o] = 0
    BY DEF BeginExecute, Step
  <2>5. \A p, d \in Calls : lock[p] = d => lock'[p] = d /\ (pc'[d] = pc[d])
    BY <1>1, <2>1 DEF BeginExecute, Crash, Step, Goto, resource, LockInv, TypeOK
  <2>6. \A d \in Calls : pc'[d] = "signal" => pc[d] = "signal"
    BY <1>1, <2>1 DEF BeginExecute, Crash, Step, Goto
  <2>7. unprotected \/ \A p \in Calls : launched[p] # 0 /\ Referenced(p) /\ maxima[p] = 0 =>
          \E d \in Calls : lock[p] = d /\ pc[d] = "relaunch"
    BY DEF ProtectedInv
  <2>8. crashed' => unprotected'
    BY <2>1, <2>3, <2>4 DEF ProtectedInv
  <2> QED
    BY <1>4, <1>5, <2>1, <2>5, <2>6, <2>7, <2>8 DEF ProtectedInv
<1>12. DirectoryInv'
  BY <1>1, <1>5 DEF DirectoryInv, UnbornInv, TypeOK, BeginExecute, Crash, Step, Goto, locator, table, references, factory, resource, threads, history
<1> QED
  BY <1>3, <1>6, <1>7, <1>8, <1>9, <1>10, <1>11, <1>12

LEMMA EndExecuteKeeps ==
  ASSUME IInv, NEW c \in Calls, NEW o \in Calls, EndExecute(c, o)
  PROVE  IInv'
<1> USE Constants DEF IInv
<1>1. pc \in [Calls -> Stages] /\ pc' \in [Calls -> Stages]
  BY DEF TypeOK, Stages, EndExecute, Step, Goto
<1>2. LocatorTypeOK'
  BY LocatorKept DEF TypeOK, EndExecute
<1>3. TypeOK'
  BY <1>1, <1>2 DEF TypeOK, EndExecute, Step, Goto, locator, table, references, factory, resource, threads, history
<1>4. UNCHANGED <<servants, holds>>
  BY DEF EndExecute, locator, table, references
<1>5. \A p \in Calls : Referenced(p)' <=> Referenced(p)
  BY <1>4 DEF Referenced, InTable
<1>6. HoldsInv'
  BY <1>1, <1>4 DEF HoldsInv, EndExecute, Step, Goto
<1>7. UnbornInv'
  BY <1>1, <1>4, <1>5 DEF UnbornInv, TypeOK, EndExecute, Step, Goto, locator, table, references, factory, resource, threads, history
<1>8. LockInv'
  BY <1>1, <1>4 DEF LockInv, HoldsInv, TypeOK, EndExecute, Step, Goto, locator, table, references, factory, resource, threads, history
<1>9. InstanceInv'
  BY <1>1, <1>4 DEF InstanceInv, LockInv, HoldsInv, TypeOK, EndExecute, Step, Goto, locator, table, references, factory, resource, threads, history
<1>10. ProcessInv'
  BY <1>1, <1>5 DEF ProcessInv, TypeOK, EndExecute, Step, Goto, locator, table, references, factory, resource, threads, history
<1>11. ProtectedInv'
  BY <1>1, <1>4, <1>5 DEF ProtectedInv, UnbornInv, LockInv, HoldsInv, TypeOK, EndExecute, Step, Goto, locator, table, references, factory, resource, threads, history
<1>12. DirectoryInv'
  BY <1>1, <1>5 DEF DirectoryInv, UnbornInv, TypeOK, EndExecute, Step, Goto, locator, table, references, factory, resource, threads, history
<1> QED
  BY <1>3, <1>6, <1>7, <1>8, <1>9, <1>10, <1>11, <1>12

LEMMA ReadPointerKeeps ==
  ASSUME IInv, NEW c \in Calls, NEW o \in Calls, ReadPointer(c, o)
  PROVE  IInv'
<1> USE Constants DEF IInv
<1>1. pc \in [Calls -> Stages] /\ pc' \in [Calls -> Stages]
  BY DEF TypeOK, Stages, ReadPointer, Step, Goto
<1>2. LocatorTypeOK'
  BY LocatorKept DEF TypeOK, ReadPointer
<1>3. TypeOK'
  BY <1>1, <1>2 DEF TypeOK, ReadPointer, Step, Goto, locator, table, references, factory, resource, threads, history
<1>4. UNCHANGED <<servants, holds>>
  BY DEF ReadPointer, locator, table, references
<1>5. \A p \in Calls : Referenced(p)' <=> Referenced(p)
  BY <1>4 DEF Referenced, InTable
<1>6. HoldsInv'
  BY <1>1, <1>4 DEF HoldsInv, ReadPointer, Step, Goto
<1>7. UnbornInv'
  BY <1>1, <1>4, <1>5 DEF UnbornInv, TypeOK, ReadPointer, Step, Goto, locator, table, references, factory, resource, threads, history
<1>8. LockInv'
  BY <1>1, <1>4 DEF LockInv, HoldsInv, TypeOK, ReadPointer, Step, Goto, locator, table, references, factory, resource, threads, history
<1>9. InstanceInv'
  BY <1>1, <1>4 DEF InstanceInv, LockInv, HoldsInv, TypeOK, ReadPointer, Step, Goto, locator, table, references, factory, resource, threads, history
<1>10. ProcessInv'
  BY <1>1, <1>5 DEF ProcessInv, TypeOK, ReadPointer, Step, Goto, locator, table, references, factory, resource, threads, history
<1>11. ProtectedInv'
  <2>1. /\ o \in holds[c] /\ pc' = [pc EXCEPT ![c] = "signal"] /\ pc[c] = "upcall"
        /\ pointer' = [pointer EXCEPT ![c] = maxima[o]]
        /\ UNCHANGED <<maxima, launched, lock, crashed>>
    BY DEF ReadPointer, Step, Goto, resource
  <2>2. launched[o] # 0 /\ Referenced(o)
    BY <2>1 DEF UnbornInv, Referenced
  <2> SUFFICES ASSUME ~unprotected'
               PROVE  ProtectedInv'
    BY <2>1 DEF ProtectedInv
  <2>3. ~unprotected /\ ~\E d \in Calls : pc[d] = "relaunch" /\ lock[o] = d
    BY DEF ReadPointer
  <2>4. maxima[o] # 0
    BY <2>2, <2>3 DEF ProtectedInv
  <2>5. \A p \in holds[c] : p = o
    BY <2>1 DEF HoldsInv
  <2>6. \A p \in Calls : launched'[p] # 0 /\ Referenced(p)'
           /\ (\A d \in Calls : lock'[p] = d => pc'[d] # "relaunch") => maxima'[p] # 0
    BY <1>1, <1>5, <2>1, <2>3 DEF ProtectedInv
  <2>7. \A d, p \in Calls : pc'[d] = "signal" /\ p \in holds'[d] =>
           pointer'[d] = maxima'[p] /\ pointer'[d] # 0
    BY <1>1, <1>4, <2>1, <2>3, <2>4, <2>5 DEF ProtectedInv, TypeOK
  <2> QED
    BY <2>1, <2>3, <2>6, <2>7 DEF ProtectedInv
<1>12. DirectoryInv'
  BY <1>1, <1>5 DEF DirectoryInv, UnbornInv, TypeOK, ReadPointer, Step, Goto, locator, table, references, factory, resource, threads, history
<1> QED
  BY <1>3, <1>6, <1>7, <1>8, <1>9, <1>10, <1>11, <1>12

LEMMA InterruptKeeps ==
  ASSUME IInv, NEW c \in Calls, NEW o \in Calls, Interrupt(c, o)
  PROVE  IInv'
<1> USE Constants DEF IInv
<1>1. pc \in [Calls -> Stages] /\ pc' \in [Calls -> Stages]
  BY DEF TypeOK, Stages, Interrupt, Crash, Step, Goto
<1>2. LocatorTypeOK'
  BY LocatorKept DEF TypeOK, Interrupt, Crash
<1>3. TypeOK'
  BY <1>1, <1>2 DEF TypeOK, Interrupt, Crash, Step, Goto, locator, table, references, factory, resource, threads, history
<1>4. UNCHANGED <<servants, holds>>
  BY DEF Interrupt, Crash, locator, table, references
<1>5. \A p \in Calls : Referenced(p)' <=> Referenced(p)
  BY <1>4 DEF Referenced, InTable
<1>6. HoldsInv'
  BY <1>1, <1>4 DEF HoldsInv, Interrupt, Crash, Step, Goto
<1>7. UnbornInv'
  BY <1>1, <1>4, <1>5 DEF UnbornInv, TypeOK, Interrupt, Crash, Step, Goto, locator, table, references, factory, resource, threads, history
<1>8. LockInv'
  BY <1>1, <1>4 DEF LockInv, HoldsInv, TypeOK, Interrupt, Crash, Step, Goto, locator, table, references, factory, resource, threads, history
<1>9. InstanceInv'
  BY <1>1, <1>4 DEF InstanceInv, LockInv, HoldsInv, TypeOK, Interrupt, Crash, Step, Goto, locator, table, references, factory, resource, threads, history
<1>10. ProcessInv'
  BY <1>1, <1>5 DEF ProcessInv, TypeOK, Interrupt, Crash, Step, Goto, locator, table, references, factory, resource, threads, history
<1>11. ProtectedInv'
  BY <1>1, <1>4, <1>5 DEF ProtectedInv, UnbornInv, LockInv, HoldsInv, TypeOK, Interrupt, Crash, Step, Goto, locator, table, references, factory, resource, threads, history
<1>12. DirectoryInv'
  BY <1>1, <1>5 DEF DirectoryInv, UnbornInv, TypeOK, Interrupt, Crash, Step, Goto, locator, table, references, factory, resource, threads, history
<1> QED
  BY <1>3, <1>6, <1>7, <1>8, <1>9, <1>10, <1>11, <1>12

LEMMA BeginRestartKeeps ==
  ASSUME IInv, NEW c \in Calls, NEW o \in Calls, BeginRestart(c, o)
  PROVE  IInv'
<1> USE Constants DEF IInv
<1>1. pc \in [Calls -> Stages] /\ pc' \in [Calls -> Stages]
  BY DEF TypeOK, Stages, BeginRestart, Step, Goto
<1>2. LocatorTypeOK'
  BY LocatorKept DEF TypeOK, BeginRestart
<1>3. TypeOK'
  BY <1>1, <1>2 DEF TypeOK, BeginRestart, Step, Goto, locator, table, references, factory, resource, threads, history
<1>4. UNCHANGED <<servants, holds>>
  BY DEF BeginRestart, locator, table, references
<1>5. \A p \in Calls : Referenced(p)' <=> Referenced(p)
  BY <1>4 DEF Referenced, InTable
<1>6. HoldsInv'
  BY <1>1, <1>4 DEF HoldsInv, BeginRestart, Step, Goto
<1>7. UnbornInv'
  BY <1>1, <1>4, <1>5 DEF UnbornInv, TypeOK, BeginRestart, Step, Goto, locator, table, references, factory, resource, threads, history
<1>8. LockInv'
  BY <1>1, <1>4 DEF LockInv, HoldsInv, TypeOK, BeginRestart, Step, Goto, locator, table, references, factory, resource, threads, history
<1>9. InstanceInv'
  BY <1>1, <1>4 DEF InstanceInv, LockInv, HoldsInv, TypeOK, BeginRestart, Step, Goto, locator, table, references, factory, resource, threads, history
<1>10. ProcessInv'
  BY <1>1, <1>5 DEF ProcessInv, TypeOK, BeginRestart, Step, Goto, locator, table, references, factory, resource, threads, history
<1>11. ProtectedInv'
  <2>1. /\ o \in holds[c] /\ lock[o] = None
        /\ pc' = [pc EXCEPT ![c] = "relaunch"] /\ pc[c] = "upcall"
        /\ lock' = [lock EXCEPT ![o] = c] /\ maxima' = [maxima EXCEPT ![o] = 0]
        /\ UNCHANGED <<launched, pointer, crashed>>
    BY DEF BeginRestart, Step, Goto, threads
  <2> SUFFICES ASSUME ~unprotected'
               PROVE  ProtectedInv'
    BY <2>1 DEF ProtectedInv, BeginRestart
  <2>2. ~unprotected /\ ~\E d \in Calls : pc[d] = "signal" /\ o \in holds[d]
    BY DEF BeginRestart
  <2>3. lock'[o] = c /\ pc'[c] = "relaunch"
    BY <1>1, <2>1 DEF TypeOK
  <2>4. \A p \in Calls \ {o} : lock'[p] = lock[p] /\ maxima'[p] = maxima[p]
    BY <2>1 DEF TypeOK
  <2>5. \A p \in Calls : lock[p] # c
    BY <2>1 DEF LockInv
  <2>6. \A p \in Calls : launched'[p] # 0 /\ Referenced(p)'
           /\ (\A d \in Calls : lock'[p] = d => pc'[d] # "relaunch") => maxima'[p] # 0
    BY <1>1, <1>5, <2>1, <2>2, <2>3, <2>4, <2>5 DEF ProtectedInv
  <2>7. \A d, p \in Calls : pc'[d] = "signal" /\ p \in holds'[d] =>
           pointer'[d] = maxima'[p] /\ pointer'[d] # 0
    BY <1>1, <1>4, <2>1, <2>2, <2>4 DEF ProtectedInv
  <2> QED
    BY <2>1, <2>2, <2>6, <2>7 DEF ProtectedInv
<1>12. DirectoryInv'
  BY <1>1, <1>5 DEF DirectoryInv, UnbornInv, TypeOK, BeginRestart, Step, Goto, locator, table, references, factory, resource, threads, history
<1> QED
  BY <1>3, <1>6, <1>7, <1>8, <1>9, <1>10, <1>11, <1>12

LEMMA RelaunchKeeps ==
  ASSUME IInv, NEW c \in Calls, NEW o \in Calls, Relaunch(c, o)
  PROVE  IInv'
<1> USE Constants DEF IInv
<1>1. pc \in [Calls -> Stages] /\ pc' \in [Calls -> Stages]
  BY DEF TypeOK, Stages, Relaunch, Step, Goto
<1>2. LocatorTypeOK'
  BY LocatorKept DEF TypeOK, Relaunch
<1>3. /\ pc[c] = "relaunch" /\ pc' = [pc EXCEPT ![c] = "finish"]
      /\ lock[o] = c /\ lock' = [lock EXCEPT ![o] = None]
      /\ UNCHANGED <<servants, holds, count, name, dirs, pointer, interrupted, crashed,
                     overlapped>>
  BY DEF Relaunch, Step, Goto, locator, table, references, factory, threads
<1>4. o \in holds[c] /\ maxima[o] = 0 /\ launched[o] # 0 /\ Referenced(o)
  BY <1>3 DEF LockInv, InstanceInv, UnbornInv, Referenced
<1>5. \/ /\ launched' = [launched EXCEPT ![o] = @ + 1]
         /\ maxima' = [maxima EXCEPT ![o] = launched[o] + 1]
         /\ running' = running \cup {<<o, launched[o] + 1>>}
         /\ unprotected' = unprotected
      \/ unprotected' = TRUE /\ UNCHANGED <<launched, maxima, running>>
  BY DEF Relaunch
<1>6. launched[o] \in Nat /\ launched[o] + 1 \in Nat /\ launched[o] + 1 # 0
  BY DEF TypeOK
<1>7. /\ launched' \in [Calls -> Nat] /\ maxima' \in [Calls -> Nat]
      /\ \A p \in Calls \ {o} : launched'[p] = launched[p] /\ maxima'[p] = maxima[p]
      /\ launched'[o] # 0 /\ (unprotected' \/ maxima'[o] = launched[o] + 1)
      /\ maxima'[o] \in {0, launched[o] + 1}
  BY <1>4, <1>5, <1>6 DEF TypeOK
<1>8. TypeOK'
  <2>1. running' \in SUBSET (Calls \X Nat)
    <3>1. <<o, launched[o] + 1>> \in Calls \X Nat
      BY <1>6
    <3>2. running' \subseteq running \cup {<<o, launched[o] + 1>>}
      BY <1>5
    <3> QED
      BY <3>1, <3>2 DEF TypeOK
  <2>3. unprotected' \in BOOLEAN
    BY <1>5 DEF TypeOK
  <2>2. lock' \in [Calls -> Calls \cup {None}]
    BY <1>3 DEF TypeOK
  <2> QED
    BY <1>1, <1>2, <1>3, <1>7, <2>1, <2>2, <2>3 DEF TypeOK
<1>9. \A p \in Calls : Referenced(p)' <=> Referenced(p)
  BY <1>3 DEF Referenced, InTable
<1>10. HoldsInv'
  BY <1>1, <1>3 DEF HoldsInv
<1>11. UnbornInv'
  BY <1>1, <1>3, <1>4, <1>7, <1>9 DEF UnbornInv
<1>12. \A p \in holds[c] : p = o
  BY <1>3, <1>4 DEF HoldsInv
<1>13. LockInv'
  BY <1>1, <1>3, <1>4, <1>12 DEF LockInv, TypeOK
<1>14. InstanceInv'
  BY <1>1, <1>3, <1>4, <1>7, <1>12 DEF InstanceInv, LockInv
<1>15. ProcessInv'
  <2>1. \A p \in running : p \in Calls \X Nat /\ p[1] # o
    BY <1>4 DEF ProcessInv, TypeOK
  <2>2. \A p \in running' : p \in running \/ (p = <<o, launched[o] + 1>> /\ maxima'[o] = p[2])
    BY <1>5, <1>6, <1>7 DEF TypeOK
  <2>3. \A p \in running' : p[2] = maxima'[p[1]] /\ p[2] # 0
    BY <1>6, <1>7, <2>1, <2>2 DEF ProcessInv
  <2>4. \A p \in Calls : maxima'[p] # 0 => <<p, maxima'[p]>> \in running' /\ Referenced(p)'
    BY <1>4, <1>5, <1>6, <1>7, <1>9 DEF ProcessInv, TypeOK
  <2> QED
    BY <2>3, <2>4 DEF ProcessInv
<1>16. ProtectedInv'
  <2> SUFFICES ASSUME ~unprotected'
               PROVE  ProtectedInv'
    BY <1>3, <1>5 DEF ProtectedInv
  <2>1. ~unprotected /\ maxima'[o] # 0
    BY <1>5, <1>6, <1>7
  <2>2. \A d \in Calls : pc'[d] = "signal" => pc[d] = "signal" /\ d # c
    BY <1>1, <1>3
  <2>3. \A d \in Calls : pc[d] = "signal" /\ o \in holds[d] => maxima[o] # 0
    BY <2>1 DEF ProtectedInv
  <2>4. \A p \in Calls \ {o} : lock'[p] = lock[p] /\ lock[p] # c
    BY <1>3, <1>12 DEF LockInv, TypeOK
  <2> QED
    BY <1>1, <1>3, <1>4, <1>7, <1>9, <2>1, <2>2, <2>3, <2>4 DEF ProtectedInv
<1>17. DirectoryInv'
  BY <1>1, <1>3, <1>9 DEF DirectoryInv
<1> QED
  BY <1>8, <1>10, <1>11, <1>13, <1>14, <1>15, <1>16, <1>17

LEMMA LaunchFirstKeeps ==
  ASSUME IInv, NEW c \in Calls, LaunchFirst(c)
  PROVE  IInv'
<1> USE Constants DEF IInv
<1>1. /\ pc[c] = "launch" /\ launched[c] = 0 /\ maxima[c] = 0 /\ ~Referenced(c)
      /\ name[c] # None
      /\ UNCHANGED <<mutex, servants, permissions, request, destroyed, count, name, lock,
                     pointer, interrupted, crashed, overlapped, unprotected>>
  BY DEF LaunchFirst, Step, Goto, UnbornInv, table, factory, threads, history
<1>2. /\ \A d \in Calls : c \notin holds[d] /\ holds[d] \in SUBSET Objects
      /\ holds \in [Calls -> SUBSET Objects]
  BY <1>1 DEF Referenced, TypeOK, LocatorTypeOK
<1>3. CASE /\ pc' = [pc EXCEPT ![c] = "add"]
           /\ maxima' = [maxima EXCEPT ![c] = 1]
           /\ launched' = [launched EXCEPT ![c] = 1]
           /\ running' = running \cup {<<c, 1>>}
           /\ holds' = [holds EXCEPT ![c] = @ \cup {c}]
           /\ UNCHANGED dirs
  <2>1. /\ pc' \in [Calls -> Stages] /\ pc'[c] = "add"
        /\ maxima' \in [Calls -> Nat] /\ maxima'[c] = 1
        /\ launched' \in [Calls -> Nat] /\ launched'[c] = 1
        /\ holds' \in [Calls -> SUBSET Objects] /\ holds'[c] = holds[c] \cup {c}
        /\ \A d \in Calls \ {c} : /\ pc'[d] = pc[d] /\ maxima'[d] = maxima[d]
                                  /\ launched'[d] = launched[d] /\ holds'[d] = holds[d]
    BY <1>2, <1>3 DEF TypeOK, Stages
  <2>2. \A p \in Calls : Referenced(p)' <=> Referenced(p) \/ p = c
    BY <1>1, <2>1 DEF Referenced, InTable
  <2>3. TypeOK'
    <3>1. running' \in SUBSET (Calls \X Nat)
      <4>1. <<c, 1>> \in Calls \X Nat
        OBVIOUS
      <4> QED
        BY <1>3, <4>1 DEF TypeOK
    <3>2. LocatorTypeOK'
      BY <1>1, <2>1 DEF TypeOK, LocatorTypeOK, permissions
    <3> QED
      BY <1>1, <1>3, <2>1, <3>1, <3>2 DEF TypeOK
  <2>4. HoldsInv'
    BY <2>1 DEF HoldsInv
  <2>5. UnbornInv'
    BY <1>1, <2>1, <2>2 DEF UnbornInv
  <2>6. LockInv'
    BY <1>1, <1>2, <2>1 DEF LockInv
  <2>7. InstanceInv'
    BY <1>2, <2>1 DEF InstanceInv
  <2>8. ProcessInv'
    <3>1. \A p \in running : p \in Calls \X Nat /\ p[1] # c
      BY <1>1 DEF ProcessInv, TypeOK
    <3>2. \A p \in running' : p[2] = maxima'[p[1]] /\ p[2] # 0
      BY <1>3, <2>1, <3>1 DEF ProcessInv
    <3> QED
      BY <1>3, <2>1, <2>2, <3>2 DEF ProcessInv
  <2>9. ProtectedInv'
    <3>1. \A d \in Calls : lock[c] # d
      BY <1>2 DEF LockInv
    <3> QED
      BY <1>1, <1>2, <2>1, <2>2, <3>1 DEF ProtectedInv
  <2>10. DirectoryInv'
    BY <1>1, <1>3, <2>1, <2>2 DEF DirectoryInv
  <2> QED
    BY <2>3, <2>4, <2>5, <2>6, <2>7, <2>8, <2>9, <2>10
<1>4. CASE /\ pc' = [pc EXCEPT ![c] = "finish"]
           /\ dirs' = dirs \ {name[c]}
           /\ UNCHANGED <<maxima, launched, running, holds>>
  <2>1. /\ pc' \in [Calls -> Stages] /\ pc'[c] = "finish"
        /\ \A d \in Calls \ {c} : pc'[d] = pc[d]
    BY <1>4 DEF TypeOK, Stages
  <2>2. \A p \in Calls : Referenced(p)' <=> Referenced(p)
    BY <1>1, <1>4 DEF Referenced, InTable
  <2>3. TypeOK'
    BY <1>1, <1>4, <2>1 DEF TypeOK, LocatorTypeOK, permissions
  <2>4. HoldsInv'
    BY <1>4, <2>1 DEF HoldsInv
  <2>5. UnbornInv'
    BY <1>1, <1>4, <2>1, <2>2 DEF UnbornInv
  <2>6. LockInv' /\ InstanceInv'
    BY <1>1, <1>4, <2>1 DEF LockInv, InstanceInv
  <2>7. ProcessInv'
    BY <1>4, <2>2 DEF ProcessInv
  <2>8. ProtectedInv'
    BY <1>1, <1>4, <2>1, <2>2 DEF ProtectedInv
  <2>9. DirectoryInv'
    BY <1>1, <1>4, <2>1, <2>2 DEF DirectoryInv
  <2> QED
    BY <2>3, <2>4, <2>5, <2>6, <2>7, <2>8, <2>9
<1> QED
  BY <1>3, <1>4 DEF LaunchFirst, RemoveDirectory, Step, Goto

\* A step of a call that is in none of the operations of a resource before and after,
\* and that only moves references to resources, keeps the invariant.
LEMMA MoveKeeps ==
  ASSUME IInv, TypeOK', NEW c \in Calls,
         pc[c] \in {"upcall", "add", "finish"}, pc'[c] \in {"finish", "done"},
         pc'[c] = "done" => holds'[c] = {},
         \A d \in Calls \ {c} : pc'[d] = pc[d] /\ holds'[d] = holds[d],
         \A p \in Calls : Referenced(p)' <=> Referenced(p),
         UNCHANGED <<factory, dirs, resource, threads, crashed, history>>
  PROVE  IInv'
<1> USE DEF IInv, factory, resource, threads, history
<1>1. HoldsInv'
  BY DEF HoldsInv
<1>2. UnbornInv'
  BY DEF UnbornInv
<1>3. LockInv'
  BY DEF LockInv
<1>4. InstanceInv'
  BY DEF InstanceInv
<1>5. ProcessInv'
  BY DEF ProcessInv
<1>6. ProtectedInv'
  BY DEF ProtectedInv
<1>7. DirectoryInv'
  BY DEF DirectoryInv
<1> QED
  BY <1>1, <1>2, <1>3, <1>4, <1>5, <1>6, <1>7

LEMMA AddKeeps ==
  ASSUME IInv, NEW c \in Calls, Add(c)
  PROVE  IInv'
<1> USE Constants DEF IInv
<1> DEFINE entry == [servant |-> c, serviceId |-> Factory, allowedClients |-> {}]
<1>1. /\ pc[c] = "add" /\ pc' = [pc EXCEPT ![c] = "finish"] /\ c \in holds[c]
      /\ UNCHANGED <<mutex, permissions, request, holds, destroyed, factory, dirs,
                     resource, threads, crashed, history>>
  BY DEF Add, Step, Goto, UnbornInv, references
<1>2. \/ servants[name[c]] = None /\ servants' = [servants EXCEPT ![name[c]] = entry]
      \/ servants' = servants
  BY DEF Add, addServant
<1>3. entry \in ServantEntry /\ entry # None
  BY DEF ServantEntry
<1>4. servants' \in [Identities -> ServantEntry \cup {None}]
  BY <1>2, <1>3 DEF TypeOK, LocatorTypeOK
<1>5. pc' \in [Calls -> Stages] /\ pc'[c] = "finish" /\ \A d \in Calls \ {c} : pc'[d] = pc[d]
  BY <1>1 DEF TypeOK, Stages
<1>6. TypeOK'
  BY <1>1, <1>4, <1>5
     DEF TypeOK, LocatorTypeOK, permissions, factory, resource, threads, history
<1>7. \A p \in Calls : Referenced(p)' <=> Referenced(p)
  <2>1. \A p \in Calls : InTable(p)' => InTable(p) \/ p = c
    BY <1>2, <1>3 DEF InTable, TypeOK, LocatorTypeOK
  <2>2. \A p \in Calls : InTable(p) => InTable(p)'
    BY <1>2, <1>3 DEF InTable, TypeOK, LocatorTypeOK
  <2> QED
    BY <1>1, <2>1, <2>2 DEF Referenced
<1> QED
  BY <1>1, <1>5, <1>6, <1>7, MoveKeeps

LEMMA DestroyKeeps ==
  ASSUME IInv, NEW c \in Calls, NEW o \in Calls, Destroy(c, o)
  PROVE  IInv'
<1> USE Constants DEF IInv
<1> DEFINE id == name[o]
           found == {servants[i].servant : i \in {j \in Identities : j = id /\ servants[j] # None}}
<1>1. /\ pc[c] = "upcall" /\ pc' = [pc EXCEPT ![c] = "finish"]
      /\ servants' = [servants EXCEPT ![id] = None]
      /\ holds' = [holds EXCEPT ![c] = @ \cup found]
      /\ UNCHANGED <<mutex, permissions, request, destroyed, factory, dirs,
                     resource, threads, crashed, history>>
  BY DEF Destroy, Step, Goto, removeServant
<1>2. found \subseteq Objects
  BY EntryInTable
<1>3. /\ pc' \in [Calls -> Stages] /\ pc'[c] = "finish"
      /\ holds' \in [Calls -> SUBSET Objects] /\ holds'[c] = holds[c] \cup found
      /\ \A d \in Calls \ {c} : pc'[d] = pc[d] /\ holds'[d] = holds[d]
  BY <1>1, <1>2 DEF TypeOK, LocatorTypeOK, Stages
<1>4. servants' \in [Identities -> ServantEntry \cup {None}]
  BY <1>1 DEF TypeOK, LocatorTypeOK
<1>5. TypeOK'
  BY <1>1, <1>3, <1>4
     DEF TypeOK, LocatorTypeOK, permissions, factory, resource, threads, history
<1>6. \A p \in Calls : Referenced(p)' <=> Referenced(p)
  <2>1. \A p \in found : InTable(p)
    BY DEF InTable
  <2>2. \A p \in Calls : InTable(p)' => InTable(p)
    BY <1>1 DEF InTable, TypeOK, LocatorTypeOK
  <2>3. \A p \in Calls : InTable(p) => InTable(p)' \/ p \in found
    BY <1>1 DEF InTable, TypeOK, LocatorTypeOK
  <2> QED
    BY <1>3, <2>1, <2>2, <2>3 DEF Referenced
<1> QED
  BY <1>1, <1>3, <1>5, <1>6, MoveKeeps

LEMMA DropReferenceKeeps ==
  ASSUME IInv, NEW c \in Calls, NEW o \in Objects, DropReference(c, o)
  PROVE  IInv'
<1> USE Constants DEF IInv
<1>1. /\ pc[c] = "finish" /\ pc' = [pc EXCEPT ![c] = IF holds[c] = {o} THEN "done" ELSE "finish"]
      /\ request' = [request EXCEPT ![c] = None]
      /\ holds' = [holds EXCEPT ![c] = @ \ {o}]
      /\ o \in holds[c]
      /\ InTable(o) \/ \E d \in Calls \ {c} : o \in holds[d]
      /\ UNCHANGED <<mutex, servants, permissions, destroyed, factory, dirs,
                     resource, threads, crashed, history>>
  BY DEF DropReference, Leave, Drop, LastReference, table
<1>2. /\ pc' \in [Calls -> Stages] /\ pc'[c] \in {"finish", "done"}
      /\ pc'[c] = "done" => holds'[c] = {}
      /\ holds' \in [Calls -> SUBSET Objects] /\ holds'[c] = holds[c] \ {o}
      /\ \A d \in Calls \ {c} : pc'[d] = pc[d] /\ holds'[d] = holds[d]
  BY <1>1 DEF TypeOK, LocatorTypeOK, Stages
<1>3. request' \in [Calls -> [id : Identities, user : Users] \cup {None}]
  BY <1>1 DEF TypeOK, LocatorTypeOK
<1>4. TypeOK'
  BY <1>1, <1>2, <1>3
     DEF TypeOK, LocatorTypeOK, permissions, factory, resource, threads, history
<1>5. \A p \in Calls : Referenced(p)' <=> Referenced(p)
  BY <1>1, <1>2 DEF Referenced, InTable
<1> QED
  BY <1>1, <1>2, <1>4, <1>5, MoveKeeps

LEMMA DeleteKeeps ==
  ASSUME IInv, NEW c \in Calls, NEW o \in Calls, Delete(c, o)
  PROVE  IInv'
<1> USE Constants DEF IInv
<1>1. /\ pc[c] = "finish" /\ pc' = [pc EXCEPT ![c] = IF holds[c] = {o} THEN "done" ELSE "finish"]
      /\ request' = [request EXCEPT ![c] = None]
      /\ holds' = [holds EXCEPT ![c] = @ \ {o}]
      /\ destroyed' = destroyed \cup {o}
      /\ o \in holds[c] /\ ~InTable(o) /\ \A d \in Calls \ {c} : o \notin holds[d]
      /\ maxima' = [maxima EXCEPT ![o] = 0]
      /\ running' = running \ {<<o, maxima[o]>>}
      /\ dirs' = dirs \ {name[o]}
      /\ UNCHANGED <<mutex, servants, permissions, count, name, launched, lock, pointer,
                     interrupted, crashed, overlapped, unprotected>>
  BY DEF Delete, RemoveDirectory, Leave, Destruct, LastReference, table, factory, threads,
         history
<1>2. /\ pc' \in [Calls -> Stages] /\ pc'[c] \in {"finish", "done"}
      /\ pc'[c] = "done" => holds'[c] = {}
      /\ holds' \in [Calls -> SUBSET Objects] /\ holds'[c] = holds[c] \ {o}
      /\ maxima' \in [Calls -> Nat] /\ maxima'[o] = 0
      /\ \A p \in Calls \ {o} : maxima'[p] = maxima[p]
      /\ \A d \in Calls \ {c} : pc'[d] = pc[d] /\ holds'[d] = holds[d]
  BY <1>1 DEF TypeOK, LocatorTypeOK, Stages
<1>3. request' \in [Calls -> [id : Identities, user : Users] \cup {None}]
  BY <1>1 DEF TypeOK, LocatorTypeOK
<1>4. TypeOK'
  <2>1. LocatorTypeOK'
    BY <1>1, <1>2, <1>3 DEF TypeOK, LocatorTypeOK, permissions
  <2>2. running' \in SUBSET (Calls \X Nat) /\ dirs' \in SUBSET Nat
    BY <1>1 DEF TypeOK
  <2> QED
    BY <1>1, <1>2, <2>1, <2>2 DEF TypeOK
<1>5. /\ \A p \in Calls : Referenced(p)' <=> Referenced(p) /\ p # o
      /\ Referenced(o)
  BY <1>1, <1>2 DEF Referenced, InTable
<1>6. HoldsInv'
  BY <1>1, <1>2 DEF HoldsInv
<1>7. UnbornInv'
  BY <1>1, <1>2, <1>5 DEF UnbornInv
<1>8. LockInv'
  BY <1>1, <1>2 DEF LockInv
<1>9. InstanceInv'
  BY <1>1, <1>2 DEF InstanceInv
<1>10. ProcessInv'
  <2>1. \A p \in running' : p \in Calls \X Nat /\ p \in running /\ p[1] # o
    BY <1>1 DEF ProcessInv, TypeOK
  <2>2. \A p \in Calls \ {o} : <<p, maxima[p]>> # <<o, maxima[o]>>
    OBVIOUS
  <2> QED
    BY <1>1, <1>2, <1>5, <2>1, <2>2 DEF ProcessInv
<1>11. ProtectedInv'
  BY <1>1, <1>2, <1>5 DEF ProtectedInv
<1>12. DirectoryInv'
  <2>1. launched[o] # 0 /\ name[o] # None
    BY <1>5 DEF UnbornInv
  <2>2. \A p \in Calls : Referenced(p)' \/ pc'[p] = "launch" =>
          p # o /\ (Referenced(p) \/ pc[p] = "launch")
    BY <1>1, <1>2, <1>5, <2>1 DEF UnbornInv
  <2> QED
    BY <1>1, <1>2, <2>1, <2>2 DEF DirectoryInv
<1> QED
  BY <1>4, <1>6, <1>7, <1>8, <1>9, <1>10, <1>11, <1>12
-----------------------------------------------------------------------------
(* The theorems. *)

LEMMA InitEstablishes == Init => IInv
<1> SUFFICES ASSUME Init
             PROVE  IInv
  OBVIOUS
<1> USE Constants DEF Init
<1>1. TypeOK
  <2>1. servants \in [Identities -> ServantEntry \cup {None}]
    BY DEF ServantEntry
  <2> QED
    BY <2>1 DEF TypeOK, LocatorTypeOK, Stages
<1>2. \A o \in Calls : ~Referenced(o)
  BY DEF Referenced, InTable
<1> QED
  BY <1>1, <1>2 DEF IInv, HoldsInv, UnbornInv, LockInv, InstanceInv, ProcessInv,
                    ProtectedInv, DirectoryInv

LEMMA StepKeeps == IInv /\ [Next]_vars => IInv'
<1> SUFFICES ASSUME IInv, [Next]_vars
             PROVE  IInv'
  OBVIOUS
<1>1. CASE UNCHANGED vars
  BY <1>1 DEF vars, locator, table, permissions, references, factory, resource, threads,
              history, IInv, TypeOK, LocatorTypeOK, HoldsInv, UnbornInv, LockInv,
              InstanceInv, ProcessInv, ProtectedInv, DirectoryInv, Referenced, InTable
<1>2. ASSUME NEW c \in Calls, Arrive(c) \/ CallStep(c)
      PROVE  IInv'
  <2>1. CASE Arrive(c)
    BY <2>1, ArriveKeeps
  <2>2. CASE ReadCount(c) \/ WriteCount(c) \/ MakeDirectory(c) \/ LaunchFirst(c) \/ Add(c)
    BY <2>2, ReadCountKeeps, WriteCountKeeps, MakeDirectoryKeeps, LaunchFirstKeeps, AddKeeps
  <2>3. ASSUME NEW o \in Calls,
               \/ BeginExecute(c, o) \/ EndExecute(c, o) \/ ReadPointer(c, o)
               \/ Interrupt(c, o) \/ BeginRestart(c, o) \/ Relaunch(c, o)
               \/ Destroy(c, o) \/ Delete(c, o)
        PROVE  IInv'
    BY <2>3, BeginExecuteKeeps, EndExecuteKeeps, ReadPointerKeeps, InterruptKeeps,
       BeginRestartKeeps, RelaunchKeeps, DestroyKeeps, DeleteKeeps
  <2>4. ASSUME NEW o \in Objects, DropReference(c, o)
        PROVE  IInv'
    BY <2>4, DropReferenceKeeps
  <2> QED
    BY <1>2, <2>1, <2>2, <2>3, <2>4, Constants DEF CallStep
<1> QED
  BY <1>1, <1>2 DEF Next, Rest

\* The invariant holds in every state.
THEOREM Invariance == Spec => []IInv
<1>1. Init => IInv
  BY InitEstablishes
<1>2. IInv /\ [Next]_vars => IInv'
  BY StepKeeps
<1> QED
  BY <1>1, <1>2, PTL DEF Spec

\* The variables have their types; among them, destroy() and the end of a launch never
\* take a reference out of the table that is not there.
THEOREM TypeCorrect == Spec => []TypeOK
BY Invariance, PTL DEF IInv

\* A resource is used by one command, or one restart, at a time (MaximaResourceI.cc:43,
\* 55, 80), and the command has an instance, whose process runs, until it ends.
THEOREM OneUser == Spec => []SoleUse
<1>1. IInv => SoleUse
  <2> SUFFICES ASSUME IInv, NEW c \in Calls, NEW o \in Calls, pc[c] = "execute", o \in holds[c]
               PROVE  /\ <<o, maxima[o]>> \in running
                      /\ \A d \in Calls : pc[d] \in {"execute", "relaunch"} /\ o \in holds[d] => d = c
    BY DEF SoleUse
  <2>1. <<o, maxima[o]>> \in running
    BY DEF IInv, InstanceInv, ProcessInv
  <2>2. \A d \in Calls : pc[d] \in {"execute", "relaunch"} /\ o \in holds[d] => d = c
    BY DEF IInv, LockInv
  <2> QED
    BY <2>1, <2>2
<1> QED
  BY <1>1, Invariance, PTL

\* Every Maxima process is that of a resource someone can still reach, whatever
\* launches, restarts and destructions fail or meet.
THEOREM ProcessesAccounted == Spec => []NoProcessLeft
<1>1. IInv => NoProcessLeft
  <2> SUFFICES ASSUME IInv, NEW p \in running
               PROVE  p[2] = maxima[p[1]] /\ (InTable(p[1]) \/ \E c \in Calls : p[1] \in holds[c])
    BY DEF NoProcessLeft
  <2>1. p[1] \in Calls /\ p[2] = maxima[p[1]] /\ maxima[p[1]] # 0
    BY DEF IInv, TypeOK, ProcessInv
  <2> QED
    BY <2>1 DEF IInv, ProcessInv, Referenced
<1> QED
  BY <1>1, Invariance, PTL

\* No two resources work in the same directory, and it exists while they can be called,
\* unless two launches have read the same _maximaCount.
THEOREM DirectoriesApart == Spec => []OwnDirectory
<1>1. IInv => OwnDirectory
  <2> SUFFICES ASSUME IInv, ~overlapped, NEW o \in Calls, InTable(o)
               PROVE  name[o] \in dirs /\ \A p \in Calls \ {o} : name[p] # name[o]
    BY DEF OwnDirectory
  <2>1. Referenced(o) /\ name[o] # None
    BY DEF Referenced, IInv, UnbornInv
  <2> QED
    BY <2>1 DEF IInv, DirectoryInv
<1> QED
  BY <1>1, Invariance, PTL

\* A null or deleted instance is used only after a failed restart or by an interrupt
\* that has met one (MaximaResourceI.cc:69, 88).
THEOREM CrashesExplained == Spec => []CrashNeedsRestart
<1>1. IInv => CrashNeedsRestart
  BY DEF IInv, ProtectedInv, CrashNeedsRestart
<1> QED
  BY <1>1, Invariance, PTL

-----------------------------------------------------------------------------
(* The factory implements ProcessService. *)

\* The process of a resource is that of its instance.
LEMMA ProcessFact ==
  ASSUME IInv, NEW o \in Calls
  PROVE  /\ maxima[o] = 0 => Served!Process(o) = {}
         /\ maxima[o] # 0 => Served!Process(o) = {<<o, maxima[o]>>}
<1>1. \A p \in running : p \in Calls \X Nat /\ p[2] = maxima[p[1]] /\ p[2] # 0
  BY DEF IInv, TypeOK, ProcessInv
<1>2. \A p \in running : p[1] = o => maxima[o] # 0 /\ p = <<o, maxima[o]>>
  BY <1>1
<1>3. maxima[o] # 0 => <<o, maxima[o]>> \in running /\ <<o, maxima[o]>>[1] = o
  BY DEF IInv, ProcessInv
<1> QED
  BY <1>2, <1>3 DEF Served!Process

LEMMA LockType ==
  ASSUME IInv
  PROVE  /\ \A o \in Calls : lock[o] \in Calls \cup {None}
         /\ None \notin Calls
BY Constants DEF IInv, TypeOK

\* Steps that begin and end no command and no process.
LEMMA Unseen ==
  ASSUME IInv, UNCHANGED <<running, launched, lock>>,
         \A d \in Calls : pc'[d] = "execute" <=> pc[d] = "execute"
  PROVE  UNCHANGED Served!vars
<1>1. \A o \in Calls : usedBy(o)' = usedBy(o)
  BY LockType DEF usedBy
<1> QED
  BY <1>1 DEF Served!vars

LEMMA StepUnseen ==
  ASSUME IInv, NEW c \in Calls,
         \/ Arrive(c) \/ ReadCount(c) \/ WriteCount(c) \/ MakeDirectory(c) \/ Add(c)
         \/ \E o \in Calls : ReadPointer(c, o) \/ Interrupt(c, o) \/ Destroy(c, o)
         \/ \E o \in Objects : DropReference(c, o)
  PROVE  UNCHANGED Served!vars
<1>1. CASE Arrive(c)
  <2>1. /\ pc[c] = "idle" /\ pc'[c] \in {"upcall", "done"}
        /\ \A d \in Calls \ {c} : pc'[d] = pc[d]
        /\ UNCHANGED <<running, launched, lock>>
    BY <1>1, LocateStep DEF IInv, TypeOK, resource
  <2> QED
    BY <2>1, Unseen
<1>2. CASE ReadCount(c) \/ WriteCount(c) \/ MakeDirectory(c) \/ Add(c)
  <2>1. /\ pc[c] \in {"upcall", "write", "make", "add"}
        /\ pc'[c] \in {"write", "make", "launch", "finish"}
        /\ \A d \in Calls \ {c} : pc'[d] = pc[d]
        /\ UNCHANGED <<running, launched, lock>>
    BY <1>2 DEF ReadCount, WriteCount, MakeDirectory, Add, Step, Goto, IInv, TypeOK,
                resource
  <2> QED
    BY <2>1, Unseen
<1>3. ASSUME NEW o \in Calls, ReadPointer(c, o) \/ Interrupt(c, o) \/ Destroy(c, o)
      PROVE  UNCHANGED Served!vars
  <2>1. /\ UNCHANGED <<running, launched, lock>>
        /\ \/ UNCHANGED pc
           \/ /\ pc[c] \in {"upcall", "signal"} /\ pc'[c] \in {"signal", "finish"}
              /\ \A d \in Calls \ {c} : pc'[d] = pc[d]
    BY <1>3 DEF ReadPointer, Interrupt, Destroy, Crash, Step, Goto, IInv, TypeOK, resource
  <2> QED
    BY <2>1, Unseen
<1>4. ASSUME NEW o \in Objects, DropReference(c, o)
      PROVE  UNCHANGED Served!vars
  <2>1. /\ UNCHANGED <<running, launched, lock>>
        /\ pc[c] = "finish" /\ pc'[c] \in {"finish", "done"}
        /\ \A d \in Calls \ {c} : pc'[d] = pc[d]
    BY <1>4 DEF DropReference, Leave, IInv, TypeOK, resource
  <2> QED
    BY <2>1, Unseen
<1> QED
  BY <1>1, <1>2, <1>3, <1>4

\* A resource that only the call c can have locked, which does not execute, is unused.
LEMMA UnusedFact ==
  ASSUME IInv, NEW o \in Calls,
         \A d \in Calls : o \in holds[d] => pc[d] # "execute"
  PROVE  usedBy(o) = None
BY LockType DEF usedBy, IInv, LockInv

LEMMA LaunchSeen ==
  ASSUME IInv, NEW c \in Calls, LaunchFirst(c)
  PROVE  UNCHANGED Served!vars \/ Served!Start(c)
<1>1. CASE UNCHANGED running
  <2>1. /\ pc[c] = "launch" /\ pc'[c] \in {"add", "finish"}
        /\ \A d \in Calls \ {c} : pc'[d] = pc[d] /\ UNCHANGED lock
    BY DEF LaunchFirst, Step, Goto, IInv, TypeOK
  <2>2. <<c, 1>> \notin running
    BY <2>1 DEF IInv, UnbornInv, ProcessInv
  <2>3. UNCHANGED launched
    BY <1>1, <2>2 DEF LaunchFirst
  <2> QED
    BY <1>1, <2>1, <2>3, Unseen DEF LaunchFirst
<1>2. CASE ~UNCHANGED running
  <2>1. /\ pc[c] = "launch" /\ pc' = [pc EXCEPT ![c] = "add"]
        /\ launched' = [launched EXCEPT ![c] = 1]
        /\ running' = running \cup {<<c, 1>>}
        /\ UNCHANGED lock
    BY <1>2 DEF LaunchFirst, Step, Goto
  <2>2. /\ launched[c] = 0 /\ maxima[c] = 0 /\ \A d \in Calls : c \notin holds[d]
    BY <2>1 DEF IInv, UnbornInv, Referenced
  <2>3. Served!Process(c) = {} /\ usedBy(c) = None
    BY <2>2, ProcessFact, UnusedFact
  <2>4. \A o \in Calls : usedBy(o)' = usedBy(o)
    <3>1. \A d \in Calls : pc'[d] = "execute" <=> pc[d] = "execute"
      BY <2>1 DEF IInv, TypeOK
    <3> QED
      BY <2>1, <3>1, LockType DEF usedBy
  <2>5. launched'= [launched EXCEPT ![c] = @ + 1] /\ 1 = launched[c] + 1
    BY <2>1, <2>2
  <2> QED
    BY <2>1, <2>3, <2>4, <2>5 DEF Served!Start
<1> QED
  BY <1>1, <1>2

LEMMA BeginSeen ==
  ASSUME IInv, NEW c \in Calls, NEW o \in Calls, BeginExecute(c, o)
  PROVE  UNCHANGED Served!vars \/ Served!Begin(o, c)
<1>1. CASE maxima[o] = 0
  <2>1. UNCHANGED <<running, launched, lock, pc>>
    BY <1>1 DEF BeginExecute, Crash, resource
  <2> QED
    BY <2>1, Unseen
<1>2. CASE maxima[o] # 0
  <2>1. /\ pc[c] = "upcall" /\ pc'[c] = "execute"
        /\ \A d \in Calls \ {c} : pc'[d] = pc[d]
        /\ lock[o] = None /\ lock'[o] = c
        /\ \A p \in Calls \ {o} : lock'[p] = lock[p]
        /\ UNCHANGED <<running, launched>>
    BY <1>2 DEF BeginExecute, Step, Goto, IInv, TypeOK
  <2>2. Served!Process(o) # {}
    BY <1>2, ProcessFact
  <2>3. usedBy(o) = None /\ usedBy(o)' = c
    BY <2>1, LockType DEF usedBy
  <2>4. \A p \in Calls \ {o} : usedBy(p)' = usedBy(p)
    <3>1. \A p \in Calls : lock[p] # c
      BY <2>1 DEF IInv, LockInv
    <3> QED
      BY <2>1, <3>1, LockType DEF usedBy
  <2> QED
    BY <2>1, <2>2, <2>3, <2>4 DEF Served!Begin
<1> QED
  BY <1>1, <1>2

LEMMA EndSeen ==
  ASSUME IInv, NEW c \in Calls, NEW o \in Calls, EndExecute(c, o)
  PROVE  Served!End(o)
<1>1. /\ pc[c] = "execute" /\ pc'[c] = "finish"
      /\ \A d \in Calls \ {c} : pc'[d] = pc[d]
      /\ lock[o] = c /\ lock'[o] = None
      /\ \A p \in Calls \ {o} : lock'[p] = lock[p]
      /\ UNCHANGED <<running, launched>>
  BY DEF EndExecute, Step, Goto, IInv, TypeOK
<1>2. usedBy(o) = c /\ usedBy(o)' = None
  BY <1>1, LockType DEF usedBy
<1>3. \A p \in Calls \ {o} : usedBy(p)' = usedBy(p)
  <2>1. \A p \in Calls \ {o} : lock[p] # c
    BY <1>1 DEF IInv, LockInv, HoldsInv
  <2> QED
    BY <1>1, <2>1, LockType DEF usedBy
<1> QED
  BY <1>1, <1>2, <1>3, LockType DEF Served!End

\* The process of a resource, if it has one, is ended.
LEMMA StopSeen ==
  ASSUME IInv, NEW o \in Calls, usedBy(o) = None,
         running' = running \ {<<o, maxima[o]>>}, UNCHANGED launched,
         \A p \in Calls : usedBy(p)' = usedBy(p)
  PROVE  UNCHANGED Served!vars \/ Served!Stop(o)
<1>1. CASE maxima[o] = 0
  <2>1. <<o, 0>> \notin running
    BY DEF IInv, ProcessInv
  <2>2. UNCHANGED running
    BY <1>1, <2>1
  <2> QED
    BY <2>2 DEF Served!vars
<1>2. CASE maxima[o] # 0
  BY <1>2, ProcessFact DEF Served!Stop
<1> QED
  BY <1>1, <1>2

LEMMA RestartSeen ==
  ASSUME IInv, NEW c \in Calls, NEW o \in Calls, BeginRestart(c, o)
  PROVE  UNCHANGED Served!vars \/ Served!Stop(o)
<1>1. /\ pc[c] = "upcall" /\ pc'[c] = "relaunch"
      /\ \A d \in Calls \ {c} : pc'[d] = pc[d]
      /\ lock[o] = None /\ lock'[o] = c
      /\ \A p \in Calls \ {o} : lock'[p] = lock[p]
      /\ running' = running \ {<<o, maxima[o]>>} /\ UNCHANGED launched
  BY DEF BeginRestart, Step, Goto, IInv, TypeOK
<1>2. usedBy(o) = None /\ usedBy(o)' = None
  BY <1>1, LockType DEF usedBy
<1>3. \A p \in Calls \ {o} : usedBy(p)' = usedBy(p)
  <2>1. \A p \in Calls : lock[p] # c
    BY <1>1 DEF IInv, LockInv
  <2> QED
    BY <1>1, <2>1, LockType DEF usedBy
<1> QED
  BY <1>1, <1>2, <1>3, StopSeen

LEMMA RelaunchSeen ==
  ASSUME IInv, NEW c \in Calls, NEW o \in Calls, Relaunch(c, o)
  PROVE  UNCHANGED Served!vars \/ Served!Start(o)
<1>1. /\ pc[c] = "relaunch" /\ pc'[c] = "finish"
      /\ \A d \in Calls \ {c} : pc'[d] = pc[d]
      /\ lock[o] = c /\ lock'[o] = None
      /\ \A p \in Calls \ {o} : lock'[p] = lock[p]
  BY DEF Relaunch, Step, Goto, IInv, TypeOK
<1>2. usedBy(o) = None /\ usedBy(o)' = None
  BY <1>1, LockType DEF usedBy
<1>3. \A p \in Calls \ {o} : usedBy(p)' = usedBy(p)
  <2>1. \A p \in Calls \ {o} : lock[p] # c
    BY <1>1 DEF IInv, LockInv, HoldsInv
  <2> QED
    BY <1>1, <2>1, LockType DEF usedBy
<1>4. maxima[o] = 0
  BY <1>1 DEF IInv, InstanceInv, LockInv
<1>5. Served!Process(o) = {}
  BY <1>4, ProcessFact
<1>6. CASE UNCHANGED <<launched, running>>
  BY <1>2, <1>3, <1>6 DEF Served!vars
<1>7. CASE /\ launched' = [launched EXCEPT ![o] = @ + 1]
           /\ running' = running \cup {<<o, launched[o] + 1>>}
  BY <1>2, <1>3, <1>5, <1>7 DEF Served!Start
<1> QED
  BY <1>6, <1>7 DEF Relaunch

LEMMA DeleteSeen ==
  ASSUME IInv, NEW c \in Calls, NEW o \in Calls, Delete(c, o)
  PROVE  UNCHANGED Served!vars \/ Served!Stop(o)
<1>1. /\ pc[c] = "finish" /\ pc'[c] \in {"finish", "done"}
      /\ \A d \in Calls \ {c} : pc'[d] = pc[d] /\ o \notin holds[d]
      /\ running' = running \ {<<o, maxima[o]>>}
      /\ UNCHANGED <<launched, lock>>
  BY Constants DEF Delete, Leave, Destruct, LastReference, IInv, TypeOK
<1>2. usedBy(o) = None
  BY <1>1, UnusedFact
<1>3. \A p \in Calls : usedBy(p)' = usedBy(p)
  <2>1. \A d \in Calls : pc'[d] = "execute" <=> pc[d] = "execute"
    BY <1>1
  <2> QED
    BY <1>1, <2>1, LockType DEF usedBy
<1> QED
  BY <1>1, <1>2, <1>3, StopSeen

\* No restart and no deletion ends a process under a command, a resource never has two
\* processes, and one that has ended does not return: the resources of a factory
\* implement ProcessService (MaximaResourceI.cc, _mutex and the counted references).
THEOREM ImplementsProcessService == Spec => ProcessServiceSpec
<1>1. Init => Served!Init
  <2> SUFFICES ASSUME Init
               PROVE  Served!Init
    OBVIOUS
  <2>1. \A o \in Calls : usedBy(o) = None
    BY DEF Init, usedBy
  <2> QED
    BY <2>1 DEF Init, Served!Init
<1>2. IInv /\ [Next]_vars => [Served!Next]_(Served!vars)
  <2> SUFFICES ASSUME IInv, [Next]_vars
               PROVE  [Served!Next]_(Served!vars)
    OBVIOUS
  <2>1. CASE UNCHANGED vars
    BY <2>1, Unseen DEF vars, resource
  <2>2. ASSUME NEW c \in Calls, Arrive(c) \/ CallStep(c)
        PROVE  [Served!Next]_(Served!vars)
    <3>1. CASE LaunchFirst(c)
      BY <3>1, LaunchSeen DEF Served!Next
    <3>2. ASSUME NEW o \in Calls,
                 \/ BeginExecute(c, o) \/ EndExecute(c, o) \/ BeginRestart(c, o)
                 \/ Relaunch(c, o) \/ Delete(c, o)
          PROVE  [Served!Next]_(Served!vars)
      BY <3>2, BeginSeen, EndSeen, RestartSeen, RelaunchSeen, DeleteSeen DEF Served!Next
    <3>3. CASE \/ Arrive(c) \/ ReadCount(c) \/ WriteCount(c) \/ MakeDirectory(c) \/ Add(c)
               \/ \E o \in Calls : ReadPointer(c, o) \/ Interrupt(c, o) \/ Destroy(c, o)
               \/ \E o \in Objects : DropReference(c, o)
      BY <3>3, StepUnseen
    <3> QED
      BY <2>2, <3>1, <3>2, <3>3, Constants DEF CallStep
  <2> QED
    BY <2>1, <2>2 DEF Next, Rest
<1> QED
  BY <1>1, <1>2, Invariance, PTL DEF Spec, ProcessServiceSpec, Served!Spec
=============================================================================
