--------------------------- MODULE MaximaService ---------------------------
(***************************************************************************)
(* The EveREST service (service.py) over its thread pool (threadpool.py).  *)
(* EveREST calls run() for every job, each call in a thread of its own,    *)
(* and may interrupt that thread; worker threads execute the commands of   *)
(* the jobs on a pool of as many MaximaInstance objects as workers.        *)
(*                                                                         *)
(* One command of a job is one call of MaximaInstance::executeCommand: it  *)
(* gives a result or throws.  An interrupt during the call makes it throw, *)
(* unless it reaches Maxima before the command does; outside of a call it  *)
(* is without effect (module MaximaInstance).                              *)
(***************************************************************************)
EXTENDS Naturals, Sequences, FiniteSets

CONSTANTS
  Jobs,           \* the calls of run()
  Workers,        \* the worker threads
  Instances,      \* the MaximaInstance objects
  Commands,       \* number of commands in a job, kill(all) and so on included
  Cancelled,      \* the jobs whose thread EveREST may interrupt, once each
  Endless,        \* the jobs whose last command does not end by itself
  EarlyDestroy,   \* whether destroy() may be called while jobs are running
  None

ASSUME ServiceAssumption ==
  /\ Cardinality(Workers) = Cardinality(Instances)
  /\ Commands \in Nat \ {0}
  /\ Cancelled \subseteq Jobs
  /\ Endless \subseteq Jobs
  /\ EarlyDestroy \in BOOLEAN
  /\ None \notin Jobs \cup Instances

VARIABLES
  pc,            \* where the call of run() for a job is
  maxima,        \* local variable of run(), and the argument of workerTask()
  polled,        \* the request poll() has taken from the results queue
  cancelled,     \* the thread has been interrupted and has not noticed
  maximaPool,    \* MaximaService._maximaPool
  queue,         \* MaximaInstance2.queue: who put what in there
  requests,      \* ThreadPool._requests_queue
  results,       \* ThreadPool._results_queue
  workRequests,  \* the keys of ThreadPool.workRequests
  wpc,           \* where a worker thread is
  wjob,          \* the job it works for last
  left,          \* the commands of the job it has still to execute
  dismissed,     \* the workers whose event _dismissed is set
  destroyed,     \* the instances whose destroy() has been called
  service        \* where MaximaService.destroy is

run == <<pc, maxima, polled, cancelled>>
pool == <<requests, results, workRequests>>
workers == <<wpc, wjob, left>>
ending == <<dismissed, destroyed, service>>
vars == <<run, maximaPool, queue, pool, workers, ending>>

\* Where run() is between taking an instance from the pool and giving it back.
Holding == {"put", "register", "wait", "interrupt", "collect", "release"}

TypeOK ==
  /\ pc \in [Jobs -> {"new", "poll", "pollGet", "pollDelete", "acquire", "ended",
                      "failed"} \cup Holding]
  /\ maxima \in [Jobs -> Instances \cup {None}]
  /\ polled \in [Jobs -> Jobs \cup {None}]
  /\ cancelled \in [Jobs -> BOOLEAN]
  /\ maximaPool \in SUBSET Instances
  /\ queue \in [Instances -> Seq(Jobs)]
  /\ requests \in Seq(Jobs)
  /\ results \in Seq(Jobs)
  /\ workRequests \in SUBSET Jobs
  /\ wpc \in [Workers -> {"loop", "get", "next", "execute", "answer", "report",
                          "gone"}]
  /\ wjob \in [Workers -> Jobs \cup {None}]
  /\ left \in [Workers -> 0..Commands]
  /\ dismissed \in SUBSET Workers
  /\ destroyed \in SUBSET Instances
  /\ service \in {"up", "dismissing", "draining", "down"}

\* MaximaService.init: the pool is full and the workers are running.
Init ==
  /\ pc = [j \in Jobs |-> "new"]
  /\ maxima = [j \in Jobs |-> None]
  /\ polled = [j \in Jobs |-> None]
  /\ cancelled = [j \in Jobs |-> FALSE]
  /\ maximaPool = Instances
  /\ queue = [m \in Instances |-> <<>>]
  /\ requests = <<>>
  /\ results = <<>>
  /\ workRequests = {}
  /\ wpc = [w \in Workers |-> "loop"]
  /\ wjob = [w \in Workers |-> None]
  /\ left = [w \in Workers |-> 0]
  /\ dismissed = {}
  /\ destroyed = {}
  /\ service = "up"

Goto(j, from, to) == pc[j] = from /\ pc' = [pc EXCEPT ![j] = to]

-----------------------------------------------------------------------------
(* MaximaService.run *)

Start(j) ==
  /\ service = "up"
  /\ Goto(j, "new", "poll")
  /\ UNCHANGED <<maxima, polled, cancelled, maximaPool, queue, pool, workers,
                 ending>>

\* ThreadPool.poll: NoResultsPending, or on to the results queue.
Poll(j) ==
  /\ Goto(j, "poll", IF workRequests = {} THEN "acquire" ELSE "pollGet")
  /\ UNCHANGED <<maxima, polled, cancelled, maximaPool, queue, pool, workers,
                 ending>>

\* The results queue is empty, or its first result is taken.
PollGet(j) ==
  /\ IF results = <<>>
       THEN /\ Goto(j, "pollGet", "acquire")
            /\ UNCHANGED <<polled, results>>
       ELSE /\ Goto(j, "pollGet", "pollDelete")
            /\ polled' = [polled EXCEPT ![j] = Head(results)]
            /\ results' = Tail(results)
  /\ UNCHANGED <<maxima, cancelled, maximaPool, queue, requests, workRequests,
                 workers, ending>>

\* del self.workRequests[request.requestID], which throws KeyError out of run()
\* when the request is not registered.
PollDelete(j) ==
  /\ Goto(j, "pollDelete", IF polled[j] \in workRequests THEN "poll" ELSE "failed")
  /\ workRequests' = workRequests \ {polled[j]}
  /\ polled' = [polled EXCEPT ![j] = None]
  /\ UNCHANGED <<maxima, cancelled, maximaPool, queue, requests, results, workers,
                 ending>>

\* The first loop: an instance is taken from the pool ...
Acquire(j) ==
  /\ Goto(j, "acquire", "put")
  /\ \E m \in maximaPool :
       /\ maxima' = [maxima EXCEPT ![j] = m]
       /\ maximaPool' = maximaPool \ {m}
  /\ UNCHANGED <<polled, cancelled, queue, pool, workers, ending>>

\* ... or the thread is interrupted in the sleep.
CancelAcquire(j) ==
  /\ cancelled[j]
  /\ Goto(j, "acquire", "ended")
  /\ cancelled' = [cancelled EXCEPT ![j] = FALSE]
  /\ UNCHANGED <<maxima, polled, maximaPool, queue, pool, workers, ending>>

\* ThreadPool.putRequest, its first line.
PutRequest(j) ==
  /\ Goto(j, "put", "register")
  /\ requests' = Append(requests, j)
  /\ UNCHANGED <<maxima, polled, cancelled, maximaPool, queue, results,
                 workRequests, workers, ending>>

\* Mutant of Register: the identifier of the request is not saved.
RegisterNothing(j) ==
  /\ Goto(j, "register", "wait")
  /\ UNCHANGED <<maxima, polled, cancelled, maximaPool, queue, pool, workers,
                 ending>>

\* ThreadPool.putRequest, its second line.
Register(j) ==
  /\ Goto(j, "register", "wait")
  /\ workRequests' = workRequests \cup {j}
  /\ UNCHANGED <<maxima, polled, cancelled, maximaPool, queue, requests, results,
                 workers, ending>>

\* The second loop: the result is there ...
TakeResult(j) ==
  /\ Goto(j, "wait", "release")
  /\ queue[maxima[j]] # <<>>
  /\ queue' = [queue EXCEPT ![maxima[j]] = Tail(@)]
  /\ UNCHANGED <<maxima, polled, cancelled, maximaPool, pool, workers, ending>>

\* ... or the thread is interrupted in the sleep, in which a result may have come.
CancelWait(j) ==
  /\ cancelled[j]
  /\ Goto(j, "wait", "interrupt")
  /\ cancelled' = [cancelled EXCEPT ![j] = FALSE]
  /\ UNCHANGED <<maxima, polled, maximaPool, queue, pool, workers, ending>>

\* Mutant of InterruptMaxima: run() does not wait for the worker.
InterruptAndGo(j) ==
  /\ Goto(j, "interrupt", "release")
  /\ UNCHANGED <<maxima, polled, cancelled, maximaPool, queue, pool, workers, ending>>

\* The worker that has sent a command of the job to Maxima.
Executes(w, j) == wpc[w] = "execute" /\ wjob[w] = j

\* maxima.interruptMaxima(): the command being executed throws, which workerTask
\* answers, or the interrupt has no effect.
InterruptMaxima(j) ==
  /\ Goto(j, "interrupt", "collect")
  /\ \/ UNCHANGED wpc
     \/ \E w \in Workers :
          /\ Executes(w, j)
          /\ wpc' = [wpc EXCEPT ![w] = "answer"]
  /\ UNCHANGED <<maxima, polled, cancelled, maximaPool, queue, pool, wjob, left, ending>>

\* maxima.queue.get(), which blocks.
Collect(j) ==
  /\ Goto(j, "collect", "release")
  /\ queue[maxima[j]] # <<>>
  /\ queue' = [queue EXCEPT ![maxima[j]] = Tail(@)]
  /\ UNCHANGED <<maxima, polled, cancelled, maximaPool, pool, workers, ending>>

\* Mutant of Release: no finally clause.
ReleaseNothing(j) ==
  /\ Goto(j, "release", "ended")
  /\ UNCHANGED <<maxima, polled, cancelled, maximaPool, queue, pool, workers, ending>>

\* The finally clause.
Release(j) ==
  /\ Goto(j, "release", "ended")
  /\ maximaPool' = maximaPool \cup {maxima[j]}
  /\ UNCHANGED <<maxima, polled, cancelled, queue, pool, workers, ending>>

Run(j) ==
  \/ Poll(j) \/ PollGet(j) \/ PollDelete(j) \/ Acquire(j) \/ CancelAcquire(j)
  \/ PutRequest(j) \/ Register(j) \/ TakeResult(j) \/ CancelWait(j)
  \/ InterruptMaxima(j) \/ Collect(j) \/ Release(j)

\* EveREST interrupts the thread of the job.
Cancel(j) ==
  /\ j \in Cancelled
  /\ pc[j] \notin {"new", "interrupt", "collect", "release", "ended", "failed"}
  /\ ~cancelled[j]
  /\ cancelled' = [cancelled EXCEPT ![j] = TRUE]
  /\ UNCHANGED <<pc, maxima, polled, maximaPool, queue, pool, workers, ending>>

-----------------------------------------------------------------------------
(* WorkerThread.run and MaximaService.workerTask *)

WorkerGoto(w, from, to) == wpc[w] = from /\ wpc' = [wpc EXCEPT ![w] = to]

\* Mutant of WorkerLoop: the event _dismissed is not looked at.
WorkerLoopForever(w) ==
  /\ WorkerGoto(w, "loop", "get")
  /\ UNCHANGED <<run, maximaPool, queue, pool, wjob, left, ending>>

\* The head of the loop.
WorkerLoop(w) ==
  /\ WorkerGoto(w, "loop", IF w \in dismissed THEN "gone" ELSE "get")
  /\ UNCHANGED <<run, maximaPool, queue, pool, wjob, left, ending>>

\* The request queue stays empty for the time of the timeout.
WorkerTimeout(w) ==
  /\ requests = <<>>
  /\ WorkerGoto(w, "get", "loop")
  /\ UNCHANGED <<run, maximaPool, queue, pool, wjob, left, ending>>

\* A request is taken, and put back if the worker has been dismissed.
WorkerGet(w) ==
  /\ requests # <<>>
  /\ IF w \in dismissed
       THEN /\ WorkerGoto(w, "get", "gone")
            /\ requests' = Append(Tail(requests), Head(requests))
            /\ UNCHANGED <<wjob, left>>
       ELSE /\ WorkerGoto(w, "get", "next")
            /\ requests' = Tail(requests)
            /\ wjob' = [wjob EXCEPT ![w] = Head(requests)]
            /\ left' = [left EXCEPT ![w] = Commands]
  /\ UNCHANGED <<run, maximaPool, queue, results, workRequests, ending>>

\* maxima.executeCommand: the next command is sent ...
ExecuteCommand(w) ==
  /\ left[w] > 0
  /\ WorkerGoto(w, "next", "execute")
  /\ left' = [left EXCEPT ![w] = @ - 1]
  /\ UNCHANGED <<run, maximaPool, queue, pool, wjob, ending>>

\* ... and has given a result or thrown an error.
CommandDone(w) ==
  /\ left[w] = 0 => wjob[w] \notin Endless
  /\ \/ left[w] > 0 /\ WorkerGoto(w, "execute", "next")
     \/ WorkerGoto(w, "execute", "answer")
  /\ UNCHANGED <<run, maximaPool, queue, pool, wjob, left, ending>>

\* maxima.queue.put of the result or of the exception; the queue holds one.
PutAnswer(w) ==
  LET m == maxima[wjob[w]]
  IN  /\ WorkerGoto(w, "answer", "report")
      /\ queue[m] = <<>>
      /\ queue' = [queue EXCEPT ![m] = <<wjob[w]>>]
      /\ UNCHANGED <<run, maximaPool, pool, wjob, left, ending>>

\* Mutant of PutResult: something else than the request is put.
PutInstance(w) ==
  /\ WorkerGoto(w, "report", "loop")
  /\ results' = Append(results, maxima[wjob[w]])
  /\ UNCHANGED <<run, maximaPool, queue, requests, workRequests, wjob, left, ending>>

\* WorkerThread.run puts what workerTask returns into the results queue.
PutResult(w) ==
  /\ WorkerGoto(w, "report", "loop")
  /\ results' = Append(results, wjob[w])
  /\ UNCHANGED <<run, maximaPool, queue, requests, workRequests, wjob, left, ending>>

Work(w) ==
  \/ WorkerLoop(w) \/ WorkerTimeout(w) \/ WorkerGet(w) \/ ExecuteCommand(w)
  \/ CommandDone(w) \/ PutAnswer(w) \/ PutResult(w)

-----------------------------------------------------------------------------
(* MaximaService.destroy *)

\* EveREST calls it after the last job, or at any time.
Destroy ==
  /\ service = "up"
  /\ EarlyDestroy \/ \A j \in Jobs : pc[j] \in {"new", "ended", "failed"}
  /\ service' = "dismissing"
  /\ UNCHANGED <<run, maximaPool, queue, pool, workers, dismissed, destroyed>>

\* dismissWorkers, its first loop.
Dismiss(w) ==
  /\ service = "dismissing"
  /\ w \notin dismissed
  /\ dismissed' = dismissed \cup {w}
  /\ UNCHANGED <<run, maximaPool, queue, pool, workers, destroyed, service>>

\* dismissWorkers, its second loop.
Join ==
  /\ service = "dismissing"
  /\ dismissed = Workers
  /\ \A w \in Workers : wpc[w] = "gone"
  /\ service' = "draining"
  /\ UNCHANGED <<run, maximaPool, queue, pool, workers, dismissed, destroyed>>

\* The loop of destroy(): an instance of the pool is destroyed ...
DestroyInstance ==
  /\ service = "draining"
  /\ \E m \in maximaPool :
       /\ maximaPool' = maximaPool \ {m}
       /\ destroyed' = destroyed \cup {m}
  /\ UNCHANGED <<run, queue, pool, workers, dismissed, service>>

\* ... until the pool is empty.
Down ==
  /\ service = "draining"
  /\ maximaPool = {}
  /\ service' = "down"
  /\ UNCHANGED <<run, maximaPool, queue, pool, workers, dismissed, destroyed>>

Ending == Destroy \/ (\E w \in Workers : Dismiss(w)) \/ Join \/ DestroyInstance \/ Down

\* The end of the service.
Over == service = "down" /\ UNCHANGED vars

Next ==
  \/ \E j \in Jobs : Start(j) \/ Run(j) \/ Cancel(j)
  \/ \E w \in Workers : Work(w)
  \/ Ending
  \/ Over

Spec == Init /\ [][Next]_vars

\* The threads run, a command that ends does so in a finite time (module
\* MaximaInstance, CallReturns), and a call of destroy() goes on.
Fairness ==
  /\ \A j \in Jobs : WF_vars(Run(j))
  /\ \A w \in Workers : WF_vars(Work(w))
  /\ WF_vars(service # "up" /\ Ending)

FairSpec == Spec /\ Fairness

-----------------------------------------------------------------------------
(* Properties. *)

Holds(j, m) == pc[j] \in Holding /\ maxima[j] = m

\* No Maxima is used by two threads, or for a job that has given it back, or after
\* its end: the worker that executes commands on an instance is the only one that
\* does, and run() still holds the instance (service.py, run and workerTask).
ExclusiveUse ==
  \A w \in Workers : wpc[w] \in {"next", "execute", "answer"} =>
    LET m == maxima[wjob[w]]
    IN  /\ Holds(wjob[w], m)
        /\ m \notin maximaPool \cup destroyed
        /\ \A v \in Workers \ {w} :
             wpc[v] \in {"next", "execute", "answer"} => maxima[wjob[v]] # m

\* The result run() finds in the queue of its instance is the one of its own job,
\* whatever jobs the instance was used for before and however they ended: an
\* instance is never given back with a result left in its queue.
ResultsAreOwn ==
  \A m \in Instances : queue[m] # <<>> =>
    \E j \in Jobs : /\ queue[m] = <<j>>
                    /\ Holds(j, m)
                    /\ pc[j] \in {"register", "wait", "interrupt", "collect"}

\* No instance is lost and none is given away twice: each is in the pool, with one
\* job, or destroyed.
InstancesAccounted ==
  \A m \in Instances :
    Cardinality({j \in Jobs : Holds(j, m)})
      + (IF m \in maximaPool THEN 1 ELSE 0)
      + (IF m \in destroyed THEN 1 ELSE 0) = 1

\* A service that goes down after its last job leaves no Maxima behind.
NoMaximaLeft == service = "down" => destroyed = Instances

\* A request that has been put and not been polled is known to the thread pool:
\* unless its putRequest is still under way, poll() finds its identifier.
RequestsRegistered ==
  \A j \in Jobs :
    \/ pc[j] = "register"
    \/ j \in workRequests
    \/ /\ \A k \in Jobs : polled[k] # j
       /\ \A i \in 1..Len(requests) : requests[i] # j
       /\ \A i \in 1..Len(results) : results[i] # j

\* Where a job stands as one of a JobService.
jobPhase(j) ==
  CASE pc[j] \in {"ended", "failed"} -> "over"
    [] pc[j] \in Holding ->
         IF pc[j] = "release" \/ queue[maxima[j]] # <<>> THEN "answered" ELSE "taken"
    [] OTHER -> "asked"

jobInstance(j) == IF pc[j] \in Holding THEN maxima[j] ELSE None

\* The worker that executes the commands of the job, if one does.
Computing(j) == {w \in Workers : wpc[w] \in {"next", "execute", "answer"} /\ wjob[w] = j}

commandsSent(j) ==
  LET C == Computing(j)
  IN  IF C = {} THEN 0 ELSE Commands - left[CHOOSE w \in C : TRUE]

\* The service is what JobService promises.
JobsServed == INSTANCE JobService WITH
  phase <- [j \in Jobs |-> jobPhase(j)],
  instance <- [j \in Jobs |-> jobInstance(j)],
  executed <- [j \in Jobs |-> commandsSent(j)],
  free <- maximaPool

\* However jobs are cancelled, workers are scheduled and the service is destroyed, a
\* job is computed once, on an instance of its own, which is given back after the
\* answer and not before (Spec of JobService).
JobServiceSpec == JobsServed!Spec

\* A job comes to an end, cancelled or not, while others are cancelled at any
\* moment and the endless ones, fewer than the workers, go on.
JobsEnd ==
  \A j \in Jobs \ Endless : pc[j] = "poll" ~> pc[j] \in {"ended", "failed"}

\* destroy() returns.
DestroyReturns == service = "dismissing" ~> service = "down"

\* poll() processes the results in the queue (threadpool.py, ThreadPool.poll): it
\* does not throw a KeyError because a worker was faster than putRequest, which
\* would end the call of run() for a job that has nothing to do with the request.
PollSucceeds == \A j \in Jobs : pc[j] # "failed"
=============================================================================
