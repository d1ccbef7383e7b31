------------------------- MODULE MaximaService_proofs -------------------------
(***************************************************************************)
(* Theorems about MaximaService, for any number of jobs, workers,          *)
(* instances and commands.                                                 *)
(***************************************************************************)
EXTENDS MaximaService, FiniteSetTheorems, TLAPS

\* An element is in a sequence; a sequence has no element twice.
In(s, e) == \E i \in 1..Len(s) : s[i] = e
Distinct(s) == \A i, j \in 1..Len(s) : s[i] = s[j] => i = j

\* Where run() is while its result has not been taken, and where it may be once it
\* has put its request.
Waiting == {"register", "wait", "interrupt", "collect"}
AfterPut == Waiting \cup {"release", "ended"}

\* A worker that computes, and one that has something to do for a job.
Working(w) == wpc[w] \in {"next", "execute", "answer"}
Busy(w) == wpc[w] \in {"next", "execute", "answer", "report"}

\* What there is to say of a request in a queue, at a worker, and polled by a job.
QueuedPlace(j) ==
  /\ In(requests, j) => pc[j] \in Waiting /\ ~In(results, j)
  /\ In(results, j) => pc[j] \in AfterPut
WorkerPlace(w) ==
  /\ Busy(w) => /\ wjob[w] \in Jobs /\ pc[wjob[w]] \in AfterPut
                /\ ~In(requests, wjob[w]) /\ ~In(results, wjob[w])
  /\ Working(w) => pc[wjob[w]] \in Waiting
  /\ \A v \in Workers \ {w} : Busy(v) /\ Busy(w) => wjob[v] # wjob[w]
PolledPlace(k) ==
  /\ pc[k] = "pollDelete" <=> polled[k] # None
  /\ polled[k] # None =>
       /\ pc[polled[k]] \in AfterPut
       /\ ~In(requests, polled[k]) /\ ~In(results, polled[k])
       /\ \A w \in Workers : Busy(w) => wjob[w] # polled[k]
       /\ \A l \in Jobs \ {k} : polled[l] # polled[k]

\* A request is in one place: in a queue, with a worker, or with the job that polls it.
\* It is not there before it is put, and not computed after its result is taken.
PlaceInv ==
  /\ Distinct(requests) /\ Distinct(results)
  /\ \A j \in Jobs : QueuedPlace(j)
  /\ \A w \in Workers : WorkerPlace(w)
  /\ \A k \in Jobs : PolledPlace(k)

\* The queue of an instance is empty until the result of its present job is there.
QueueInv ==
  /\ ResultsAreOwn
  /\ \A j \in Jobs : In(requests, j) => queue[maxima[j]] = <<>>
  /\ \A w \in Workers : Working(w) => queue[maxima[wjob[w]]] = <<>>

\* Instances are in the pool, with one job, or destroyed.
OwnInv ==
  /\ \A j \in Jobs : pc[j] \in Holding =>
       /\ maxima[j] \in Instances \ (maximaPool \cup destroyed)
       /\ \A k \in Jobs \ {j} : pc[k] \in Holding => maxima[k] # maxima[j]
  /\ maximaPool \cap destroyed = {}
  /\ \A m \in Instances : m \in maximaPool \cup destroyed \/ \E j \in Jobs : Holds(j, m)

\* A request that is somewhere is registered, or about to be.
RegisterInv ==
  \A j \in Jobs :
    \/ pc[j] = "register"
    \/ j \in workRequests
    \/ /\ \A k \in Jobs : polled[k] # j
       /\ ~In(requests, j) /\ ~In(results, j)
       /\ \A w \in Workers : Busy(w) => wjob[w] # j

\* Where destroy() is called after the last job only.
EndInv ==
  ~EarlyDestroy =>
    /\ service # "up" => \A j \in Jobs : pc[j] \in {"new", "ended", "failed"}
    /\ service = "down" => maximaPool = {}

RequestInv == PlaceInv /\ QueueInv /\ OwnInv /\ RegisterInv

IInv == TypeOK /\ RequestInv /\ EndInv
-----------------------------------------------------------------------------
(* Facts about sequences. *)

LEMMA AppendFact ==
  ASSUME NEW S, NEW s \in Seq(S), NEW e \in S
  PROVE  /\ Append(s, e) \in Seq(S)
         /\ \A x : In(Append(s, e), x) <=> In(s, x) \/ x = e
         /\ Distinct(s) /\ ~In(s, e) => Distinct(Append(s, e))
<1> DEFINE t == Append(s, e)
<1>1. /\ t \in Seq(S) /\ Len(s) \in Nat /\ Len(t) = Len(s) + 1
      /\ t[Len(s) + 1] = e /\ \A i \in 1..Len(s) : t[i] = s[i]
  OBVIOUS
<1> HIDE DEF t
<1>2. \A i \in 1..Len(t) : i \in 1..Len(s) \/ i = Len(s) + 1
  BY <1>1
<1>3. \A x : In(t, x) <=> In(s, x) \/ x = e
  BY <1>1, <1>2 DEF In
<1>4. Distinct(s) /\ ~In(s, e) => Distinct(t)
  BY <1>1, <1>2 DEF In, Distinct
<1> QED
  BY <1>1, <1>3, <1>4 DEF t

LEMMA TailFact ==
  ASSUME NEW S, NEW s \in Seq(S), s # <<>>, Distinct(s)
  PROVE  /\ Tail(s) \in Seq(S) /\ Head(s) \in S /\ In(s, Head(s))
         /\ \A x : In(Tail(s), x) <=> In(s, x) /\ x # Head(s)
         /\ Distinct(Tail(s))
<1> DEFINE t == Tail(s)
           h == Head(s)
<1>1. /\ t \in Seq(S) /\ Len(s) \in Nat \ {0} /\ Len(t) = Len(s) - 1
      /\ h = s[1] /\ \A i \in 1..Len(t) : t[i] = s[i + 1]
      /\ \A i \in 1..Len(s) : s[i] \in S
  OBVIOUS
<1> HIDE DEF t, h
<1>2. \A i \in 1..Len(t) : i + 1 \in 1..Len(s)
  BY <1>1
<1>3. \A i \in 1..Len(s) : i = 1 \/ (i - 1 \in 1..Len(t) /\ t[i - 1] = s[i])
  BY <1>1
<1>4. 1 \in 1..Len(s)
  BY <1>1
<1>5. h \in S /\ In(s, h)
  BY <1>1, <1>4 DEF In
<1>6. \A x : In(t, x) => In(s, x) /\ x # h
  BY <1>1, <1>2, <1>4 DEF In, Distinct
<1>7. \A x : In(s, x) /\ x # h => In(t, x)
  BY <1>1, <1>3 DEF In
<1>8. Distinct(t)
  BY <1>1, <1>2 DEF Distinct
<1> QED
  BY <1>1, <1>5, <1>6, <1>7, <1>8 DEF t, h

LEMMA NoneFact == None \notin Jobs /\ None \notin Instances
BY ServiceAssumption

-----------------------------------------------------------------------------
(* Steps that move no request, no result and no instance. *)

LEMMA WorkerFrame ==
  ASSUME PlaceInv, NEW w \in Workers, wjob' = wjob,
         \A v \in Workers : (Busy(v)' => Busy(v)) /\ (Working(v)' => Working(v)),
         Busy(w) => /\ pc'[wjob[w]] \in AfterPut
                    /\ ~In(requests', wjob[w]) /\ ~In(results', wjob[w]),
         Working(w) => pc'[wjob[w]] \in Waiting
  PROVE  WorkerPlace(w)'
<1>1. WorkerPlace(w)
  BY DEF PlaceInv
<1>2. (Busy(w) => /\ wjob[w] \in Jobs /\ pc[wjob[w]] \in AfterPut
                  /\ ~In(requests, wjob[w]) /\ ~In(results, wjob[w]))'
  BY <1>1 DEF WorkerPlace
<1>3. (\A v \in Workers \ {w} : Busy(v) /\ Busy(w) => wjob[v] # wjob[w])'
  BY <1>1 DEF WorkerPlace
<1>4. (Working(w) => pc[wjob[w]] \in Waiting)'
  OBVIOUS
<1> QED
  BY <1>2, <1>3, <1>4 DEF WorkerPlace

LEMMA PolledFrame ==
  ASSUME PlaceInv, NEW k \in Jobs, polled'[k] = polled[k],
         pc'[k] = "pollDelete" <=> pc[k] = "pollDelete",
         polled[k] # None =>
           /\ pc'[polled[k]] \in AfterPut
           /\ ~In(requests', polled[k]) /\ ~In(results', polled[k])
           /\ \A w \in Workers : Busy(w)' => wjob'[w] # polled[k]
           /\ \A l \in Jobs \ {k} : polled'[l] # polled[k]
  PROVE  PolledPlace(k)'
<1>1. PolledPlace(k)
  BY DEF PlaceInv
<1> QED
  BY <1>1 DEF PolledPlace

\* The two queues hold the same requests as before.
SameQueues ==
  /\ Distinct(requests') /\ Distinct(results')
  /\ \A x : (In(requests', x) <=> In(requests, x)) /\ (In(results', x) <=> In(results, x))

LEMMA PlaceFrame ==
  ASSUME TypeOK, PlaceInv, SameQueues, UNCHANGED <<polled, wjob>>,
         \A j \in Jobs : /\ pc[j] \in AfterPut => pc'[j] \in AfterPut
                         /\ pc[j] \in Waiting =>
                              \/ pc'[j] \in Waiting
                              \/ /\ ~In(requests, j)
                                 /\ \A w \in Workers : Working(w) => wjob[w] # j
                         /\ pc[j] = "pollDelete" <=> pc'[j] = "pollDelete",
         \A w \in Workers : (Working(w)' => Working(w)) /\ (Busy(w)' => Busy(w))
  PROVE  PlaceInv'
<1>1. \A j \in Jobs : QueuedPlace(j)'
  BY DEF PlaceInv, QueuedPlace, SameQueues
<1>2. ASSUME NEW w \in Workers
      PROVE  WorkerPlace(w)'
  <2>1. WorkerPlace(w) /\ (Working(w) => Busy(w))
    BY DEF PlaceInv, Working, Busy
  <2>2. /\ Busy(w) => /\ pc'[wjob[w]] \in AfterPut
                      /\ ~In(requests', wjob[w]) /\ ~In(results', wjob[w])
        /\ Working(w) => pc'[wjob[w]] \in Waiting
    BY <2>1 DEF WorkerPlace, SameQueues
  <2> QED
    BY <2>2, WorkerFrame
<1>3. ASSUME NEW k \in Jobs
      PROVE  PolledPlace(k)'
  <2>1. PolledPlace(k) /\ (polled[k] # None => polled[k] \in Jobs)
    BY DEF PlaceInv, TypeOK
  <2>2. polled[k] # None =>
           /\ pc'[polled[k]] \in AfterPut
           /\ ~In(requests', polled[k]) /\ ~In(results', polled[k])
           /\ \A w \in Workers : Busy(w)' => wjob'[w] # polled[k]
           /\ \A l \in Jobs \ {k} : polled'[l] # polled[k]
    BY <2>1 DEF PolledPlace, SameQueues
  <2> QED
    BY <2>2, PolledFrame
<1> QED
  BY <1>1, <1>2, <1>3 DEF PlaceInv, SameQueues

LEMMA RegisterFrame ==
  ASSUME RegisterInv, SameQueues, UNCHANGED <<polled, wjob>>,
         workRequests \subseteq workRequests',
         \A j \in Jobs : pc[j] = "register" => pc'[j] = "register" \/ j \in workRequests',
         \A w \in Workers : Busy(w)' => Busy(w)
  PROVE  RegisterInv'
BY DEF RegisterInv, SameQueues

LEMMA SameFact ==
  ASSUME PlaceInv, UNCHANGED <<requests, results>>
  PROVE  SameQueues
BY DEF SameQueues, PlaceInv

LEMMA FrameKeeps ==
  ASSUME TypeOK, RequestInv, SameQueues,
         UNCHANGED <<maxima, polled, maximaPool, queue, wjob, destroyed>>,
         workRequests \subseteq workRequests',
         \A j \in Jobs : /\ pc[j] \in AfterPut => pc'[j] \in AfterPut
                         /\ pc[j] \in Waiting => pc'[j] \in Waiting
                         /\ pc[j] \in Holding <=> pc'[j] \in Holding
                         /\ pc[j] = "register" =>
                              pc'[j] = "register" \/ j \in workRequests'
                         /\ pc[j] = "pollDelete" <=> pc'[j] = "pollDelete",
         \A w \in Workers : (Working(w)' => Working(w)) /\ (Busy(w)' => Busy(w))
  PROVE  RequestInv'
<1> USE DEF RequestInv
<1>1. PlaceInv'
  BY PlaceFrame
<1>2. QueueInv'
  <2>1. ResultsAreOwn'
    BY DEF QueueInv, ResultsAreOwn, Holds, Holding, Waiting
  <2> QED
    BY <2>1 DEF QueueInv, SameQueues
<1>3. OwnInv'
  BY DEF OwnInv, Holds
<1>4. RegisterInv'
  BY RegisterFrame
<1> QED
  BY <1>1, <1>2, <1>3, <1>4

-----------------------------------------------------------------------------
(* TypeOK *)

LEMMA CommandsFact == Commands \in Nat
BY ServiceAssumption

LEMMA RunKeepsType ==
  ASSUME TypeOK, NEW j \in Jobs, Start(j) \/ Run(j) \/ Cancel(j),
         RequestInv
  PROVE  TypeOK'
<1> USE DEF pool, workers, ending
<1>1. CASE Start(j) \/ Poll(j) \/ CancelAcquire(j) \/ CancelWait(j) \/ Cancel(j)
  BY <1>1 DEF Start, Poll, CancelAcquire, CancelWait, Cancel, Goto, TypeOK, Holding
<1>2. CASE PollGet(j)
  <2>1. CASE results = <<>>
    BY <1>2, <2>1 DEF PollGet, Goto, TypeOK
  <2>2. CASE results # <<>>
    <3>1. Head(results) \in Jobs /\ Tail(results) \in Seq(Jobs)
      BY <2>2, TailFact DEF TypeOK, RequestInv, PlaceInv
    <3> QED
      BY <1>2, <2>2, <3>1 DEF PollGet, Goto, TypeOK
  <2> QED
    BY <2>1, <2>2
<1>3. CASE PollDelete(j)
  BY <1>3 DEF PollDelete, Goto, TypeOK
<1>4. CASE Acquire(j)
  BY <1>4 DEF Acquire, Goto, TypeOK, Holding
<1>5. CASE PutRequest(j)
  <2>1. requests' \in Seq(Jobs)
    BY <1>5 DEF PutRequest, TypeOK
  <2> QED
    BY <1>5, <2>1 DEF PutRequest, Goto, TypeOK, Holding
<1>6. CASE Register(j)
  BY <1>6 DEF Register, Goto, TypeOK, Holding
<1>7. CASE TakeResult(j) \/ Collect(j)
  <2>1. queue' \in [Instances -> Seq(Jobs)]
    <3>1. queue' = [queue EXCEPT ![maxima[j]] = Tail(@)] /\ queue[maxima[j]] # <<>>
      BY <1>7 DEF TakeResult, Collect
    <3>2. maxima[j] \in Instances => Tail(queue[maxima[j]]) \in Seq(Jobs)
      BY <3>1 DEF TypeOK
    <3> QED
      BY <3>1, <3>2 DEF TypeOK
  <2> QED
    BY <1>7, <2>1 DEF TakeResult, Collect, Goto, TypeOK, Holding
<1>8. CASE InterruptMaxima(j)
  BY <1>8 DEF InterruptMaxima, Goto, TypeOK, Holding
<1>9. CASE Release(j)
  <2>1. maxima[j] \in Instances
    BY <1>9 DEF Release, Goto, Holding, RequestInv, OwnInv
  <2> QED
    BY <1>9, <2>1 DEF Release, Goto, TypeOK
<1> QED
  BY <1>1, <1>2, <1>3, <1>4, <1>5, <1>6, <1>7, <1>8, <1>9 DEF Run

LEMMA WorkKeepsType ==
  ASSUME TypeOK, RequestInv, NEW w \in Workers, Work(w)
  PROVE  TypeOK'
<1> USE DEF run, pool, ending
<1>1. CASE WorkerLoop(w) \/ WorkerTimeout(w) \/ ExecuteCommand(w) \/ CommandDone(w)
  <2>1. CASE WorkerLoop(w) \/ WorkerTimeout(w) \/ CommandDone(w)
    <3>1. wpc' \in [Workers -> {"loop", "get", "next", "execute", "answer", "report",
                               "gone"}]
      BY <2>1 DEF WorkerLoop, WorkerTimeout, CommandDone, WorkerGoto, TypeOK
    <3>2. UNCHANGED <<run, maximaPool, queue, pool, wjob, left, ending>>
      BY <2>1 DEF WorkerLoop, WorkerTimeout, CommandDone
    <3> QED
      BY <3>1, <3>2 DEF TypeOK
  <2>2. CASE ExecuteCommand(w)
    <3>1. left[w] - 1 \in 0..Commands
      BY <2>2, CommandsFact DEF ExecuteCommand, TypeOK
    <3>2. left' \in [Workers -> 0..Commands]
      BY <2>2, <3>1 DEF ExecuteCommand, TypeOK
    <3> QED
      BY <2>2, <3>2 DEF ExecuteCommand, WorkerGoto, TypeOK
  <2> QED
    BY <1>1, <2>1, <2>2
<1>2. CASE WorkerGet(w)
  <2>1. /\ requests # <<>>
        /\ Head(requests) \in Jobs /\ Tail(requests) \in Seq(Jobs)
        /\ Append(Tail(requests), Head(requests)) \in Seq(Jobs)
    BY <1>2, TailFact, AppendFact DEF WorkerGet, TypeOK, RequestInv, PlaceInv
  <2>2. CASE w \in dismissed
    BY <1>2, <2>1, <2>2 DEF WorkerGet, WorkerGoto, TypeOK
  <2>3. CASE w \notin dismissed
    <3>1. Commands \in 0..Commands
      BY CommandsFact
    <3>2. left' \in [Workers -> 0..Commands]
      BY <1>2, <2>3, <3>1 DEF WorkerGet, TypeOK
    <3> QED
      BY <1>2, <2>1, <2>3, <3>2 DEF WorkerGet, WorkerGoto, TypeOK
  <2> QED
    BY <2>2, <2>3
<1>3. CASE PutAnswer(w)
  <2>1. wjob[w] \in Jobs
    BY <1>3 DEF PutAnswer, WorkerGoto, Busy, RequestInv, PlaceInv, WorkerPlace
  <2>2. queue' \in [Instances -> Seq(Jobs)]
    <3>1. <<wjob[w]>> \in Seq(Jobs)
      BY <2>1
    <3> QED
      BY <1>3, <3>1 DEF PutAnswer, TypeOK
  <2> QED
    BY <1>3, <2>2 DEF PutAnswer, WorkerGoto, TypeOK
<1>4. CASE PutResult(w)
  <2>1. wjob[w] \in Jobs
    BY <1>4 DEF PutResult, WorkerGoto, Busy, RequestInv, PlaceInv,
                  WorkerPlace
  <2>2. results' \in Seq(Jobs)
    BY <1>4, <2>1, AppendFact DEF PutResult, TypeOK
  <2> QED
    BY <1>4, <2>2 DEF PutResult, WorkerGoto, TypeOK
<1> QED
  BY <1>1, <1>2, <1>3, <1>4 DEF Work

LEMMA EndingKeepsType ==
  ASSUME TypeOK, Ending
  PROVE  TypeOK'
<1>1. ASSUME NEW w \in Workers, Dismiss(w)
      PROVE  TypeOK'
  BY <1>1 DEF Dismiss, run, pool, workers, TypeOK
<1>2. CASE Destroy \/ Join \/ Down
  BY <1>2 DEF Destroy, Join, Down, run, pool, workers, TypeOK
<1>3. CASE DestroyInstance
  BY <1>3 DEF DestroyInstance, run, pool, workers, TypeOK
<1> QED
  BY <1>1, <1>2, <1>3 DEF Ending

-----------------------------------------------------------------------------
(* RequestInv: the steps of poll(). *)

LEMMA PollGetKeeps ==
  ASSUME TypeOK, RequestInv, NEW j \in Jobs, PollGet(j), results # <<>>
  PROVE  RequestInv'
<1> USE DEF RequestInv
<1> DEFINE h == Head(results)
<1>1. /\ h \in Jobs /\ In(results, h) /\ Distinct(results')
      /\ \A x : In(results', x) <=> In(results, x) /\ x # h
  BY TailFact DEF PollGet, TypeOK, PlaceInv
<1>2. /\ pc[j] = "pollGet" /\ pc'[j] = "pollDelete" /\ polled'[j] = h
      /\ \A k \in Jobs \ {j} : pc'[k] = pc[k] /\ polled'[k] = polled[k]
      /\ UNCHANGED <<maxima, cancelled, maximaPool, queue, requests, workRequests>>
      /\ UNCHANGED <<wpc, wjob, left, dismissed, destroyed, service>>
  BY DEF PollGet, Goto, TypeOK, workers, ending
<1> HIDE DEF h
<1>3. /\ pc[h] \in AfterPut /\ h # j /\ ~In(requests, h)
      /\ \A w \in Workers : Busy(w) => wjob[w] # h
      /\ \A k \in Jobs : polled[k] # h
      /\ h # None /\ polled[j] = None
  BY <1>1, <1>2, NoneFact
     DEF PlaceInv, QueuedPlace, WorkerPlace, PolledPlace, AfterPut, Waiting
<1>4. PlaceInv'
  <2>1. \A k \in Jobs : QueuedPlace(k)'
    BY <1>1, <1>2, <1>3 DEF PlaceInv, QueuedPlace, AfterPut, Waiting
  <2>2. \A w \in Workers : (Busy(w)' <=> Busy(w)) /\ (Working(w)' <=> Working(w))
    BY <1>2 DEF Busy, Working
  <2>3. \A w \in Workers : WorkerPlace(w)'
    <3>1. \A k \in Jobs : /\ pc[k] \in AfterPut => pc'[k] \in AfterPut
                          /\ pc[k] \in Waiting => pc'[k] \in Waiting
      BY <1>2 DEF AfterPut, Waiting
    <3>2. \A w \in Workers : WorkerPlace(w) /\ (Working(w) => Busy(w))
      BY DEF PlaceInv, Working, Busy
    <3> QED
      BY <1>1, <1>2, <2>2, <3>1, <3>2, WorkerFrame DEF WorkerPlace
  <2>4. PolledPlace(j)'
    BY <1>1, <1>2, <1>3, <2>2 DEF PlaceInv, PolledPlace
  <2>5. \A k \in Jobs \ {j} : PolledPlace(k)'
    <3>1. \A k \in Jobs : pc[k] \in AfterPut => pc'[k] \in AfterPut
      BY <1>2 DEF AfterPut, Waiting
    <3>2. ASSUME NEW k \in Jobs \ {j}, polled[k] # None
          PROVE  /\ pc'[polled[k]] \in AfterPut
                 /\ ~In(requests', polled[k]) /\ ~In(results', polled[k])
                 /\ \A w \in Workers : Busy(w)' => wjob'[w] # polled[k]
                 /\ \A l \in Jobs \ {k} : polled'[l] # polled[k]
      <4>1. PolledPlace(k) /\ polled[k] \in Jobs /\ polled[k] # h
        BY <1>3, <3>2 DEF PlaceInv, TypeOK
      <4> QED
        BY <1>1, <1>2, <2>2, <3>1, <3>2, <4>1 DEF PolledPlace
    <3> QED
      BY <1>2, <3>2, PolledFrame
  <2> QED
    BY <1>1, <1>2, <2>1, <2>3, <2>4, <2>5 DEF PlaceInv
<1>5. \A k \in Jobs : pc'[k] \in Holding <=> pc[k] \in Holding
  BY <1>2 DEF Holding
<1>6. QueueInv'
  <2>1. ResultsAreOwn'
    BY <1>2, <1>5 DEF QueueInv, ResultsAreOwn, Holds
  <2> QED
    BY <1>2, <2>1 DEF QueueInv, Working
<1>7. OwnInv'
  BY <1>2, <1>5 DEF OwnInv, Holds
<1>8. RegisterInv'
  BY <1>1, <1>2, <1>3 DEF RegisterInv, Busy
<1> QED
  BY <1>4, <1>6, <1>7, <1>8

LEMMA PollDeleteKeeps ==
  ASSUME TypeOK, RequestInv, NEW j \in Jobs, PollDelete(j)
  PROVE  RequestInv'
<1> USE DEF RequestInv
<1> DEFINE p == polled[j]
<1>1. /\ pc[j] = "pollDelete" /\ pc'[j] \in {"poll", "failed"} /\ polled'[j] = None
      /\ workRequests' = workRequests \ {p}
      /\ \A k \in Jobs \ {j} : pc'[k] = pc[k] /\ polled'[k] = polled[k]
      /\ UNCHANGED <<maxima, cancelled, maximaPool, queue, requests, results>>
      /\ UNCHANGED <<wpc, wjob, left, dismissed, destroyed, service>>
  BY DEF PollDelete, Goto, TypeOK, workers, ending
<1> HIDE DEF p
<1>2. /\ p # None /\ pc[p] \in AfterPut /\ p # j
      /\ ~In(requests, p) /\ ~In(results, p)
      /\ \A w \in Workers : Busy(w) => wjob[w] # p
      /\ \A k \in Jobs \ {j} : polled[k] # p
  BY <1>1 DEF PlaceInv, PolledPlace, AfterPut, Waiting, p
<1>3. PlaceInv'
  <2>1. \A k \in Jobs : QueuedPlace(k)'
    BY <1>1 DEF PlaceInv, QueuedPlace, AfterPut, Waiting
  <2>2. \A w \in Workers : (Busy(w)' <=> Busy(w)) /\ (Working(w)' <=> Working(w))
    BY <1>1 DEF Busy, Working
  <2>3. \A w \in Workers : WorkerPlace(w)'
    <3>1. \A k \in Jobs : /\ pc[k] \in AfterPut => pc'[k] \in AfterPut
                          /\ pc[k] \in Waiting => pc'[k] \in Waiting
      BY <1>1 DEF AfterPut, Waiting
    <3>2. \A w \in Workers : WorkerPlace(w) /\ (Working(w) => Busy(w))
      BY DEF PlaceInv, Working, Busy
    <3> QED
      BY <1>1, <2>2, <3>1, <3>2, WorkerFrame DEF WorkerPlace
  <2>4. PolledPlace(j)'
    BY <1>1 DEF PolledPlace
  <2>5. \A k \in Jobs \ {j} : PolledPlace(k)'
    <3>1. \A k \in Jobs : pc[k] \in AfterPut => pc'[k] \in AfterPut
      BY <1>1 DEF AfterPut, Waiting
    <3>2. \A k \in Jobs : polled[k] # None => polled[k] \in Jobs
      BY DEF TypeOK
    <3> QED
      BY <1>1, <2>2, <3>1, <3>2 DEF PlaceInv, PolledPlace
  <2> QED
    BY <1>1, <2>1, <2>3, <2>4, <2>5 DEF PlaceInv
<1>4. \A k \in Jobs : pc'[k] \in Holding <=> pc[k] \in Holding
  BY <1>1 DEF Holding
<1>5. QueueInv'
  <2>1. ResultsAreOwn'
    BY <1>1, <1>4 DEF QueueInv, ResultsAreOwn, Holds
  <2> QED
    BY <1>1, <2>1 DEF QueueInv, Working
<1>6. OwnInv'
  BY <1>1, <1>4 DEF OwnInv, Holds
<1>7. RegisterInv'
  <2>1. ASSUME NEW k \in Jobs
        PROVE  \/ pc'[k] = "register"
               \/ k \in workRequests'
               \/ /\ \A l \in Jobs : polled'[l] # k
                  /\ ~In(requests', k) /\ ~In(results', k)
                  /\ \A w \in Workers : Busy(w)' => wjob'[w] # k
    BY <1>1, <1>2, NoneFact DEF RegisterInv, Busy, p
  <2> QED
    BY <2>1 DEF RegisterInv
<1> QED
  BY <1>3, <1>5, <1>6, <1>7

-----------------------------------------------------------------------------
(* RequestInv: the steps of run() that take an instance, use it and return it. *)

LEMMA AcquireKeeps ==
  ASSUME TypeOK, RequestInv, NEW j \in Jobs, Acquire(j)
  PROVE  RequestInv'
<1> USE DEF RequestInv
<1>1. PICK m \in maximaPool : /\ maxima' = [maxima EXCEPT ![j] = m]
                              /\ maximaPool' = maximaPool \ {m}
  BY DEF Acquire
<1>2. /\ pc[j] = "acquire" /\ pc'[j] = "put" /\ maxima'[j] = m
      /\ \A k \in Jobs \ {j} : pc'[k] = pc[k] /\ maxima'[k] = maxima[k]
      /\ UNCHANGED <<polled, cancelled, queue, requests, results, workRequests>>
      /\ UNCHANGED <<wpc, wjob, left, dismissed, destroyed, service>>
  BY <1>1 DEF Acquire, Goto, TypeOK, pool, workers, ending
<1>3. \A w \in Workers : (Busy(w)' <=> Busy(w)) /\ (Working(w)' <=> Working(w))
  BY <1>2 DEF Busy, Working
<1>4. \A k \in Jobs : /\ pc[k] \in AfterPut => pc'[k] \in AfterPut
                      /\ pc[k] \in Waiting => pc'[k] \in Waiting /\ k # j
                      /\ pc[k] = "register" => pc'[k] = "register"
                      /\ pc[k] = "pollDelete" <=> pc'[k] = "pollDelete"
                      /\ pc'[k] \in Holding <=> (pc[k] \in Holding \/ k = j)
                      /\ pc[j] \notin Holding
  BY <1>2 DEF AfterPut, Waiting, Holding
<1>5. SameQueues
  BY <1>2, SameFact
<1>6. PlaceInv'
  BY <1>2, <1>3, <1>4, <1>5, PlaceFrame
<1>7. QueueInv'
  <2>1. ResultsAreOwn'
    <3>1. ASSUME NEW n \in Instances, queue[n] # <<>>
          PROVE  \E k \in Jobs : /\ queue[n] = <<k>> /\ Holds(k, n)'
                                 /\ pc'[k] \in {"register", "wait", "interrupt", "collect"}
      <4>1. PICK k \in Jobs : /\ queue[n] = <<k>> /\ Holds(k, n)
                              /\ pc[k] \in {"register", "wait", "interrupt", "collect"}
        BY <3>1 DEF QueueInv, ResultsAreOwn
      <4> QED
        BY <1>2, <1>4, <4>1 DEF Holds, Waiting
    <3> QED
      BY <1>2, <3>1 DEF ResultsAreOwn
  <2>2. \A k \in Jobs : In(requests, k) => maxima'[k] = maxima[k]
    BY <1>2, <1>4 DEF PlaceInv, QueuedPlace
  <2>3. \A w \in Workers : Working(w) => maxima'[wjob[w]] = maxima[wjob[w]]
    BY <1>2, <1>4 DEF PlaceInv, WorkerPlace, Working, Busy
  <2> QED
    BY <1>2, <1>3, <2>1, <2>2, <2>3 DEF QueueInv
<1>8. OwnInv'
  <2>1. m \in Instances
    BY DEF TypeOK
  <2>2. (\A k \in Jobs : pc[k] \in Holding =>
           /\ maxima[k] \in Instances \ (maximaPool \cup destroyed)
           /\ \A l \in Jobs \ {k} : pc[l] \in Holding => maxima[l] # maxima[k])'
    BY <1>1, <1>2, <1>4, <2>1 DEF OwnInv
  <2>3. (\A n \in Instances : n \in maximaPool \cup destroyed \/ \E k \in Jobs : Holds(k, n))'
    BY <1>1, <1>2, <1>4 DEF OwnInv, Holds
  <2> QED
    BY <1>1, <1>2, <2>2, <2>3 DEF OwnInv
<1>9. RegisterInv'
  BY <1>2, <1>3, <1>4, <1>5, RegisterFrame
<1> QED
  BY <1>6, <1>7, <1>8, <1>9

LEMMA PutRequestKeeps ==
  ASSUME TypeOK, RequestInv, NEW j \in Jobs, PutRequest(j)
  PROVE  RequestInv'
<1> USE DEF RequestInv
<1>1. /\ pc[j] = "put" /\ pc'[j] = "register" /\ requests' = Append(requests, j)
      /\ \A k \in Jobs \ {j} : pc'[k] = pc[k]
      /\ UNCHANGED <<maxima, polled, cancelled, maximaPool, queue, results, workRequests>>
      /\ UNCHANGED <<wpc, wjob, left, dismissed, destroyed, service>>
  BY DEF PutRequest, Goto, TypeOK, workers, ending
<1>2. \A k \in Jobs : /\ pc[k] \in AfterPut => pc'[k] \in AfterPut /\ k # j
                      /\ pc[k] \in Waiting => pc'[k] \in Waiting
                      /\ pc'[j] \in Waiting /\ pc'[j] \in AfterPut
                      /\ pc[k] = "register" => pc'[k] = "register"
                      /\ pc[k] = "pollDelete" <=> pc'[k] = "pollDelete"
                      /\ pc'[k] \in Holding <=> pc[k] \in Holding
                      /\ pc[j] \in Holding
  BY <1>1 DEF AfterPut, Waiting, Holding
<1>3. \A w \in Workers : (Busy(w)' <=> Busy(w)) /\ (Working(w)' <=> Working(w))
  BY <1>1 DEF Busy, Working
<1>4. /\ ~In(requests, j) /\ ~In(results, j)
      /\ \A w \in Workers : Busy(w) => wjob[w] # j
      /\ \A k \in Jobs : polled[k] # None => polled[k] # j
  BY <1>2 DEF PlaceInv, QueuedPlace, WorkerPlace, PolledPlace, AfterPut
<1>5. /\ \A x : In(requests', x) <=> In(requests, x) \/ x = j
      /\ Distinct(requests')
  BY <1>1, <1>4, AppendFact DEF PlaceInv, TypeOK
<1>6. PlaceInv'
  <2>1. \A k \in Jobs : QueuedPlace(k)'
    BY <1>1, <1>2, <1>4, <1>5 DEF PlaceInv, QueuedPlace
  <2>2. ASSUME NEW w \in Workers
        PROVE  WorkerPlace(w)'
    <3>1. WorkerPlace(w) /\ (Working(w) => Busy(w))
      BY DEF PlaceInv, Working, Busy
    <3>2. /\ Busy(w) => /\ pc'[wjob[w]] \in AfterPut
                        /\ ~In(requests', wjob[w]) /\ ~In(results', wjob[w])
          /\ Working(w) => pc'[wjob[w]] \in Waiting
      BY <1>1, <1>2, <1>4, <1>5, <3>1 DEF WorkerPlace
    <3> QED
      BY <1>1, <1>3, <3>2, WorkerFrame
  <2>3. ASSUME NEW k \in Jobs
        PROVE  PolledPlace(k)'
    <3>1. PolledPlace(k) /\ (polled[k] # None => polled[k] \in Jobs)
      BY DEF PlaceInv, TypeOK
    <3>2. polled[k] # None =>
             /\ pc'[polled[k]] \in AfterPut
             /\ ~In(requests', polled[k]) /\ ~In(results', polled[k])
             /\ \A w \in Workers : Busy(w)' => wjob'[w] # polled[k]
             /\ \A l \in Jobs \ {k} : polled'[l] # polled[k]
      BY <1>1, <1>2, <1>3, <1>4, <1>5, <3>1 DEF PolledPlace
    <3> QED
      BY <1>1, <1>2, <3>2, PolledFrame
  <2> QED
    BY <1>1, <1>5, <2>1, <2>2, <2>3 DEF PlaceInv
<1>7. queue[maxima[j]] = <<>>
  BY <1>1, <1>2 DEF QueueInv, ResultsAreOwn, OwnInv, Holds, Waiting
<1>8. QueueInv'
  <2>1. ResultsAreOwn'
    BY <1>1, <1>2 DEF QueueInv, ResultsAreOwn, Holds, Waiting
  <2> QED
    BY <1>1, <1>3, <1>5, <1>7, <2>1 DEF QueueInv
<1>9. OwnInv'
  BY <1>1, <1>2 DEF OwnInv, Holds
<1>10. RegisterInv'
  BY <1>1, <1>2, <1>3, <1>5 DEF RegisterInv
<1> QED
  BY <1>6, <1>8, <1>9, <1>10

LEMMA TakeKeeps ==
  ASSUME TypeOK, RequestInv, NEW j \in Jobs, TakeResult(j) \/ Collect(j)
  PROVE  RequestInv'
<1> USE DEF RequestInv
<1>1. /\ pc[j] \in {"wait", "collect"} /\ pc'[j] = "release"
      /\ queue[maxima[j]] # <<>>
      /\ queue' = [queue EXCEPT ![maxima[j]] = Tail(@)]
      /\ \A k \in Jobs \ {j} : pc'[k] = pc[k]
      /\ UNCHANGED <<maxima, polled, cancelled, maximaPool, requests, results>>
      /\ UNCHANGED <<workRequests, wpc, wjob, left, dismissed, destroyed, service>>
  BY DEF TakeResult, Collect, Goto, TypeOK, pool, workers, ending
<1>2. \A k \in Jobs : /\ pc[k] \in AfterPut => pc'[k] \in AfterPut
                      /\ pc[k] \in Waiting => pc'[k] \in Waiting \/ k = j
                      /\ pc[k] = "register" => pc'[k] = "register"
                      /\ pc[k] = "pollDelete" <=> pc'[k] = "pollDelete"
                      /\ pc'[k] \in Holding <=> pc[k] \in Holding
                      /\ pc[j] \in Holding
  BY <1>1 DEF AfterPut, Waiting, Holding
<1>3. \A w \in Workers : (Busy(w)' <=> Busy(w)) /\ (Working(w)' <=> Working(w))
  BY <1>1 DEF Busy, Working
<1>4. maxima[j] \in Instances
  BY <1>2 DEF OwnInv
<1>5. queue[maxima[j]] = <<j>>
  BY <1>1, <1>2, <1>4 DEF QueueInv, ResultsAreOwn, OwnInv, Holds
<1>6. queue'[maxima[j]] = <<>> /\ \A n \in Instances \ {maxima[j]} : queue'[n] = queue[n]
  BY <1>1, <1>4, <1>5 DEF TypeOK
<1>7. ~In(requests, j) /\ \A w \in Workers : Working(w) => wjob[w] # j
  BY <1>1 DEF QueueInv
<1>8. SameQueues
  BY <1>1, SameFact
<1>9. PlaceInv'
  BY <1>1, <1>2, <1>3, <1>7, <1>8, PlaceFrame
<1>10. QueueInv'
  <2>1. ResultsAreOwn'
    <3>1. ASSUME NEW n \in Instances, queue'[n] # <<>>
          PROVE  \E k \in Jobs : /\ queue'[n] = <<k>> /\ Holds(k, n)'
                                 /\ pc'[k] \in {"register", "wait", "interrupt", "collect"}
      <4>1. n # maxima[j] /\ queue'[n] = queue[n]
        BY <1>6, <3>1
      <4>2. PICK k \in Jobs : /\ queue[n] = <<k>> /\ Holds(k, n)
                              /\ pc[k] \in {"register", "wait", "interrupt", "collect"}
        BY <3>1, <4>1 DEF QueueInv, ResultsAreOwn
      <4>3. k # j
        BY <4>1, <4>2 DEF Holds
      <4> QED
        BY <1>1, <4>1, <4>2, <4>3 DEF Holds
    <3> QED
      BY <3>1 DEF ResultsAreOwn
  <2>2. \A k \in Jobs : In(requests, k) => maxima[k] \in Instances
    BY DEF PlaceInv, QueuedPlace, OwnInv, Waiting, Holding
  <2>3. \A w \in Workers : Working(w) => maxima[wjob[w]] \in Instances
    BY DEF PlaceInv, WorkerPlace, OwnInv, Waiting, Holding, Working, Busy
  <2>4. \A n \in Instances : queue[n] = <<>> => queue'[n] = <<>>
    BY <1>6
  <2> QED
    BY <1>1, <1>3, <2>1, <2>2, <2>3, <2>4 DEF QueueInv
<1>11. OwnInv'
  BY <1>1, <1>2 DEF OwnInv, Holds
<1>12. RegisterInv'
  BY <1>1, <1>2, <1>3, <1>8, RegisterFrame
<1> QED
  BY <1>9, <1>10, <1>11, <1>12

LEMMA ReleaseKeeps ==
  ASSUME TypeOK, RequestInv, NEW j \in Jobs, Release(j)
  PROVE  RequestInv'
<1> USE DEF RequestInv
<1>1. /\ pc[j] = "release" /\ pc'[j] = "ended"
      /\ maximaPool' = maximaPool \cup {maxima[j]}
      /\ \A k \in Jobs \ {j} : pc'[k] = pc[k]
      /\ UNCHANGED <<maxima, polled, cancelled, queue, requests, results>>
      /\ UNCHANGED <<workRequests, wpc, wjob, left, dismissed, destroyed, service>>
  BY DEF Release, Goto, TypeOK, pool, workers, ending
<1>2. \A k \in Jobs : /\ pc[k] \in AfterPut => pc'[k] \in AfterPut
                      /\ pc[k] \in Waiting => pc'[k] \in Waiting
                      /\ pc[k] = "register" => pc'[k] = "register"
                      /\ pc[k] = "pollDelete" <=> pc'[k] = "pollDelete"
                      /\ pc'[k] \in Holding <=> (pc[k] \in Holding /\ k # j)
                      /\ pc[j] \in Holding
  BY <1>1 DEF AfterPut, Waiting, Holding
<1>3. \A w \in Workers : (Busy(w)' <=> Busy(w)) /\ (Working(w)' <=> Working(w))
  BY <1>1 DEF Busy, Working
<1>4. SameQueues
  BY <1>1, SameFact
<1>5. PlaceInv'
  BY <1>1, <1>2, <1>3, <1>4, PlaceFrame
<1>6. QueueInv'
  <2>1. ResultsAreOwn'
    BY <1>1, <1>2 DEF QueueInv, ResultsAreOwn, Holds, Waiting
  <2> QED
    BY <1>1, <1>3, <2>1 DEF QueueInv
<1>7. OwnInv'
  BY <1>1, <1>2 DEF OwnInv, Holds
<1>8. RegisterInv'
  BY <1>1, <1>2, <1>3, <1>4, RegisterFrame
<1> QED
  BY <1>5, <1>6, <1>7, <1>8

-----------------------------------------------------------------------------
(* RequestInv: the steps of the workers. *)

LEMMA WorkerGetKeeps ==
  ASSUME TypeOK, RequestInv, NEW w \in Workers, WorkerGet(w)
  PROVE  RequestInv'
<1> USE DEF RequestInv
<1> DEFINE h == Head(requests)
<1>1. /\ wpc[w] = "get" /\ requests # <<>>
      /\ UNCHANGED <<pc, maxima, polled, cancelled, maximaPool, queue, results>>
      /\ UNCHANGED <<workRequests, dismissed, destroyed, service>>
  BY DEF WorkerGet, WorkerGoto, run, ending
<1>2. /\ h \in Jobs /\ In(requests, h)
      /\ Tail(requests) \in Seq(Jobs) /\ Distinct(Tail(requests))
      /\ \A x : In(Tail(requests), x) <=> In(requests, x) /\ x # h
  BY <1>1, TailFact DEF TypeOK, PlaceInv
<1>3. \A v \in Workers \ {w} : (Busy(v)' <=> Busy(v)) /\ (Working(v)' <=> Working(v))
  BY DEF WorkerGet, WorkerGoto, Busy, Working, TypeOK
<1>4. ~Busy(w) /\ ~Working(w)
  BY <1>1 DEF Busy, Working
<1>5. CASE w \in dismissed
  <2>1. /\ requests' = Append(Tail(requests), h) /\ wjob' = wjob
        /\ ~Busy(w)' /\ ~Working(w)'
    BY <1>5 DEF WorkerGet, WorkerGoto, Busy, Working, TypeOK
  <2> HIDE DEF h
  <2>2. /\ \A x : In(requests', x) <=> In(requests, x)
        /\ Distinct(requests')
    BY <1>2, <2>1, AppendFact
  <2>3. SameQueues
    BY <1>1, <2>2 DEF SameQueues, PlaceInv
  <2> QED
    BY <1>1, <1>3, <1>4, <2>1, <2>3, FrameKeeps
<1>6. CASE w \notin dismissed
  <2>1. /\ requests' = Tail(requests) /\ wjob'[w] = h
        /\ \A v \in Workers \ {w} : wjob'[v] = wjob[v]
        /\ Busy(w)' /\ Working(w)'
    BY <1>6 DEF WorkerGet, WorkerGoto, Busy, Working, TypeOK
  <2> HIDE DEF h
  <2>2. /\ pc[h] \in Waiting /\ pc[h] \in AfterPut /\ ~In(results, h)
        /\ \A v \in Workers : Busy(v) => wjob[v] # h
        /\ \A k \in Jobs : polled[k] # None => polled[k] # h
    BY <1>2 DEF PlaceInv, QueuedPlace, WorkerPlace, PolledPlace, AfterPut
  <2>3. PlaceInv'
    <3>1. \A k \in Jobs : QueuedPlace(k)'
      BY <1>1, <1>2, <2>1 DEF PlaceInv, QueuedPlace
    <3>2. WorkerPlace(w)'
      BY <1>1, <1>2, <1>3, <2>1, <2>2 DEF WorkerPlace
    <3>3. ASSUME NEW v \in Workers \ {w}
          PROVE  WorkerPlace(v)'
      <4>1. WorkerPlace(v)
        BY DEF PlaceInv
      <4> QED
        BY <1>1, <1>2, <1>3, <2>1, <2>2, <4>1 DEF WorkerPlace
    <3>4. \A k \in Jobs : PolledPlace(k)'
      <4>1. ASSUME NEW k \in Jobs, polled[k] # None
            PROVE  /\ ~In(requests', polled[k])
                   /\ \A v \in Workers : Busy(v)' => wjob'[v] # polled[k]
        <5>1. PolledPlace(k) /\ polled[k] # h
          BY <2>2, <4>1 DEF PlaceInv
        <5> QED
          BY <1>2, <1>3, <2>1, <4>1, <5>1 DEF PolledPlace
      <4> QED
        BY <1>1, <4>1 DEF PlaceInv, PolledPlace
    <3> QED
      BY <1>1, <1>2, <2>1, <3>1, <3>2, <3>3, <3>4 DEF PlaceInv
  <2>4. QueueInv'
    <3>1. ResultsAreOwn'
      BY <1>1 DEF QueueInv, ResultsAreOwn, Holds
    <3>2. \A v \in Workers : Working(v)' => queue[maxima[wjob'[v]]] = <<>>
      BY <1>2, <1>3, <2>1 DEF QueueInv
    <3> QED
      BY <1>1, <1>2, <2>1, <3>1, <3>2 DEF QueueInv
  <2>5. OwnInv'
    BY <1>1 DEF OwnInv, Holds
  <2>6. RegisterInv'
    BY <1>1, <1>2, <1>3, <2>1 DEF RegisterInv
  <2> QED
    BY <2>3, <2>4, <2>5, <2>6
<1> QED
  BY <1>5, <1>6

LEMMA PutAnswerKeeps ==
  ASSUME TypeOK, RequestInv, NEW w \in Workers, PutAnswer(w)
  PROVE  RequestInv'
<1> USE DEF RequestInv
<1> DEFINE j == wjob[w]
           m == maxima[j]
<1>1. /\ wpc[w] = "answer" /\ queue' = [queue EXCEPT ![m] = <<j>>]
      /\ \A v \in Workers \ {w} : wpc'[v] = wpc[v]
      /\ wpc'[w] = "report"
      /\ UNCHANGED <<pc, maxima, polled, cancelled, maximaPool, requests, results>>
      /\ UNCHANGED <<workRequests, wjob, left, dismissed, destroyed, service>>
  BY DEF PutAnswer, WorkerGoto, TypeOK, run, pool, ending
<1>2. Working(w) /\ Busy(w) /\ ~Working(w)'
  BY <1>1 DEF Working, Busy
<1>3. \A v \in Workers : /\ (Busy(v)' <=> Busy(v)) /\ (Working(v)' => Working(v))
                         /\ Working(v)' => v # w
  BY <1>1, <1>2 DEF Busy, Working
<1>4. /\ j \in Jobs /\ pc[j] \in Waiting /\ pc[j] \in Holding
      /\ ~In(requests, j)
      /\ \A v \in Workers \ {w} : Working(v) => wjob[v] # j
  BY <1>2 DEF PlaceInv, WorkerPlace, Waiting, Holding, Working, Busy
<1>5. m \in Instances
  BY <1>4 DEF OwnInv
<1> HIDE DEF j, m
<1>6. queue'[m] = <<j>> /\ \A n \in Instances \ {m} : queue'[n] = queue[n]
  BY <1>1, <1>5 DEF TypeOK
<1>7. SameQueues
  BY <1>1, SameFact
<1>8. PlaceInv'
  BY <1>1, <1>3, <1>7, PlaceFrame
<1>9. \A k \in Jobs \ {j} : pc[k] \in Waiting => maxima[k] \in Instances \ {m}
  BY <1>4 DEF OwnInv, Waiting, Holding, m
<1>10. QueueInv'
  <2>1. ResultsAreOwn'
    <3>1. ASSUME NEW n \in Instances, queue'[n] # <<>>
          PROVE  \E k \in Jobs : /\ queue'[n] = <<k>> /\ Holds(k, n)'
                                 /\ pc'[k] \in {"register", "wait", "interrupt", "collect"}
      <4>1. CASE n = m
        BY <1>1, <1>4, <1>6, <4>1 DEF Holds, Waiting, m
      <4>2. CASE n # m
        BY <1>1, <1>6, <3>1, <4>2 DEF QueueInv, ResultsAreOwn, Holds
      <4> QED
        BY <4>1, <4>2
    <3> QED
      BY <3>1 DEF ResultsAreOwn
  <2>2. \A k \in Jobs : In(requests, k) => maxima[k] \in Instances \ {m}
    BY <1>4, <1>9 DEF PlaceInv, QueuedPlace
  <2>3. \A v \in Workers : Working(v)' => maxima[wjob[v]] \in Instances \ {m}
    BY <1>3, <1>4, <1>9 DEF PlaceInv, WorkerPlace, Working, Busy
  <2> QED
    BY <1>1, <1>3, <1>6, <2>1, <2>2, <2>3 DEF QueueInv
<1>11. OwnInv'
  BY <1>1 DEF OwnInv, Holds
<1>12. RegisterInv'
  BY <1>1, <1>3, <1>7, RegisterFrame
<1> QED
  BY <1>8, <1>10, <1>11, <1>12

LEMMA PutResultKeeps ==
  ASSUME TypeOK, RequestInv, NEW w \in Workers, PutResult(w)
  PROVE  RequestInv'
<1> USE DEF RequestInv
<1> DEFINE j == wjob[w]
<1>1. /\ wpc[w] = "report" /\ results' = Append(results, j)
      /\ \A v \in Workers \ {w} : wpc'[v] = wpc[v]
      /\ wpc'[w] = "loop"
      /\ UNCHANGED <<pc, maxima, polled, cancelled, maximaPool, queue, requests>>
      /\ UNCHANGED <<workRequests, wjob, left, dismissed, destroyed, service>>
  BY DEF PutResult, WorkerGoto, TypeOK, run, ending
<1>2. Busy(w) /\ ~Working(w) /\ ~Working(w)' /\ ~Busy(w)'
  BY <1>1 DEF Working, Busy
<1>3. \A v \in Workers : /\ (Busy(v)' => Busy(v)) /\ (Working(v)' <=> Working(v))
                         /\ Busy(v)' => v # w
                         /\ v # w => (Busy(v)' <=> Busy(v))
  BY <1>1, <1>2 DEF Busy, Working
<1>4. /\ j \in Jobs /\ pc[j] \in AfterPut /\ ~In(requests, j) /\ ~In(results, j)
      /\ \A v \in Workers \ {w} : Busy(v) => wjob[v] # j
      /\ \A k \in Jobs : polled[k] # None => polled[k] # j
  BY <1>2 DEF PlaceInv, WorkerPlace, PolledPlace
<1> HIDE DEF j
<1>5. /\ \A x : In(results', x) <=> In(results, x) \/ x = j
      /\ Distinct(results')
  BY <1>1, <1>4, AppendFact DEF TypeOK, PlaceInv
<1>6. PlaceInv'
  <2>1. \A k \in Jobs : QueuedPlace(k)'
    BY <1>1, <1>4, <1>5 DEF PlaceInv, QueuedPlace
  <2>2. ASSUME NEW v \in Workers
        PROVE  WorkerPlace(v)'
    <3>1. WorkerPlace(v) /\ (Working(v) => Busy(v)) /\ (Busy(v)' => wjob[v] # j)
      BY <1>3, <1>4 DEF PlaceInv, Working, Busy
    <3> QED
      BY <1>1, <1>3, <1>5, <3>1 DEF WorkerPlace
  <2>3. ASSUME NEW k \in Jobs
        PROVE  PolledPlace(k)'
    <3>1. PolledPlace(k) /\ (polled[k] # None => polled[k] # j)
      BY <1>4 DEF PlaceInv
    <3> QED
      BY <1>1, <1>3, <1>5, <3>1 DEF PolledPlace
  <2> QED
    BY <1>1, <1>5, <2>1, <2>2, <2>3 DEF PlaceInv
<1>7. QueueInv'
  <2>1. ResultsAreOwn'
    BY <1>1 DEF QueueInv, ResultsAreOwn, Holds
  <2> QED
    BY <1>1, <1>3, <2>1 DEF QueueInv
<1>8. OwnInv'
  BY <1>1 DEF OwnInv, Holds
<1>9. RegisterInv'
  <2>1. ASSUME NEW k \in Jobs
        PROVE  \/ pc[k] = "register"
               \/ k \in workRequests
               \/ /\ \A l \in Jobs : polled[l] # k
                  /\ ~In(requests, k) /\ ~In(results', k)
                  /\ \A v \in Workers : Busy(v)' => wjob[v] # k
    BY <1>2, <1>3, <1>5 DEF RegisterInv, j
  <2> QED
    BY <1>1, <2>1 DEF RegisterInv
<1> QED
  BY <1>6, <1>7, <1>8, <1>9

LEMMA DestroyInstanceKeeps ==
  ASSUME TypeOK, RequestInv, DestroyInstance
  PROVE  RequestInv'
<1> USE DEF RequestInv
<1>1. PICK m \in maximaPool : /\ maximaPool' = maximaPool \ {m}
                              /\ destroyed' = destroyed \cup {m}
  BY DEF DestroyInstance
<1>2. /\ UNCHANGED <<pc, maxima, polled, cancelled, queue, requests, results>>
      /\ UNCHANGED <<workRequests, wpc, wjob, left, dismissed, service>>
  BY DEF DestroyInstance, run, pool, workers
<1>3. \A w \in Workers : (Busy(w)' <=> Busy(w)) /\ (Working(w)' <=> Working(w))
  BY <1>2 DEF Busy, Working
<1>4. SameQueues
  BY <1>2, SameFact
<1>5. PlaceInv'
  BY <1>2, <1>3, <1>4, PlaceFrame
<1>6. QueueInv'
  <2>1. ResultsAreOwn'
    BY <1>2 DEF QueueInv, ResultsAreOwn, Holds
  <2> QED
    BY <1>2, <1>3, <2>1 DEF QueueInv
<1>7. OwnInv'
  <2>1. m \in maximaPool /\ m \notin destroyed
    BY DEF OwnInv
  <2>2. maximaPool' \cup destroyed' = maximaPool \cup destroyed
        /\ maximaPool' \cap destroyed' = {}
    BY <1>1, <2>1 DEF OwnInv
  <2> QED
    BY <1>2, <2>2 DEF OwnInv, Holds
<1>8. RegisterInv'
  BY <1>2, <1>3, <1>4, RegisterFrame
<1> QED
  BY <1>5, <1>6, <1>7, <1>8

-----------------------------------------------------------------------------
(* RequestInv: the other steps. *)

LEMMA RunKeepsRequests ==
  ASSUME TypeOK, RequestInv, NEW j \in Jobs, Start(j) \/ Run(j) \/ Cancel(j)
  PROVE  RequestInv'
<1> DEFINE Frame ==
             /\ UNCHANGED <<maxima, polled, maximaPool, queue, requests, results, wjob,
                            destroyed>>
             /\ workRequests \subseteq workRequests'
             /\ \A k \in Jobs : /\ pc[k] \in AfterPut => pc'[k] \in AfterPut
                                /\ pc[k] \in Waiting => pc'[k] \in Waiting
                                /\ pc[k] \in Holding <=> pc'[k] \in Holding
                                /\ pc[k] = "register" =>
                                     pc'[k] = "register" \/ k \in workRequests'
                                /\ pc[k] = "pollDelete" <=> pc'[k] = "pollDelete"
             /\ \A w \in Workers : (Working(w)' => Working(w)) /\ (Busy(w)' => Busy(w))
<1>1. CASE Start(j) \/ Poll(j) \/ CancelAcquire(j) \/ CancelWait(j) \/ Cancel(j)
  <2>1. Frame
    BY <1>1 DEF Start, Poll, CancelAcquire, CancelWait, Cancel, Goto, TypeOK, Holding,
                AfterPut, Waiting, Working, Busy, pool, workers, ending
  <2> QED
    BY <2>1, SameFact, FrameKeeps DEF RequestInv
<1>2. CASE PollGet(j)
  <2>1. CASE results = <<>>
    <3>1. Frame
      BY <1>2, <2>1 DEF PollGet, Goto, TypeOK, Holding, AfterPut, Waiting, Working, Busy,
                        workers, ending
    <3> QED
      BY <3>1, SameFact, FrameKeeps DEF RequestInv
  <2> QED
    BY <1>2, <2>1, PollGetKeeps
<1>3. CASE Register(j)
  <2>1. Frame
    BY <1>3 DEF Register, Goto, TypeOK, Holding, AfterPut, Waiting, Working, Busy,
                workers, ending
  <2> QED
    BY <2>1, SameFact, FrameKeeps DEF RequestInv
<1>4. CASE InterruptMaxima(j)
  <2>1. /\ UNCHANGED <<maxima, polled, maximaPool, queue, requests, results, wjob,
                       destroyed, workRequests>>
        /\ pc[j] = "interrupt" /\ pc'[j] = "collect"
        /\ \A k \in Jobs \ {j} : pc'[k] = pc[k]
    BY <1>4 DEF InterruptMaxima, Goto, TypeOK, pool, ending
  <2>2. \A w \in Workers : (Working(w)' => Working(w)) /\ (Busy(w)' => Busy(w))
    <3>1. CASE UNCHANGED wpc
      BY <3>1 DEF Working, Busy
    <3>2. ASSUME NEW v \in Workers, Executes(v, j), wpc' = [wpc EXCEPT ![v] = "answer"]
          PROVE  \A w \in Workers : (Working(w)' => Working(w)) /\ (Busy(w)' => Busy(w))
      BY <3>2 DEF Executes, Working, Busy, TypeOK
    <3> QED
      BY <1>4, <3>1, <3>2 DEF InterruptMaxima
  <2>3. Frame
    BY <2>1, <2>2 DEF Holding, AfterPut, Waiting
  <2> QED
    BY <2>3, SameFact, FrameKeeps DEF RequestInv
<1> QED
  BY <1>1, <1>2, <1>3, <1>4, PollDeleteKeeps, AcquireKeeps, PutRequestKeeps, TakeKeeps,
     ReleaseKeeps DEF Run

LEMMA WorkKeepsRequests ==
  ASSUME TypeOK, RequestInv, NEW w \in Workers, Work(w)
  PROVE  RequestInv'
<1>1. CASE WorkerLoop(w) \/ WorkerTimeout(w) \/ ExecuteCommand(w) \/ CommandDone(w)
  <2>1. UNCHANGED <<run, maximaPool, queue, pool, wjob, destroyed>>
    BY <1>1 DEF WorkerLoop, WorkerTimeout, ExecuteCommand, CommandDone, ending
  <2>2. \A v \in Workers : (Working(v)' => Working(v)) /\ (Busy(v)' => Busy(v))
    BY <1>1 DEF WorkerLoop, WorkerTimeout, ExecuteCommand, CommandDone, WorkerGoto,
                Working, Busy, TypeOK
  <2> QED
    BY <2>1, <2>2, SameFact, FrameKeeps DEF run, pool, RequestInv
<1> QED
  BY <1>1, WorkerGetKeeps, PutAnswerKeeps, PutResultKeeps DEF Work

LEMMA EndingKeepsRequests ==
  ASSUME TypeOK, RequestInv, Ending
  PROVE  RequestInv'
<1>1. CASE Destroy \/ (\E w \in Workers : Dismiss(w)) \/ Join \/ Down
  <2>1. UNCHANGED <<run, maximaPool, queue, pool, workers, destroyed>>
    BY <1>1 DEF Destroy, Dismiss, Join, Down
  <2>2. \A v \in Workers : (Working(v)' => Working(v)) /\ (Busy(v)' => Busy(v))
    BY <2>1 DEF workers, Working, Busy
  <2> QED
    BY <2>1, <2>2, SameFact, FrameKeeps DEF run, pool, workers, RequestInv
<1> QED
  BY <1>1, DestroyInstanceKeeps DEF Ending

-----------------------------------------------------------------------------
(* The inductive invariant. *)

LEMMA InitEstablishes ==
  ASSUME Init
  PROVE  IInv
<1>1. TypeOK
  <2>1. left \in [Workers -> 0..Commands]
    BY CommandsFact DEF Init
  <2>2. queue \in [Instances -> Seq(Jobs)] /\ requests \in Seq(Jobs) /\ results \in Seq(Jobs)
    BY DEF Init
  <2> QED
    BY <2>1, <2>2 DEF Init, TypeOK
<1>2. \A x : ~In(requests, x) /\ ~In(results, x)
  BY DEF Init, In
<1>3. Distinct(requests) /\ Distinct(results)
  BY DEF Init, Distinct
<1>4. \A w \in Workers : ~Busy(w) /\ ~Working(w)
  BY DEF Init, Busy, Working
<1>5. PlaceInv
  BY <1>2, <1>3, <1>4 DEF Init, PlaceInv, QueuedPlace, WorkerPlace, PolledPlace
<1>6. QueueInv
  BY <1>2, <1>4 DEF Init, QueueInv, ResultsAreOwn
<1>7. OwnInv
  BY DEF Init, OwnInv, Holding
<1>8. RegisterInv
  BY <1>2, <1>4, NoneFact DEF Init, RegisterInv
<1>9. EndInv
  BY DEF Init, EndInv
<1> QED
  BY <1>1, <1>5, <1>6, <1>7, <1>8, <1>9 DEF IInv, RequestInv

LEMMA EndKept ==
  ASSUME TypeOK, EndInv, Next
  PROVE  EndInv'
<1> SUFFICES ASSUME ~EarlyDestroy PROVE EndInv'
  BY DEF EndInv
<1>1. /\ service # "up" => \A j \in Jobs : pc[j] \in {"new", "ended", "failed"}
      /\ service = "down" => maximaPool = {}
  BY DEF EndInv
<1>2. ASSUME NEW j \in Jobs, Start(j) \/ Run(j) \/ Cancel(j)
      PROVE  EndInv'
  <2>1. UNCHANGED service
    BY <1>2 DEF Start, Run, Poll, PollGet, PollDelete, Acquire, CancelAcquire, PutRequest,
                Register, TakeResult, CancelWait, InterruptMaxima, Collect, Release,
                Cancel, ending
  <2>2. pc[j] \notin {"new", "ended", "failed"} \/ service = "up"
    BY <1>2 DEF Start, Run, Poll, PollGet, PollDelete, Acquire, CancelAcquire, PutRequest,
                Register, TakeResult, CancelWait, InterruptMaxima, Collect, Release,
                Cancel, Goto
  <2>3. service = "up"
    BY <1>1, <2>2
  <2> QED
    BY <2>1, <2>3 DEF EndInv
<1>3. ASSUME NEW w \in Workers, Work(w)
      PROVE  EndInv'
  <2>1. UNCHANGED <<run, maximaPool, service>>
    BY <1>3 DEF Work, WorkerLoop, WorkerTimeout, WorkerGet, ExecuteCommand, CommandDone,
                PutAnswer, PutResult, ending
  <2> QED
    BY <1>1, <2>1 DEF EndInv, run
<1>4. CASE Ending
  <2>1. UNCHANGED pc
    BY <1>4 DEF Ending, Destroy, Dismiss, Join, DestroyInstance, Down, run
  <2>2. CASE service = "up"
    BY <1>4, <2>1, <2>2 DEF Ending, Destroy, Dismiss, Join, DestroyInstance, Down, EndInv
  <2>3. CASE service # "up"
    <3>1. service' = "down" => maximaPool' = {}
      BY <1>4, <1>1, <2>3 DEF Ending, Destroy, Dismiss, Join, DestroyInstance, Down
    <3> QED
      BY <1>1, <2>1, <2>3, <3>1 DEF EndInv
  <2> QED
    BY <2>2, <2>3
<1>5. CASE Over
  BY <1>1, <1>5 DEF Over, vars, run, ending, EndInv
<1> QED
  BY <1>2, <1>3, <1>4, <1>5 DEF Next

LEMMA StepKeeps ==
  ASSUME IInv, [Next]_vars
  PROVE  IInv'
<1> USE DEF IInv
<1>1. ASSUME NEW j \in Jobs, Start(j) \/ Run(j) \/ Cancel(j)
      PROVE  TypeOK' /\ RequestInv'
  BY <1>1, RunKeepsType, RunKeepsRequests
<1>2. ASSUME NEW w \in Workers, Work(w)
      PROVE  TypeOK' /\ RequestInv'
  BY <1>2, WorkKeepsType, WorkKeepsRequests
<1>3. ASSUME Ending
      PROVE  TypeOK' /\ RequestInv'
  BY <1>3, EndingKeepsType, EndingKeepsRequests
<1>4. CASE UNCHANGED vars
  <2>1. UNCHANGED <<run, maximaPool, queue, pool, workers, ending>>
    BY <1>4 DEF vars
  <2>2. TypeOK'
    BY <2>1 DEF TypeOK, run, pool, workers, ending
  <2>3. \A v \in Workers : (Working(v)' => Working(v)) /\ (Busy(v)' => Busy(v))
    BY <2>1 DEF workers, Working, Busy
  <2>4. RequestInv'
    BY <2>1, <2>3, SameFact, FrameKeeps DEF run, pool, workers, ending, RequestInv
  <2>5. EndInv'
    BY <2>1 DEF EndInv, run, ending
  <2> QED
    BY <2>2, <2>4, <2>5
<1>5. CASE Next
  <2>1. TypeOK' /\ RequestInv'
    BY <1>1, <1>2, <1>3, <1>4, <1>5 DEF Next, Over
  <2> QED
    BY <2>1, <1>5, EndKept
<1> QED
  BY <1>4, <1>5

\* The inductive invariant holds in every reachable state.
THEOREM Invariance == Spec => []IInv
<1>1. Init => IInv
  BY InitEstablishes
<1>2. IInv /\ [Next]_vars => IInv'
  BY StepKeeps
<1> QED
  BY <1>1, <1>2, PTL DEF Spec

-----------------------------------------------------------------------------
(* The theorems. *)

\* Every variable of the service keeps its type: a worker's job, a polled result and
\* the entries of the queues are requests, and what run() gives back is an instance.
THEOREM TypeCorrect == Spec => []TypeOK
<1>1. IInv => TypeOK
  BY DEF IInv
<1> QED
  BY <1>1, Invariance, PTL

\* The worker that executes commands on a Maxima is the only one that does, and the
\* call of run() it does so for still holds the instance, with jobs cancelled at any
\* moment and destroy() called at any moment (service.py, run, workerTask).
THEOREM InstancesUsedByOne == Spec => []ExclusiveUse
<1>1. IInv => ExclusiveUse
  <2> SUFFICES ASSUME IInv, NEW w \in Workers, Working(w)
               PROVE  /\ Holds(wjob[w], maxima[wjob[w]])
                      /\ maxima[wjob[w]] \notin maximaPool \cup destroyed
                      /\ \A v \in Workers \ {w} :
                           Working(v) => maxima[wjob[v]] # maxima[wjob[w]]
    BY DEF ExclusiveUse, Working
  <2>1. \A v \in Workers : Working(v) => wjob[v] \in Jobs /\ pc[wjob[v]] \in Holding
    BY DEF IInv, RequestInv, PlaceInv, WorkerPlace, Working, Busy, Waiting, Holding
  <2>2. \A v \in Workers \ {w} : Working(v) => wjob[v] # wjob[w]
    BY DEF IInv, RequestInv, PlaceInv, WorkerPlace, Working, Busy
  <2> QED
    BY <2>1, <2>2 DEF Holds, IInv, RequestInv, OwnInv
<1> QED
  BY <1>1, Invariance, PTL

\* A call of run() that finds a result in the queue of its instance finds its own:
\* an instance never goes back to the pool with a result in its queue or with a
\* worker that will still put one (service.py, run).
THEOREM OwnResults == Spec => []ResultsAreOwn
<1>1. IInv => ResultsAreOwn
  BY DEF IInv, RequestInv, QueueInv
<1> QED
  BY <1>1, Invariance, PTL

\* Each instance is in the pool, with exactly one call of run(), or destroyed: the
\* finally clause loses none and gives none back twice (service.py, run, destroy).
THEOREM InstancesCounted == Spec => []InstancesAccounted
<1>1. IInv => InstancesAccounted
  <2> SUFFICES ASSUME IInv, NEW m \in Instances
               PROVE  Cardinality({j \in Jobs : Holds(j, m)})
                        + (IF m \in maximaPool THEN 1 ELSE 0)
                        + (IF m \in destroyed THEN 1 ELSE 0) = 1
    BY DEF InstancesAccounted
  <2> DEFINE H == {j \in Jobs : Holds(j, m)}
  <2>1. ~(m \in maximaPool /\ m \in destroyed)
    BY DEF IInv, RequestInv, OwnInv
  <2>2. CASE m \in maximaPool \cup destroyed
    <3>1. H = {}
      BY <2>2 DEF IInv, RequestInv, OwnInv, Holds
    <3>2. Cardinality(H) = 0
      BY <3>1, FS_EmptySet
    <3> QED
      BY <2>1, <2>2, <3>2
  <2>3. CASE m \notin maximaPool \cup destroyed
    <3>1. PICK j \in Jobs : Holds(j, m)
      BY <2>3 DEF IInv, RequestInv, OwnInv
    <3>2. H = {j}
      BY <3>1 DEF IInv, RequestInv, OwnInv, Holds
    <3>3. Cardinality(H) = 1
      BY <3>2, FS_Singleton
    <3> QED
      BY <2>3, <3>3
  <2> QED
    BY <2>2, <2>3
<1> QED
  BY <1>1, Invariance, PTL

\* A request that is in a queue of the pool, or taken from one by poll(), has its
\* identifier in workRequests unless its own putRequest has not come to that line:
\* the KeyError of poll() has no other cause (threadpool.py, putRequest and poll).
THEOREM AllRegistered == Spec => []RequestsRegistered
<1>1. IInv => RequestsRegistered
  BY DEF IInv, RequestInv, RegisterInv, RequestsRegistered, In
<1> QED
  BY <1>1, Invariance, PTL

\* destroy() called after the last job leaves no Maxima: every instance of the pool
\* has been destroyed when it returns (service.py, destroy).
THEOREM NoneLeft ==
  ASSUME ~EarlyDestroy
  PROVE  Spec => []NoMaximaLeft
<1>1. IInv => NoMaximaLeft
  <2> SUFFICES ASSUME IInv, service = "down"
               PROVE  destroyed = Instances
    BY DEF NoMaximaLeft
  <2>1. maximaPool = {} /\ \A j \in Jobs : pc[j] \notin Holding
    BY DEF IInv, EndInv, Holding
  <2>2. Instances \subseteq destroyed
    BY <2>1 DEF IInv, RequestInv, OwnInv, Holds
  <2> QED
    BY <2>2 DEF IInv, TypeOK
<1> QED
  BY <1>1, Invariance, PTL

-----------------------------------------------------------------------------
(* The service implements JobService. *)

\* A command has been sent before there is an error or a last result to answer.
SentInv == \A w \in Workers : wpc[w] \in {"execute", "answer"} => left[w] < Commands

LEMMA SentKept ==
  ASSUME TypeOK, SentInv, [Next]_vars
  PROVE  SentInv'
<1> USE DEF SentInv
<1>1. ASSUME NEW j \in Jobs, Start(j) \/ Run(j) \/ Cancel(j)
      PROVE  SentInv'
  <2>1. CASE InterruptMaxima(j)
    BY <2>1 DEF InterruptMaxima, Executes, TypeOK
  <2>2. CASE ~InterruptMaxima(j)
    <3>1. UNCHANGED workers
      BY <1>1, <2>2 DEF Start, Run, Poll, PollGet, PollDelete, Acquire, CancelAcquire,
             PutRequest, Register, TakeResult, CancelWait, Collect, Release, Cancel
    <3> QED
      BY <3>1 DEF workers
  <2> QED
    BY <2>1, <2>2
<1>2. ASSUME NEW w \in Workers, Work(w)
      PROVE  SentInv'
  <2>1. CASE ExecuteCommand(w)
    BY <2>1, CommandsFact DEF ExecuteCommand, WorkerGoto, TypeOK
  <2>2. CASE WorkerGet(w)
    BY <2>2 DEF WorkerGet, WorkerGoto, TypeOK
  <2>3. CASE WorkerLoop(w) \/ WorkerTimeout(w) \/ CommandDone(w) \/ PutAnswer(w)
             \/ PutResult(w)
    BY <2>3 DEF WorkerLoop, WorkerTimeout, CommandDone, PutAnswer, PutResult,
                WorkerGoto, TypeOK
  <2> QED
    BY <1>2, <2>1, <2>2, <2>3 DEF Work
<1>3. CASE Ending \/ UNCHANGED vars
  BY <1>3 DEF Ending, Destroy, Dismiss, Join, DestroyInstance, Down, vars, workers
<1> QED
  BY <1>1, <1>2, <1>3 DEF Next, Over

LEMMA AlwaysSent == Spec => []SentInv
<1>1. Init => SentInv
  BY DEF Init, SentInv
<1>2. TypeOK /\ SentInv /\ [Next]_vars => SentInv'
  BY SentKept
<1> QED
  BY <1>1, <1>2, TypeCorrect, PTL DEF Spec

\* How a job is seen by JobService, before and after a step.
SamePhase(j) == jobPhase(j)' = jobPhase(j)
SameInstance(j) == jobInstance(j)' = jobInstance(j)
SameSent(j) == commandsSent(j)' = commandsSent(j)
SameJob(j) == SamePhase(j) /\ SameInstance(j) /\ SameSent(j)

LEMMA PlaceSeen ==
  ASSUME NEW k \in Jobs, maxima'[k] = maxima[k],
         pc[k] \in Holding => queue'[maxima[k]] = queue[maxima[k]],
         pc'[k] \in Holding <=> pc[k] \in Holding,
         pc'[k] = "release" <=> pc[k] = "release",
         pc'[k] \in {"ended", "failed"} <=> pc[k] \in {"ended", "failed"}
  PROVE  SamePhase(k) /\ SameInstance(k)
<1>1. SameInstance(k)
  BY DEF SameInstance, jobInstance
<1>2. CASE pc[k] \in {"ended", "failed"}
  <2>1. jobPhase(k) = "over" /\ jobPhase(k)' = "over"
    BY <1>2 DEF jobPhase, Holding
  <2> QED
    BY <1>1, <2>1 DEF SamePhase
<1>3. CASE pc[k] \notin {"ended", "failed"} /\ pc[k] \in Holding
  <2>1. pc'[k] \notin {"ended", "failed"} /\ pc'[k] \in Holding
    BY <1>3
  <2>2. CASE pc[k] = "release" \/ queue[maxima[k]] # <<>>
    <3>1. jobPhase(k) = "answered" /\ jobPhase(k)' = "answered"
      BY <1>3, <2>1, <2>2 DEF jobPhase
    <3> QED
      BY <1>1, <3>1 DEF SamePhase
  <2>3. CASE ~(pc[k] = "release" \/ queue[maxima[k]] # <<>>)
    <3>1. jobPhase(k) = "taken" /\ jobPhase(k)' = "taken"
      BY <1>3, <2>1, <2>3 DEF jobPhase
    <3> QED
      BY <1>1, <3>1 DEF SamePhase
  <2> QED
    BY <2>2, <2>3
<1>4. CASE pc[k] \notin {"ended", "failed"} /\ pc[k] \notin Holding
  <2>1. jobPhase(k) = "asked" /\ jobPhase(k)' = "asked"
    BY <1>4 DEF jobPhase
  <2> QED
    BY <1>1, <2>1 DEF SamePhase
<1> QED
  BY <1>1, <1>2, <1>3, <1>4

LEMMA WorkSeen ==
  ASSUME NEW k \in Jobs,
         \A w \in Workers :
           /\ Working(w)' /\ wjob'[w] = k <=> Working(w) /\ wjob[w] = k
           /\ Working(w) /\ wjob[w] = k => left'[w] = left[w]
  PROVE  SameSent(k)
<1>1. Computing(k)' = Computing(k)
  BY DEF Computing, Working
<1>2. CASE Computing(k) = {}
  BY <1>1, <1>2 DEF SameSent, commandsSent
<1>3. CASE Computing(k) # {}
  <2> DEFINE w == CHOOSE w \in Computing(k) : TRUE
  <2>1. w \in Computing(k)
    BY <1>3
  <2>2. left'[w] = left[w]
    BY <2>1 DEF Computing, Working
  <2>3. (CHOOSE v \in Computing(k)' : TRUE) = w
    BY <1>1
  <2> QED
    BY <1>1, <1>3, <2>2, <2>3 DEF SameSent, commandsSent
<1> QED
  BY <1>2, <1>3

\* A job that a worker computes has been sent what that worker has not left.
LEMMA ComputedFact ==
  ASSUME NEW k \in Jobs, NEW w \in Workers, Working(w), wjob[w] = k,
         \A v \in Workers \ {w} : Working(v) => wjob[v] # k
  PROVE  commandsSent(k) = Commands - left[w]
<1>1. Computing(k) = {w}
  BY DEF Computing, Working
<1>2. (CHOOSE v \in {w} : TRUE) = w
  OBVIOUS
<1> QED
  BY <1>1, <1>2 DEF commandsSent

LEMMA ComputedNext ==
  ASSUME NEW k \in Jobs, NEW w \in Workers, Working(w)', wjob'[w] = k,
         \A v \in Workers \ {w} : Working(v)' => wjob'[v] # k
  PROVE  commandsSent(k)' = Commands - left'[w]
<1>1. Computing(k)' = {w}
  BY DEF Computing, Working
<1>2. (CHOOSE v \in {w} : TRUE) = w
  OBVIOUS
<1> QED
  BY <1>1, <1>2 DEF commandsSent

LEMMA NotComputed ==
  ASSUME NEW k \in Jobs
  PROVE  /\ (\A w \in Workers : Working(w) => wjob[w] # k) => commandsSent(k) = 0
         /\ (\A w \in Workers : Working(w)' => wjob'[w] # k) => commandsSent(k)' = 0
BY DEF Computing, Working, commandsSent

LEMMA StutterSeen ==
  ASSUME \A k \in Jobs : SameJob(k), UNCHANGED maximaPool
  PROVE  UNCHANGED JobsServed!vars
BY DEF JobsServed!vars, SameJob, SamePhase, SameInstance, SameSent

\* The steps that JobService does not see: those of poll(), of putRequest, of an
\* interrupt, and the one that takes the answer from the queue.
LEMMA RunUnseen ==
  ASSUME IInv, NEW j \in Jobs,
         \/ Start(j) \/ Poll(j) \/ PollGet(j) \/ PutRequest(j) \/ Register(j)
         \/ CancelWait(j) \/ Cancel(j) \/ InterruptMaxima(j)
         \/ PollDelete(j) /\ polled[j] \in workRequests
  PROVE  UNCHANGED JobsServed!vars
<1>1. UNCHANGED <<maxima, maximaPool, queue, wjob, left>>
  BY DEF Start, Poll, PollGet, PutRequest, Register, CancelWait, Cancel,
         InterruptMaxima, PollDelete, workers, pool
<1>2. \A k \in Jobs : /\ pc'[k] \in Holding <=> pc[k] \in Holding
                      /\ pc'[k] = "release" <=> pc[k] = "release"
                      /\ pc'[k] \in {"ended", "failed"} <=> pc[k] \in {"ended", "failed"}
  BY DEF Start, Poll, PollGet, PutRequest, Register, CancelWait, Cancel,
         InterruptMaxima, PollDelete, Goto, Holding, IInv, TypeOK
<1>3. \A w \in Workers : Working(w)' <=> Working(w)
  <2>1. CASE UNCHANGED wpc
    BY <2>1 DEF Working
  <2>2. ASSUME NEW v \in Workers, Executes(v, j), wpc' = [wpc EXCEPT ![v] = "answer"]
        PROVE  \A w \in Workers : Working(w)' <=> Working(w)
    BY <2>2 DEF Executes, Working, IInv, TypeOK
  <2> QED
    BY <2>1, <2>2 DEF Start, Poll, PollGet, PutRequest, Register, CancelWait, Cancel,
       InterruptMaxima, PollDelete, workers
<1>4. ASSUME NEW k \in Jobs
      PROVE  SameJob(k)
  BY <1>1, <1>2, <1>3, PlaceSeen, WorkSeen DEF SameJob
<1> QED
  BY <1>1, <1>4, StutterSeen

LEMMA TakeUnseen ==
  ASSUME IInv, NEW j \in Jobs, TakeResult(j) \/ Collect(j)
  PROVE  UNCHANGED JobsServed!vars
<1>1. /\ pc[j] \in {"wait", "collect"} /\ pc' = [pc EXCEPT ![j] = "release"]
      /\ queue[maxima[j]] # <<>>
      /\ queue' = [queue EXCEPT ![maxima[j]] = Tail(@)]
      /\ UNCHANGED <<maxima, maximaPool, wpc, wjob, left>>
  BY DEF TakeResult, Collect, Goto, workers
<1>2. /\ pc'[j] = "release" /\ pc[j] \in Holding /\ pc'[j] \in Holding
      /\ \A k \in Jobs \ {j} : pc'[k] = pc[k]
  BY <1>1 DEF Holding, IInv, TypeOK
<1>3. \A k \in Jobs : SameSent(k)
  BY <1>1, WorkSeen DEF Working
<1>4. SamePhase(j) /\ SameInstance(j)
  BY <1>1, <1>2 DEF SamePhase, SameInstance, jobPhase, jobInstance
<1>5. ASSUME NEW k \in Jobs \ {j}
      PROVE  SamePhase(k) /\ SameInstance(k)
  <2>1. pc[k] \in Holding => queue'[maxima[k]] = queue[maxima[k]]
    BY <1>1, <1>2 DEF IInv, TypeOK, RequestInv, OwnInv
  <2> QED
    BY <1>1, <1>2, <2>1, PlaceSeen
<1> QED
  BY <1>1, <1>3, <1>4, <1>5, StutterSeen DEF SameJob

LEMMA WorkUnseen ==
  ASSUME IInv, NEW w \in Workers,
         WorkerLoop(w) \/ WorkerTimeout(w) \/ WorkerGet(w) \/ CommandDone(w) \/ PutResult(w)
  PROVE  UNCHANGED JobsServed!vars
<1>1. UNCHANGED <<pc, maxima, maximaPool, queue>>
  BY DEF WorkerLoop, WorkerTimeout, WorkerGet, CommandDone, PutResult, run
<1>2. \A k \in Jobs : SamePhase(k) /\ SameInstance(k)
  BY <1>1, PlaceSeen
<1>3. \A k \in Jobs : SameSent(k)
  <2>1. CASE WorkerGet(w) /\ w \notin dismissed
    <3>1. /\ Working(w)' /\ ~Working(w) /\ left'[w] = Commands
          /\ wjob'[w] = Head(requests) /\ In(requests, Head(requests))
          /\ \A v \in Workers \ {w} : /\ Working(v)' <=> Working(v)
                                      /\ wjob'[v] = wjob[v] /\ left'[v] = left[v]
      BY <2>1, TailFact DEF WorkerGet, WorkerGoto, Working, IInv, TypeOK, RequestInv,
                            PlaceInv
    <3>2. ASSUME NEW k \in Jobs, k = Head(requests)
          PROVE  SameSent(k)
      <4>1. \A v \in Workers : Working(v) => wjob[v] # k
        BY <3>1, <3>2 DEF IInv, RequestInv, PlaceInv, WorkerPlace, Working, Busy
      <4>2. commandsSent(k) = 0
        BY <4>1, NotComputed
      <4>3. commandsSent(k)' = Commands - Commands
        BY <3>1, <3>2, <4>1, ComputedNext
      <4> QED
        BY <4>2, <4>3, CommandsFact DEF SameSent
    <3>3. ASSUME NEW k \in Jobs, k # Head(requests)
          PROVE  SameSent(k)
      BY <3>1, <3>3, WorkSeen
    <3> QED
      BY <3>2, <3>3
  <2>2. CASE ~(WorkerGet(w) /\ w \notin dismissed)
    <3>1. /\ UNCHANGED <<wjob, left>>
          /\ \A v \in Workers : Working(v)' <=> Working(v)
      BY <2>2 DEF WorkerLoop, WorkerTimeout, WorkerGet, CommandDone, PutResult,
                  WorkerGoto, Working, IInv, TypeOK
    <3> QED
      BY <3>1, WorkSeen
  <2> QED
    BY <2>1, <2>2
<1> QED
  BY <1>1, <1>2, <1>3, StutterSeen DEF SameJob

\* The steps that JobService sees.

LEMMA AcquireSeen ==
  ASSUME IInv, NEW j \in Jobs, Acquire(j)
  PROVE  \E m \in Instances : JobsServed!Take(j, m)
<1>1. PICK m \in maximaPool : /\ maxima' = [maxima EXCEPT ![j] = m]
                              /\ maximaPool' = maximaPool \ {m}
  BY DEF Acquire
<1>2. /\ pc[j] = "acquire" /\ pc'[j] = "put" /\ maxima'[j] = m /\ m \in Instances
      /\ \A k \in Jobs \ {j} : pc'[k] = pc[k] /\ maxima'[k] = maxima[k]
      /\ UNCHANGED <<queue, wpc, wjob, left>>
  BY <1>1 DEF Acquire, Goto, IInv, TypeOK, workers
<1>3. queue[m] = <<>>
  BY <1>2 DEF IInv, RequestInv, QueueInv, ResultsAreOwn, OwnInv, Holds
<1>4. /\ jobPhase(j) = "asked" /\ jobPhase(j)' = "taken" /\ jobInstance(j)' = m
  BY <1>2, <1>3 DEF jobPhase, jobInstance, Holding
<1>5. \A k \in Jobs \ {j} : jobPhase(k)' = jobPhase(k) /\ jobInstance(k)' = jobInstance(k)
  BY <1>2, PlaceSeen DEF SamePhase, SameInstance
<1>6. \A k \in Jobs : commandsSent(k)' = commandsSent(k)
  BY <1>2, WorkSeen DEF Working, SameSent
<1>7. JobsServed!Take(j, m)
  BY <1>1, <1>4, <1>5, <1>6 DEF JobsServed!Take, JobsServed!Step
<1> QED
  BY <1>2, <1>7

LEMMA GiveUpSeen ==
  ASSUME IInv, NEW j \in Jobs,
         CancelAcquire(j) \/ (PollDelete(j) /\ polled[j] \notin workRequests)
  PROVE  JobsServed!GiveUp(j)
<1>1. /\ pc[j] \in {"acquire", "pollDelete"} /\ pc'[j] \in {"ended", "failed"}
      /\ \A k \in Jobs \ {j} : pc'[k] = pc[k]
      /\ UNCHANGED <<maxima, maximaPool, queue, wpc, wjob, left>>
  BY DEF CancelAcquire, PollDelete, Goto, IInv, TypeOK, workers
<1>2. /\ jobPhase(j) = "asked" /\ jobPhase(j)' = "over"
      /\ jobInstance(j)' = jobInstance(j)
  BY <1>1 DEF jobPhase, jobInstance, Holding
<1>3. \A k \in Jobs \ {j} : jobPhase(k)' = jobPhase(k) /\ jobInstance(k)' = jobInstance(k)
  BY <1>1, PlaceSeen DEF SamePhase, SameInstance
<1>4. \A k \in Jobs : commandsSent(k)' = commandsSent(k)
  BY <1>1, WorkSeen DEF Working, SameSent
<1> QED
  BY <1>1, <1>2, <1>3, <1>4 DEF JobsServed!GiveUp, JobsServed!Step

LEMMA ReleaseSeen ==
  ASSUME IInv, NEW j \in Jobs, Release(j)
  PROVE  JobsServed!GiveBack(j)
<1>1. /\ pc[j] = "release" /\ pc'[j] = "ended"
      /\ maximaPool' = maximaPool \cup {maxima[j]}
      /\ \A k \in Jobs \ {j} : pc'[k] = pc[k]
      /\ UNCHANGED <<maxima, queue, wpc, wjob, left>>
  BY DEF Release, Goto, IInv, TypeOK, workers
<1>2. /\ jobPhase(j) = "answered" /\ jobPhase(j)' = "over"
      /\ jobInstance(j) = maxima[j] /\ jobInstance(j)' = None
  BY <1>1 DEF jobPhase, jobInstance, Holding
<1>3. \A k \in Jobs \ {j} : jobPhase(k)' = jobPhase(k) /\ jobInstance(k)' = jobInstance(k)
  BY <1>1, PlaceSeen DEF SamePhase, SameInstance
<1>4. \A k \in Jobs : commandsSent(k)' = commandsSent(k)
  BY <1>1, WorkSeen DEF Working, SameSent
<1> QED
  BY <1>1, <1>2, <1>3, <1>4 DEF JobsServed!GiveBack, JobsServed!Step

LEMMA ExecuteSeen ==
  ASSUME IInv, NEW w \in Workers, ExecuteCommand(w)
  PROVE  \E j \in Jobs : JobsServed!Execute(j)
<1>0. wjob[w] \in Jobs
  BY DEF ExecuteCommand, WorkerGoto, Busy, IInv, RequestInv, PlaceInv, WorkerPlace
<1> PICK j \in Jobs : wjob[w] = j
  BY <1>0
<1>1. /\ wpc[w] = "next" /\ wpc'[w] = "execute" /\ left[w] > 0 /\ left'[w] = left[w] - 1
      /\ \A v \in Workers \ {w} : wpc'[v] = wpc[v] /\ left'[v] = left[v]
      /\ UNCHANGED <<pc, maxima, maximaPool, queue, wjob>>
  BY DEF ExecuteCommand, WorkerGoto, IInv, TypeOK, run
<1>2. /\ Working(w) /\ Working(w)'
      /\ \A v \in Workers : Working(v)' <=> Working(v)
  BY <1>1 DEF Working
<1>3. /\ pc[j] \in Waiting
      /\ \A v \in Workers \ {w} : Working(v) => wjob[v] # j
      /\ queue[maxima[j]] = <<>>
  BY <1>2 DEF IInv, RequestInv, PlaceInv, WorkerPlace, QueueInv, Working, Busy
<1>4. jobPhase(j) = "taken"
  BY <1>3 DEF jobPhase, Holding, Waiting
<1>5. \A k \in Jobs : jobPhase(k)' = jobPhase(k) /\ jobInstance(k)' = jobInstance(k)
  BY <1>1, PlaceSeen DEF SamePhase, SameInstance
<1>6. \A k \in Jobs \ {j} : commandsSent(k)' = commandsSent(k)
  BY <1>1, <1>2, WorkSeen DEF SameSent
<1>7. commandsSent(j) = Commands - left[w]
  BY <1>2, <1>3, ComputedFact
<1>8. commandsSent(j)' = Commands - left'[w]
  BY <1>1, <1>2, <1>3, ComputedNext
<1>9. left[w] \in 0..Commands
  BY DEF IInv, TypeOK
<1>10. commandsSent(j) < Commands /\ commandsSent(j)' = commandsSent(j) + 1
  BY <1>1, <1>7, <1>8, <1>9, CommandsFact
<1>11. JobsServed!Execute(j)
  BY <1>1, <1>3, <1>4, <1>5, <1>6, <1>10 DEF JobsServed!Execute
<1> QED
  BY <1>11

LEMMA AnswerSeen ==
  ASSUME IInv, SentInv, NEW w \in Workers, PutAnswer(w)
  PROVE  \E j \in Jobs : JobsServed!Answer(j)
<1>0. wjob[w] \in Jobs
  BY DEF PutAnswer, WorkerGoto, Busy, IInv, RequestInv, PlaceInv, WorkerPlace
<1> PICK j \in Jobs : wjob[w] = j
  BY <1>0
<1> PICK m : maxima[j] = m
  OBVIOUS
<1>1. /\ wpc[w] = "answer" /\ wpc'[w] = "report"
      /\ queue' = [queue EXCEPT ![m] = <<j>>]
      /\ \A v \in Workers \ {w} : wpc'[v] = wpc[v]
      /\ UNCHANGED <<pc, maxima, maximaPool, wjob, left>>
  BY DEF PutAnswer, WorkerGoto, IInv, TypeOK, run
<1>2. /\ Working(w) /\ ~Working(w)'
      /\ \A v \in Workers \ {w} : Working(v)' <=> Working(v)
  BY <1>1 DEF Working
<1>3. /\ pc[j] \in Waiting
      /\ \A v \in Workers \ {w} : Working(v) => wjob[v] # j
      /\ queue[m] = <<>>
  BY <1>2 DEF IInv, RequestInv, PlaceInv, WorkerPlace, QueueInv, Working, Busy
<1>4. pc[j] \in Holding /\ pc[j] \notin {"release", "ended", "failed"}
  BY <1>3 DEF Waiting, Holding
<1>5. m \in Instances /\ \A k \in Jobs \ {j} : pc[k] \in Holding => maxima[k] # m
  BY <1>3, <1>4 DEF IInv, RequestInv, OwnInv
<1>6. queue'[m] # <<>> /\ \A k \in Jobs \ {j} : pc[k] \in Holding =>
                            queue'[maxima[k]] = queue[maxima[k]]
  BY <1>1, <1>5 DEF IInv, TypeOK, RequestInv, OwnInv
<1>7. /\ jobPhase(j) = "taken" /\ jobPhase(j)' = "answered"
      /\ jobInstance(j)' = jobInstance(j)
  BY <1>1, <1>3, <1>4, <1>6 DEF jobPhase, jobInstance
<1>8. \A k \in Jobs \ {j} : jobPhase(k)' = jobPhase(k) /\ jobInstance(k)' = jobInstance(k)
  BY <1>1, <1>6, PlaceSeen DEF SamePhase, SameInstance
<1>9. \A k \in Jobs \ {j} : commandsSent(k)' = commandsSent(k)
  BY <1>1, <1>2, WorkSeen DEF SameSent
<1>10. commandsSent(j) = Commands - left[w] /\ left[w] < Commands /\ left[w] \in 0..Commands
  BY <1>1, <1>2, <1>3, ComputedFact DEF SentInv, IInv, TypeOK
<1>11. commandsSent(j)' = 0
  BY <1>1, <1>2, <1>3, NotComputed
<1>12. commandsSent(j) > 0
  BY <1>10, CommandsFact
<1>13. JobsServed!Answer(j)
  BY <1>1, <1>3, <1>7, <1>8, <1>9, <1>11, <1>12 DEF JobsServed!Answer, JobsServed!Step
<1> QED
  BY <1>13

LEMMA EndingSeen ==
  ASSUME IInv, Ending
  PROVE  \/ UNCHANGED JobsServed!vars
         \/ \E m \in Instances : JobsServed!Retire(m)
<1>1. UNCHANGED <<pc, maxima, queue, wpc, wjob, left>>
  BY DEF Ending, Destroy, Dismiss, Join, DestroyInstance, Down, run, workers
<1>2. \A k \in Jobs : SamePhase(k) /\ SameInstance(k)
  BY <1>1, PlaceSeen
<1>3. \A k \in Jobs : SameSent(k)
  BY <1>1, WorkSeen DEF Working
<1>4. CASE UNCHANGED maximaPool
  BY <1>2, <1>3, <1>4, StutterSeen DEF SameJob
<1>5. CASE DestroyInstance
  <2>1. PICK m \in maximaPool : maximaPool' = maximaPool \ {m}
    BY <1>5 DEF DestroyInstance
  <2>2. m \in Instances
    BY DEF IInv, TypeOK
  <2>3. JobsServed!Retire(m)
    BY <1>2, <1>3, <2>1 DEF JobsServed!Retire, SamePhase, SameInstance, SameSent
  <2> QED
    BY <2>2, <2>3
<1> QED
  BY <1>4, <1>5 DEF Ending, Destroy, Dismiss, Join, Down

LEMMA InitSeen ==
  ASSUME Init
  PROVE  JobsServed!Init
<1>1. \A j \in Jobs : jobPhase(j) = "asked" /\ jobInstance(j) = None
  BY DEF Init, jobPhase, jobInstance, Holding
<1>2. \A j \in Jobs : commandsSent(j) = 0
  BY NotComputed DEF Init, Working
<1> QED
  BY <1>1, <1>2 DEF Init, JobsServed!Init

LEMMA StepSeen ==
  ASSUME IInv, SentInv, [Next]_vars
  PROVE  [JobsServed!Next]_(JobsServed!vars)
<1>1. ASSUME NEW j \in Jobs, Start(j) \/ Run(j) \/ Cancel(j)
      PROVE  [JobsServed!Next]_(JobsServed!vars)
  <2>1. CASE Acquire(j)
    BY <2>1, AcquireSeen DEF JobsServed!Next
  <2>2. CASE Release(j)
    BY <2>2, ReleaseSeen DEF JobsServed!Next
  <2>3. CASE CancelAcquire(j) \/ (PollDelete(j) /\ polled[j] \notin workRequests)
    BY <2>3, GiveUpSeen DEF JobsServed!Next
  <2>4. CASE TakeResult(j) \/ Collect(j)
    BY <2>4, TakeUnseen
  <2>5. CASE \/ Start(j) \/ Poll(j) \/ PollGet(j) \/ PutRequest(j) \/ Register(j)
             \/ CancelWait(j) \/ Cancel(j) \/ InterruptMaxima(j)
             \/ PollDelete(j) /\ polled[j] \in workRequests
    BY <2>5, RunUnseen
  <2> QED
    BY <1>1, <2>1, <2>2, <2>3, <2>4, <2>5 DEF Run
<1>2. ASSUME NEW w \in Workers, Work(w)
      PROVE  [JobsServed!Next]_(JobsServed!vars)
  <2>1. CASE ExecuteCommand(w)
    BY <2>1, ExecuteSeen DEF JobsServed!Next
  <2>2. CASE PutAnswer(w)
    BY <2>2, AnswerSeen DEF JobsServed!Next
  <2> QED
    BY <1>2, <2>1, <2>2, WorkUnseen DEF Work
<1>3. CASE Ending
  BY <1>3, EndingSeen DEF JobsServed!Next
<1>4. CASE UNCHANGED vars
  <2>1. UNCHANGED <<pc, maxima, maximaPool, queue, wpc, wjob, left>>
    BY <1>4 DEF vars, run, workers
  <2>2. \A k \in Jobs : SameJob(k)
    BY <2>1, PlaceSeen, WorkSeen DEF SameJob, Working
  <2> QED
    BY <2>1, <2>2, StutterSeen
<1> QED
  BY <1>1, <1>2, <1>3, <1>4 DEF Next, Over

\* Whatever is cancelled, fails or is destroyed, and however the workers are
\* scheduled, a job is computed on an instance of its own, is answered once and only
\* after a command was sent for it, and gives the instance back after the answer: the
\* service implements JobService (service.py and threadpool.py).
THEOREM ImplementsJobService == Spec => JobServiceSpec
<1>1. Init => JobsServed!Init
  BY InitSeen
<1>2. IInv /\ SentInv /\ [Next]_vars => [JobsServed!Next]_(JobsServed!vars)
  BY StepSeen
<1> QED
  BY <1>1, <1>2, Invariance, AlwaysSent, PTL DEF Spec, JobServiceSpec, JobsServed!Spec
=============================================================================
