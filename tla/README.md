# A verification project for remote-maxima

remote-maxima gives programs remote access to the computer algebra system
Maxima. A C++ proxy object talks to a Maxima process over two pipes; a Python
service for the EveREST platform and an Ice server (IARnet) share such objects
among their clients. This directory holds TLA+ models of that code, TLC runs on
small instances of them, and TLAPS proofs for every value of the constants.

Run a check with `tlc -config <cfg> <module>.tla` and a proof with
`tlapm <module>.tla`. PROJECT.json lists the runs, the source lines each
definition models, a mutant of the code that breaks each checked property,
the hazards the properties are aimed at, and the findings.

## Inventory

Paths are relative to `src/src`.

| Component | State | Operations | Talks to | What makes it correct |
|---|---|---|---|---|
| `MaximaAPI/MaximaInstance` | the process and its two pipes, `_lastPromptId` | construct, `executeCommand`, `executeInteractive`, `executeAndInterrupt`, `interruptMaxima`, destroy | Maxima, through pipes and SIGINT | a call gets the reply to its own command; calls end; interrupts at any moment do not upset either |
| input checker in `sendCommand` | a scanner state | one pass over a command | Maxima's reader | exactly one expression is written per command |
| I/O hook in `sendCommand` | regular expression, callback | rewrites a checked command | user callback | the pass ends; the text stays one expression |
| `everest/MaximaService/service.py` | `_maximaPool`, one queue of length 1 per instance | `init`, `run`, `workerTask`, `destroy` | thread pool, MaximaInstance (by JNI), EveREST's threads | an instance serves one job at a time; results go to their jobs; no instance is lost; jobs end |
| `everest/MaximaService/threadpool.py` | request and result queues, `workRequests`, an event per worker | `putRequest`, `poll`, `dismissWorkers`, worker loop | service | a request put is known until its result is polled |
| `IARnet/MaximaResourceI` | pointer to a MaximaInstance, a mutex | `executeCommand`, `executeInteractive`, `interrupt` (no lock), `restart`, `destroy` | MaximaInstance, locator | no use of an instance that is being replaced |
| `IARnet/MaximaFactoryI`, `MasterFactoryI` | a counter and a directory per resource; the list of slaves | `launchMaxima`, `serviceInit`; register, unregister, list | locator, each other remotely | names are unique; an unregistered slave is not listed |
| `IARnet/ServantLocator` | table of servants, cache of permissions, a mutex | `locate`, `addServant`, `removeServant`, `removeServantsForService` | authorization service (remote), servants | no access without permission; a stopped service leaves no servant |
| `IARnet/Node`, `main` | list of services with `_started` | deploy, start, stop, signal handler | locator, information service (remote) | every started service is stopped, in reverse order |
| `IARnet/FileServerImpl` | table of open files, a mutex; a monitor per transaction | `dispatch`, `write`, `close`, `getFile`, `putFile` | other file servers (asynchronous calls) | `dispatch` ends and tells who has the file |
| JNI and Jython adapters, `mclient`, examples, build | none to speak of | forward calls | | not modelled |

The hard behaviours are these.

* **Two counters that must agree without a protocol.** Maxima's replies do not
  say which command they answer. The client infers it from the number in the
  prompt, from the absence of output and from the words of an interrupt. Each
  SIGINT may add a reply to the pipe, or may change one.
* **Failure in the middle.** Maxima may end at any time, ask a question, or
  start its numbering again.
* **Threads without locks.** `interruptMaxima`, `MaximaResourceI::interrupt`,
  `poll` and `launchMaxima` are called from several threads; the order of two
  plain assignments matters.
* **Counted references.** Servants end with the last reference, in whatever
  thread drops it: a call, the signal handler, or main.
* **Cancellation racing completion**, in `run()` of the service.
* **Shutdown with work under way**, in `destroy()` and in the signal handler.

## Modules

### CommandService

The promise of a MaximaInstance to its one caller, with no prompts, pipes or
processes: commands are numbered, one is asked at a time, each is answered by
its own answer or the call fails, and calls end. Its `Fairness` says that an
opening ends, an asked command is answered or fails, and a closing ends.

### MaximaInstance

`MaximaInstance.cc` with an arbitrary caller, an arbitrary interrupter and the
Maxima process.

* The *calling thread* has a program counter `pc`. `Construct` and
  `ConstructFailed` are the end of the constructor; `Call(o)` is an operation up
  to the end of `sendCommand`; `SkipReply` and `TakeReply` are one turn and the
  last turn of the loop of `readReply`; `After` is what `executeCommand` does
  with the reply it got: return or throw, send `;` after output that is not a
  result, interrupt and send `;` after a question (`InterruptQuestion`,
  `SendClosing`); `ReadFailed` is the exception at the end of the stream;
  `Destroy` and `Destroyed` are the two lines of the destructor.
* `interruptMaxima` is one SIGINT by any other thread. SIGINTs do not queue:
  `sigint` is a Boolean, as pending signals are.
* A *reply* is abstracted to what the code tells apart: whether it has output
  and whether the last one is a result, the number in its prompt (0 for a prompt
  that is not `(%i<n>)`, as in the code), and whether the words of an interrupt
  are in it. `for`, the command it answers, is a history field; the code cannot
  see it and no guard of the client reads it.
* *Maxima* is external. Its actions are what the code and the tests count on:
  an idle Maxima answers SIGINT with a reply at the prompt it already waits at
  (the loop in `readReply`, `testInterrupt`); an evaluation is interrupted with
  a reply that says so (`testInterrupt2`); a question is answered by the next
  input (`executeInteractive`) or ended by SIGINT; a syntax error repeats the
  prompt; an evaluation raises the number by one or, after `kill(all)`, starts
  at 1; at the end of its input the process ends. What it may do beyond that is
  the constant `Behaviours`: `ask` (stop at a question), `reset` (set the number
  back and go on evaluating), `echo` (quote the words of an interrupt in a
  syntax error), `exit` (end at any moment).

A command that `sendCommand` refuses is written nowhere and is no step. Writing
to a process that has ended loses the text, which is how it goes where SIGPIPE
is ignored (in the Java machine and under Ice).

### InputChecker

`sendCommand` on the text of one command: `TrimCommand`, one `Scan` per
character through `checkInputExpression`, `Write`, and Maxima's reader, which is
external. Characters are the classes that one of the two sides distinguishes.
With `Comments`, `/*` and `*/` are added; each is one element, since the scanner
treats their two characters alike. `states` keeps all the values of the
scanner's variable; the code needs the last.

### MaximaService (and MCMaximaService)

`service.py` over `threadpool.py`. Each job is a call of `run()` in a thread of
its own, each worker a `WorkerThread`. Each access to a shared queue or to
`workRequests` is a step: `Poll`/`PollGet`/`PollDelete` are one turn of `poll`,
`PutRequest` and `Register` the two lines of `putRequest`, `Acquire` and
`CancelAcquire` the first loop, `TakeResult` and `CancelWait` the second,
`InterruptMaxima`, `Collect` and `Release` the handler and the `finally` clause.
A worker goes through `WorkerLoop`, `WorkerGet` or `WorkerTimeout`,
`ExecuteCommand` and `CommandDone` for each command of the job, `PutAnswer` and
`PutResult`. `Destroy`, `Dismiss`, `Join`, `DestroyInstance` and `Down` are
`destroy()`.

One command is one call of `MaximaInstance::executeCommand`, which gives a
result or throws. An interrupt makes it throw or has no effect: module
MaximaInstance shows both happen, the second when SIGINT comes before Maxima has
read the command. EveREST is external: it calls `run()` while the service is
up, interrupts the thread of a job in `Cancelled` at most once, and calls
`destroy()` after the last job, or at any time if `EarlyDestroy`.

MCMaximaService adds the symmetry set for the run without liveness properties.

### JobService

The promise of the service, with no threads, queues, requests or pool of workers:
a job takes an instance from the pool, its commands are sent there, it is
answered once and after at least one command, and gives the instance back after
that; or it gives up before it has one. `JobsServed` in MaximaService is the
mapping. A job is "taken" from `Acquire` on and "answered" as soon as the answer
is in the queue of its instance, though `run()` may be anywhere between its first
look into that queue and the `get()` of the handler; it is "over" when the
instance is back. `commandsSent` counts what the worker of the job has sent.

### ServantLocator

The table of servants, which the modules Node and MaximaFactory extend. It has
the variables that a call needs on its way to a servant and out of it, and
operators that those modules use as conjuncts of their actions.

* `Locate` is `locate` up to the remote call to an authorization service. What
  needs none is decided in one step: no such servant, nobody to ask, or a
  permission in the cache. Otherwise the call waits in `Authorize` *with the
  mutex of the table locked*, as in the code, until the service answers or
  fails. `AccessGranted` is the end of `checkAccessGranted`, with the list of
  clients of the servant.
* `addServant`, `removeServant` and `removeServantsForService` lock and unlock
  in one step, as nothing in them waits. What the latter two take out of the
  table (`servantsToKill`, `servantToKill`) becomes references of their thread.
* References are sets: `holds[t]` are the objects that thread `t` has one to.
  `Drop` gives back one that is not the last; `Destruct` is the last one, and
  the destructor. `LastReference` counts the table and every thread, and is all
  that is assumed of Ice. `Enter` takes the reference of the call, and where a call
  is (`pc`, `request`) is kept apart from what it holds: `NoCallAfterDestruction`
  relates the two, and is false if `locate` gives no reference.
* `grantedPermissions` is the cache, one for passwords and certificates, as in
  the code, and `Key(user, id)` the text that a permission is kept under. The code
  puts it together from names with spaces between them (lines 62 and 87), so
  requests of different users may have the same one. The model assumes nothing of
  `Key`; `authorized` is a history of the keys that the services have really
  granted, and what `OnlyAuthorized` says of a call is that *its key* was granted.
  It does not say that the key belongs to one user, which is not so. Nothing in the
  code reads `authorized`.
* `ClientId` is the name of a user, which it gives or which is in its certificate;
  the lists of clients hold names. "anonymous" is one of them.

### Node (and MCNode)

`Node.cc`, `main.cc`, and of the factories what belongs to a node's life.

* *main* has the program counter `mpc`: `Boot`, then for each service of
  `Order` `deployService`, `CreateServant`, `serviceInit`, `Publish`,
  `MainDrop` (the steps of `startService`, each with an await or a lock between
  it and the next), then `WaitForShutdown` and `End`. `MainThrows` is an
  exception out of any of them, which ends the process.
* *A signal* is a handler with `hpc`: `HandlerEnter` takes the mutex of
  `main.cc`, `stopService`, `Unpublish`, `RemoveServants`, `HandlerDrop`,
  `Stopped` are one turn of the loop of `stopServices`, `DestroyCommunicator`
  and `HandlerDone` the rest. `HandlerCrash` is the null pointer the handler
  uses before the node is made. `at` is the iterator. A reverse iterator holds
  the position *behind* its element: for the last service that is the end of
  the list, and when main deploys another one meanwhile the loop comes to that
  (`Stopped`).
* *A handler's thread* is one that is there: `Signal` chooses it as the `host`,
  which is main, a call that is under way, an active handler, or a thread with
  nothing to do (which has the name of the handler). Until the handler has returned
  its host takes no step (`Suspended`). So a handler may wait for a call that cannot
  go on, for the table which that call has locked, or for the mutex of the handler
  below it, and the node hangs. `Borrowed` says that this can be so.
* *Calls* come in through `CallLocate` and `CallAuthorize`; in a servant they
  add another one (`CallAdd`, as `launchMaxima` does), remove it (`CallRemove`,
  as `destroy` does) or end.
* *The master's list* is remote. `register` adds an entry, `unregister` takes
  the first one out; the destructor of a slave calls it from the thread that
  drops the last reference, and the exception of a failed call leaves the
  destructor (`DropOne`).
* *Kill* and *Restart* end the process at any moment and start it again; all
  that stays is the master's list, where `lost` says what earlier runs left.
  A slave that was killed is listed twice after its restart: registering does
  not look for it, and unregistering takes one entry. So `StoppedIsUnlisted`
  compares with `lost`, and not with 0.

MCNode names the services in order, gives the lists of clients, and has two users
with the same name, one who gives it and one who has it in a certificate. Their
requests for a servant have the same key.

### MaximaFactory

`MaximaFactoryI::launchMaxima` and `MaximaResourceI`, calls over the table of
ServantLocator.

* `_maximaCount++` is two steps, `ReadCount` and `WriteCount`, since it has no
  lock. `MakeDirectory`, `LaunchFirst` and `Add` are the construction of the
  resource (its directory, its MaximaInstance) and `addServant`, each of which
  may fail; the destructor of what has been made then runs.
* `BeginExecute` to `EndExecute` is a command, under the mutex of the resource.
  `BeginRestart` deletes the instance and `Relaunch` makes the next, or throws
  and leaves a null pointer, under the same mutex. `ReadPointer` and
  `Interrupt` are `interrupt()`, without it. `Destroy` only takes the servant
  out of the table.
* `DropReference` and `Delete` end a call; the destructor ends the process and
  removes the directory.
* MCMaximaFactory gives each user its own name and key: permissions do not matter
  to a factory, whose servants are for everybody.
* Using an instance that is not there is undefined: `Crash` ends the model, or,
  in `Interrupt` on an instance that has been replaced, may or may not.

Two launches that overlap in `_maximaCount++` get one name. Both use the same
directory (`create_directory` is content with one that exists), the second gets
`AlreadyRegisteredException`, and its destructor removes the directory the first
one works in. `overlapped` records it, and `OwnDirectory` is what holds
otherwise.

### ProcessService

The promise of the resources of a factory, with no locks, references or tables:
a resource has one process at a time, the process executes the command of one call
at a time, and is neither ended nor replaced under it. Under the mapping `Served` in
MaximaFactory, the call that uses a resource is the one that has its lock and is in
`executeCommand`; a restart has the lock too and uses nothing.

### FileServer

`FileServerImpl.cc`: the table of open files and `dispatch`.

* `write` is `Lock`, `Find`, `Open` or `OpenFailed`, `WriteChunk` or
  `WriteFailed`. A failed write calls `close()`, which locks the mutex that
  `write` has (`CloseAgain`): with an `IceUtil::Mutex` that checks for it, an
  exception that replaces the one meant, and the file stays open; with one that
  does not, the call and all later ones hang. `Checked` says which.
* The content of a file is what it has at each of a few `Offsets`, and a chunk is
  data for one of them. `buffer` is the chunk in the stream's buffer, if it is not in
  the file yet: `fseek` in the next write, or `fclose`, flushes it. Either may fail,
  and then the chunk is gone (`Flush`, `SeekFailed`); `close` does not look at the
  result of `fclose`, and nobody learns of it. `fwrite` may fail with the chunk in
  the buffer or with some of it in the file (`PutFailed`).
* `putFile` is one step. It writes the file without the lock and the table: a stream
  that is open goes on with the old buffer, which may get into the new file.
* `written` is a history of what was written last at each offset, or `None` where the
  code loses it: in the flush that fails, the write that fails itself, the `putFile`
  that fails, and where the buffer of a stream can go over a `putFile`. A file that
  is opened by `write` is made anew and begins with nothing.
  `CompleteWhenClosed` says that these are the only losses, and that no other order
  of calls leaves older data in the place of newer.
* `dispatch` makes a Transaction (`recipients`, `unsent`, `pending`,
  `repliesLeft`, `notified`). `Send` is one asynchronous call, with the monitor
  locked; `Wait` gives it back, `replyReceived` is a response or an exception of
  a recipient, in any order; `Return` ends the wait. `_successful` is a copy of
  the caller's set (`FileServerImpl.cc:24,29`), so what `replyReceived` erases from
  `recipients` never shows, and `dispatch` returns all recipients, those that failed
  too; the model has no result for that reason.

### Broadcast

The promise of `dispatch`, with neither a count nor a monitor: every recipient is
asked once, they answer in any order, and the broadcast returns when nobody is left
to ask or to answer. Under the mapping `Dispatched` in FileServer it is open while the
Transaction exists, `unasked` is `unsent` and `asked` is `pending`.

## Runs

Properties are in the modules, each with a comment that says what it is about.

| Run | Instance | States | Shows |
|---|---|---|---|
| InstanceInterrupts | all operations, 4 commands, 2 interrupts, Maxima may end | 22,653 | `ReadsOwnReply`, `IdleInSync`, `OneCommandAtATime`; refinement of CommandService with its fairness |
| InstanceDialogue | `executeInteractive` only, questions, `kill(all)`, 5 commands | 1,012 | refinement of CommandService with its fairness |
| InstanceQuestions | all operations, questions, 4 commands, 1 interrupt | 72,062 | `TypeOK`; `SkipsOnlyPastReplies`; `CallReturns` |
| CheckerText | all texts of up to 5 characters without comments | 24,803 | `OneExpression`, `ClosedCommandIsComplete` |
| ServiceJobs | 3 jobs, 2 workers, 1 endless, 1 cancelled, orderly destroy | 212,076 | refinement of JobService, `JobsEnd`, `DestroyReturns`, `NoMaximaLeft`, `RequestsRegistered` |
| ServiceDestroyed | 3 jobs of 2 commands, 1 cancelled, destroy at any time | 1,708,236 | `ExclusiveUse`, `ResultsAreOwn`, `InstancesAccounted`, `TypeOK` |
| NodeLife | a service that somebody else has published and a slave factory, 2 calls of 2 users whose requests share keys, 1 signal on any thread, failures of every remote call, 1 restart | 398,059 | `OnlyAuthorized`, `NoCallAfterDestruction`, `StopsInReverse`, `StoppedHasNoServant`, `PublishedIsReachable`, `StoppedIsUnlisted`, `NodeEnds` |
| FactoryCalls | 4 calls, 2 of which launch resources | 73,663 | `SoleUse`, `NoProcessLeft`, `OwnDirectory`, `CrashNeedsRestart`, refinement of ProcessService, `DestroyEndsProcess` |
| FileCalls | 3 calls, 1 file, 2 offsets, 2 pieces of data, failures of every write and flush, 2 recipients | 168,518 | `OneStream`, `CompleteWhenClosed`, `NoDanglingReply`, refinement of Broadcast, `CallsReturn` |

InstancePastReply, ServicePoll and FactoryDestroy end with a counterexample; see
the findings.

Bounds.

* *MaximaInstance.* Two commands of a caller and two interrupts already give a
  stale reply before, and an interrupt during, a second command; four commands
  leave room for the closing `;` of each. Two interrupts allow one left over
  from an earlier call together with one that hits the present command.
  `OneCommandAtATime` is checked where there are interrupts and no questions; with
  both it is false, as the trace of InstancePastReply shows: the `;` that ends a
  question may still be unread when the next command is written.
* *InputChecker.* The scanner has five states and every pair of them is reached
  by a text of at most three characters; five leave room for two strings or two
  terminators.
* *MaximaService.* Three jobs on two workers are the least that has a job
  waiting for an instance while one is computed and one is cancelled; two
  commands are the least that has a moment between commands. ServiceJobs has one
  command per job, as liveness properties do not stand symmetry and more would be
  too large; that the refinement of JobService does not depend on it is part of
  the proof, which is for any number.
* *Node.* Two services give an order to reverse and a moment at which the first
  is started and the second is not. Two calls are one that is in a service, or
  waits for an authorization with the table locked, while the other is served or
  refused, from the cache too, where the two users have one key. One signal meets
  every thread at every line; that a second one waits and then does nothing, or is
  handled on the thread of the first, is in the model and part of the proofs
  (`HandlerInv`), where the number of signals is arbitrary. `MaxLost = 1` bounds the restarts: one killed
  run that leaves an entry, and the run after it, which has two.
* *MaximaFactory.* Two launches are the least that race for the counter; with
  one of them, three calls use one resource: a command, an interrupt and a
  restart or destroy.
* *FileServer.* Two writes and a close of one file, with failures, or a
  `putFile` between them; two offsets and two pieces of data are the least that
  tell a chunk that is lost from one that is overwritten by the wrong one. Two recipients answer in either order, before or after
  the loop has sent to both. A second file would only add calls that do not
  meet.

`CHECK_DEADLOCK FALSE` is given for CheckerText, where a text is read and that is
all, and for FileCalls, where all calls have ended or a dispatch to nobody waits
for ever (`Transaction::run` waits before it looks at the count).

Fairness.

* MaximaInstance assumes weak fairness of `Proceed` (a thread inside a call goes
  on: it does nothing but blocking reads and straight code) and of `Run` (the
  Maxima process is scheduled, and evaluations end; `executeCommand` has no time
  limit, so an endless evaluation does block its caller by design). Nobody has
  to call, interrupt, or delete.
* MaximaService assumes weak fairness for each job's thread once `run()` is
  called, for each worker, and for a call of `destroy()` that has begun. A
  command of a job in `Endless` need not end.
* Node assumes it for main, each handler and each call that is under way:
  threads go on, and remote calls return or fail, as they do in Ice when the
  connection is lost. No signal has to come. The mutex of the table needs no
  strong fairness, as finitely many calls take it. Fairness gives nothing to a
  thread that stands still under a handler (`Suspended` is in the guards of the
  steps), and without the exception `Borrowed` TLC finds `NodeEnds` violated: the
  handler is on the thread of a call and waits for that call. Main is excepted until
  it waits in `waitForShutdown`, since what it does under a lock is one step here
  and could be interrupted half-way.
* MaximaFactory assumes it for each call that has arrived; a command in `Endless`
  ends by an interrupt only.
* FileServer assumes it for each call and for each reply: an asynchronous call
  ends in a response or an exception.

## Findings

Each is a run that TLC ends with a counterexample.

* **InstancePastReply** – `executeCommand` that meets a question sends SIGINT and
  `;` and reads *one* reply; Maxima writes two. The next call returns the reply
  to `;` and every later call that of its predecessor. Needs one question and
  no other thread. This contradicts "skipping replies from the past"
  (`MaximaInstance.h:195`); `testBadPrompt` deletes the object right after.
* **ServicePoll** – `putRequest` queues a request before it registers it. A quick
  worker's result is polled by another job, whose `run()` ends in a `KeyError`.
* **FactoryDestroy** – `destroy()` of a resource does not end its process while a
  command is executed: that call has a reference to the servant, and nobody can
  interrupt a resource that is not in the table any more. `Maxima.ice:38` says
  "Deactivate the [MaximaResource] and destroy the corresponding Maxima process".
  `DestroyEndsProcess` does hold when commands end (FactoryCalls).

InstanceQuestions is the counterpart of the first: replies may be off by one
after a question, but nothing hangs.

Four more disagreements can be seen by changing a constant of the runs above.

* `Behaviours = {"reset"}` with `Operations = {"command"}` and one interrupt
  violates `SkipsOnlyPastReplies`: a command that resets the numbering and is
  then interrupted gets a reply that looks like one from the past, and its call
  hangs.
* `Behaviours = {"echo"}` and `FairSpec` violates `CallReturns`: a syntax error
  that quotes "User break" is taken for the reply to an interrupt.
* In InputChecker, `AcceptedDoesNotHang` is violated: an open string or a final
  backslash passes the check whose purpose is "to not hang the MaximaInstance"
  (`MaximaInstance.h:184`).
* With `Comments = TRUE`, `OneExpression` is: the check does not know comments,
  and a quotation mark in one lets two expressions through.

## Proofs

Liveness apart, every property that a passing run checks is proved: of
MaximaService, Node, MaximaFactory and FileServer for every value of the constants,
of InputChecker and MaximaInstance on the conditions below, which are wider than the
runs. Each `*_proofs` module has an inductive invariant, the lemmas that each action keeps it, and the
theorems. The assumptions used are the named ones on the constants
(`LocatorAssumption`, `NodeAssumption`, `FactoryAssumption`, `FilesAssumption`,
`ServiceAssumption`), which TLC evaluates in the runs, and the conditions that
are part of a theorem's statement.

**MaximaInstance_proofs** proves `TypeCorrect` (`Spec => []TypeOK`) with no
assumption but the named one on the constants. The other properties are false for
some behaviour of Maxima, as shown above, and hold for these, for any number of
commands:

* `Docile` (`Behaviours \subseteq {"exit"}`): nothing but results and errors, with any
  interrupts at any time;
* `Uninterrupted`: nobody sends a SIGINT, neither another thread, nor
  `executeAndInterrupt`, nor `executeCommand` to get out of a question; Maxima may ask
  in `executeInteractive`, set its numbering back in any way, and end;
* `Numbered` (`Behaviours \subseteq {"ask", "exit"}`): questions in any operation and
  interrupts at any time; the line number is not set back half-way.

| Theorem | Holds if | From |
|---|---|---|
| `InSync` | `Docile` | is `Spec => []SyncInv` |
| `TakesTurns` | `Uninterrupted` | is `Spec => []DialogueInv` |
| `NumbersGrow` | `Numbered` | is `Spec => []NumberInv` |
| `TakesOwnReply`, `CallsStartInSync` | `Docile` or `Uninterrupted` | `SyncInv`, `DialogueInv` |
| `SkipsPastReplies` | `Numbered` or `Uninterrupted` | `NumberInv`, `DialogueInv` |
| `SendsOneCommand` | `Docile` or `Uninterrupted` | `SyncInv` with `InputInv`, `DialogueInv` |
| `ImplementsService` | `Docile` or `Uninterrupted` | `SyncInv`, `DialogueInv` |

A question *and* an interrupt are what the code cannot get through
(InstancePastReply), so `Docile` and `Uninterrupted` cannot be merged into one condition
that allows both. What survives even then is that no awaited reply is thrown away, which is why
`SkipsPastReplies` has the weaker condition `Numbered`.

`ReadsOwnReply` is not inductive: it looks at the first reply in the pipe, and
says nothing of the ones behind it, of what Maxima is about to write, or of the
prompt. `SyncInv` adds that. Before the command is answered, everything in the
pipe is a reply to an interrupt at the prompt `_lastPromptId`, where Maxima
still is (`UnsolicitedInv`, `UnansweredInv`), so it will be skipped. There is at
most one other reply; it is for the command sent last, will not be skipped, and
what comes behind it has *its* prompt (`AnsweredInv`), which becomes
`_lastPromptId` when it is taken. So interrupts that come too late are skipped
by the next call. The command itself is in the pipe, evaluated, or answered, as
long as Maxima lives (`MaximaInv`). The delicate case is `kill(all)` alone: it
sets the prompt to 1 and its reply is still taken, as it does not say that it
was interrupted; an interrupted evaluation, on the other hand, has a greater
prompt number, as nothing sets it back within the evaluation.

`DialogueInv` is the simpler picture without interrupts: there is at most one reply,
it is the one waited for and does not say that it was interrupted (`ReplyInv`), and
without one it is either the client's turn, at the prompt both know, or Maxima's
(`TurnInv`). Numbers play no part in it, so they may be set back.

`NumberInv` gives up on whose reply is whose and keeps the order of the numbers. A
reply is skipped only if it says that it was interrupted and its number is not
above `_lastPromptId`. The reply to an interrupted evaluation has a greater number than
every reply before it back to the last that is no interrupt's, and that is the one
whose number `_lastPromptId` will be when it is looked at (`LineInv`).

**InputChecker_proofs** proves, for commands of any length, `AtMostOneExpression`
(without comments) and `ClosedCommandsComplete`. The invariant behind both puts
the state of the scanner at each character of the command beside the state of
Maxima's reader when it gets there: 0 for "code", 1 for "escape", 2 for
"string", 3 for "string escape".

**MaximaService_proofs** proves `InstancesUsedByOne`, `OwnResults`,
`InstancesCounted`, `AllRegistered`, and `NoneLeft` for a `destroy()` after the
last job. `ExclusiveUse` speaks of the workers, and a step that breaks it may
start from a state in which two workers could *get* the same request. So the
invariant follows each request: it is in the request queue, with one worker, in
the results queue or with one polling job, never in two of these places, and
`run()` is at the stage that goes with it (`PlaceInv`). While a request has still
to be computed, the queue of its instance is empty (`QueueInv`); that the worker
then fills. `OwnInv` gives instances to jobs one to one; `RegisterInv` adds to
`RequestsRegistered` the requests that workers have. The pleasant part is
cancellation: since the handler waits for the answer before it gives the
instance back, an interrupt changes no place at all (`FrameKeeps`).

`ImplementsJobService` (`Spec => JobServiceSpec`) puts this together. `Acquire` is
`Take`, `ExecuteCommand` is `Execute`, `PutAnswer` is `Answer`, `Release` is
`GiveBack`, `DestroyInstance` is `Retire`; `CancelAcquire`, and the `KeyError` in
`PollDelete`, are `GiveUp`; every other step is a stutter. The steps of the queue are
what needs the invariant: that `TakeResult` and `Collect` change nothing is that only
the owner looks into the queue of an instance, and that `PutAnswer` answers *this*
job and no other is `PlaceInv` and `OwnInv`. `SentInv` adds that an answer is
preceded by a command.

**Node_proofs** proves the seven safety properties of NodeLife in layers, each
with the help of those before it. The table is locked by the call that waits for
its authorization, so what it has found is still there when the answer comes
(`MutexInv`). Objects are registered once, under their own names (`NameInv`):
the rest depends on names not being used again. A call that is in a
servant holds a reference to it, under the name it asked for, and what is destroyed is
neither held nor in the table (`DeadInv`): hence `NoCallAfterDestruction`. `AccessInv`
is `OnlyAuthorized` with the cache, all of whose keys were granted; nothing is assumed
of `Key`. What a stopped service may still add, it adds from a call that
was in it (`PurgeInv`). One handler does all the stopping, as the mutex is held
to the end and `terminated` set before it is released (`HandlerInv`); so the
position of its iterator says which services are stopped (`LoopInv`), also when
the list grows behind it. `PublishInv` needs that main has come to
`waitForShutdown`, which is what `~early` gives. A slave is in the master's list
from `serviceInit` to its destructor, and some reference leads to that
destructor (`HoldsInv`, `SlaveInv`); a failed remote call is the only way out,
`unanswered`.

**MaximaFactory_proofs** proves the five safety properties of FactoryCalls. The
lock of a resource is that of the one call which executes or restarts
(`LockInv`), and while it executes there is an instance (`InstanceInv`).
Processes are those of the present instances of resources that somebody refers
to (`ProcessInv`); it rests on a resource being nowhere before its launch
(`UnbornInv`). `ProtectedInv` shows that restarts are the only cause of
crashes. `DirectoryInv` is the argument for the counter: without overlap, the
name of a call is below it, or equal to it between the two halves.

`ImplementsProcessService`: `LaunchFirst` and `Relaunch` are `Start`, `BeginExecute`
is `Begin`, `EndExecute` is `End`, `BeginRestart` and the destructor in `Delete` are
`Stop`, if there is a process. The last two need that nobody executes: for the restart it is the lock, for
the destructor that a call which executes has a reference.

**FileServer_proofs** proves the four safety properties of FileCalls:
`repliesLeft` is the number of recipients not sent to or not answered
(`ReplyInv`), and a write that is under way knows that nobody else has changed
the table (`LockInv`, `FileInv`). For `CompleteWhenClosed`, `DataInv` says of every
file that what was written and is not known to be lost would be in it if its buffer
were flushed now, and that only open files have a buffer.

`ImplementsBroadcast`: `dispatch` is `Begin`, the end of any other call is `End`, `Send` is `Ask`,
`replyReceived` is `Answer`, `Return` is `Return`. The code returns when a *count* is
zero; by `ReplyInv` it is the size of the set of those that are left, so nobody is.

Only model-checked: liveness (`CallReturns`, `JobsEnd`, `DestroyReturns`,
`NodeEnds`, `DestroyEndsProcess`, `CallsReturn`, and the fairness half of
`ServiceSpec`, of which `ImplementsService` proves the safety half), which is beyond
the prover.

## Not modelled

* The I/O hook of `sendCommand`. No program of the repository sets it but a test.
* The Windows branches: `doInterrupt` and `readPid` of MaximaInstance, and
  `NodeApplication` in `main.cc`.
* The text of `Node.LoadOrder`. `startServices` gives `substr` an end position
  for a length (`Node.cc:143`), so of three names the second is read together
  with the third; no document states the format. Node starts the services of
  `Order`, whatever it is.
* What a mutex, an allocation or Ice do when a signal handler meets them half-way,
  which is undefined. The handler is entered between the steps of its host only.
* A factory that is its own master's slave; a data race of two server threads on
  `_factories` (`MasterFactoryI.cc:31`), which is undefined: the list changes in
  one step.
* Ice calling `ice_exception` in the thread that sends, while the monitor of the
  Transaction is locked: whether it does depends on the version.
* `getFile`, which changes nothing, and `read`, which returns nothing. The files
  of a job in `service.py`.
* The full output pipe of a Maxima that nobody reads while the destructor waits
  (pipes are unbounded in the model).
* A second interrupt of the same job by EveREST, whose code is not here. Mutant
  `InterruptAndGo` shows what one would do.
* Adapters that forward calls (JNI, Jython), command line and example programs,
  interface declarations, build scripts.
