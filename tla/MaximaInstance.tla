--------------------------- MODULE MaximaInstance ---------------------------
(***************************************************************************)
(* MaximaAPI::MaximaInstance: a proxy object that writes commands to the   *)
(* standard input of a Maxima process and reads its replies from the       *)
(* standard output.  Three parties act here:                               *)
(*                                                                         *)
(*   - the one thread that calls executeCommand, executeInteractive and    *)
(*     executeAndInterrupt and finally deletes the object (variable pc);   *)
(*   - any other thread, which may call interruptMaxima at any moment      *)
(*     between construction and destruction;                               *)
(*   - the Maxima process, which is not part of this repository: its       *)
(*     actions say what MaximaInstance.cc and its tests count on.          *)
(*                                                                         *)
(* The commands written are numbered, and every reply carries the number   *)
(* of the command it answers (field "for", 0 if none): the program does    *)
(* not see that number, the properties do.                                 *)
(***************************************************************************)
EXTENDS Naturals, Sequences

CONSTANTS
  Operations,     \* the operations the calling thread uses
  Behaviours,     \* what Maxima may do beside evaluating commands
  MaxCommands,    \* bound on the commands written, closing ";" included
  MaxInterrupts   \* bound on the interrupts sent by other threads

AllOperations == {"command", "interactive", "testInterrupt"}

(***************************************************************************)
(* "ask":   an evaluation stops at a question, as asksign(a) does;         *)
(* "reset": an evaluation sets the line number back and then goes on, as   *)
(*          a script that begins with kill(all) does;                      *)
(* "echo":  a syntax error quotes a command that has the words of an       *)
(*          interrupt in it;                                               *)
(* "exit":  the process ends, by quit() or otherwise.                      *)
(***************************************************************************)
AllBehaviours == {"ask", "reset", "echo", "exit"}

ASSUME ConstantsAssumption ==
  /\ Operations \subseteq AllOperations
  /\ Behaviours \subseteq AllBehaviours
  /\ MaxCommands \in Nat
  /\ MaxInterrupts \in Nat

VARIABLES
  pc,            \* what the calling thread is doing
  op,            \* the operation it is in
  sent,          \* number of the last command written
  lastPromptId,  \* MaximaInstance::_lastPromptId
  got,           \* "for" of the last reply taken by readReply
  interrupts,    \* interrupts sent so far by other threads
  sigint,        \* a SIGINT that Maxima has not handled yet
  stdin,         \* commands written and not yet read by Maxima
  stdout,        \* replies written and not yet read by the client
  mode,          \* what Maxima is doing
  running,       \* number of the command Maxima has read last
  line,          \* the number in Maxima's last (%i) prompt
  alive          \* the Maxima process has not ended

client == <<pc, op, sent, lastPromptId, got>>
maxima == <<stdin, stdout, mode, running, line, alive>>
vars == <<client, interrupts, sigint, maxima>>

(***************************************************************************)
(* MaximaInstance::Reply: the text up to a prompt, taken apart.  "outs" is *)
(* what the last displayed output is: none, a result "(%o3) ...", or       *)
(* something else.  A prompt that is not "(%i3)" has the identifier 0.     *)
(***************************************************************************)
Reply(for, outs, id, intr) ==
  [for |-> for, outs |-> outs, id |-> id, intr |-> intr]

Replies ==
  [for : 0..MaxCommands, outs : {"none", "result", "other"}, id : Nat,
   intr : BOOLEAN]

\* What sendCommand writes; "closing" marks the ";" that executeCommand adds.
Commands == [for : 1..MaxCommands, closing : BOOLEAN]

isGoodPrompt(r) == r.id # 0
isInterrupted(r) == r.intr

\* The reply of an interrupt that hit no evaluation.
Unsolicited(id) == Reply(0, "none", id, TRUE)

TypeOK ==
  /\ pc \in {"starting", "idle", "sleeping", "reading", "interrupting",
             "closing", "waiting", "destroyed", "failed"}
  /\ op \in AllOperations \cup {"none", "cleanup"}
  /\ sent \in 0..MaxCommands
  /\ lastPromptId \in Nat
  /\ got \in 0..MaxCommands
  /\ interrupts \in 0..MaxInterrupts
  /\ sigint \in BOOLEAN
  /\ stdin \in Seq(Commands)
  /\ stdout \in Seq(Replies)
  /\ mode \in {"boot", "top", "eval", "question"}
  /\ running \in 0..MaxCommands
  /\ line \in Nat
  /\ alive \in BOOLEAN

Init ==
  /\ pc = "starting"
  /\ op = "none"
  /\ sent = 0
  /\ lastPromptId = 1
  /\ got = 0
  /\ interrupts = 0
  /\ sigint = FALSE
  /\ stdin = <<>>
  /\ stdout = <<>>
  /\ mode = "boot"
  /\ running = 0
  /\ line = 1
  /\ alive = TRUE

-----------------------------------------------------------------------------
(* The calling thread. *)

\* Mutant of Construct: the first prompt is left in the pipe.
ConstructWithoutReading ==
  /\ pc = "starting"
  /\ stdout # <<>>
  /\ pc' = "idle"
  /\ UNCHANGED <<op, sent, lastPromptId, got, interrupts, sigint, maxima>>

\* The constructor reads the reply that ends in Maxima's first prompt and drops
\* it; it throws when the process has ended before the prompt.
Construct ==
  /\ pc = "starting"
  /\ stdout # <<>>
  /\ stdout' = Tail(stdout)
  /\ pc' = "idle"
  /\ UNCHANGED <<op, sent, lastPromptId, got, interrupts, sigint, stdin, mode,
                 running, line, alive>>

ConstructFailed ==
  /\ pc = "starting"
  /\ stdout = <<>>
  /\ ~alive
  /\ pc' = "failed"
  /\ UNCHANGED <<op, sent, lastPromptId, got, interrupts, sigint, maxima>>

\* sendCommand: what is written to a process that has ended is lost.
Write(closing) ==
  /\ sent' = sent + 1
  /\ stdin' = IF alive
                THEN Append(stdin, [for |-> sent + 1, closing |-> closing])
                ELSE stdin

\* A call of one of the three operations, up to and with sendCommand.  A command
\* that sendCommand refuses changes nothing and is no step.
Call(o) ==
  /\ pc = "idle"
  /\ sent + 1 < MaxCommands
  /\ Write(FALSE)
  /\ op' = o
  /\ pc' = IF o = "testInterrupt" THEN "sleeping" ELSE "reading"
  /\ UNCHANGED <<lastPromptId, got, interrupts, sigint, stdout, mode, running,
                 line, alive>>

\* executeAndInterrupt: the sleep is over.
WakeAndInterrupt ==
  /\ pc = "sleeping"
  /\ sigint' = alive
  /\ pc' = "reading"
  /\ UNCHANGED <<op, sent, lastPromptId, got, interrupts, maxima>>

\* Mutants of Skipped: "<" for "<=", and no test of isInterrupted().
SkippedBelow(r) ==
  r.outs = "none" /\ isGoodPrompt(r) /\ r.id < lastPromptId /\ isInterrupted(r)

SkippedWithoutOutput(r) ==
  r.outs = "none" /\ isGoodPrompt(r) /\ r.id <= lastPromptId

\* The condition under which readReply goes on to the next reply.
Skipped(r) ==
  /\ r.outs = "none"
  /\ isGoodPrompt(r)
  /\ r.id <= lastPromptId
  /\ isInterrupted(r)

SkipReply ==
  /\ pc = "reading"
  /\ stdout # <<>>
  /\ Skipped(Head(stdout))
  /\ stdout' = Tail(stdout)
  /\ UNCHANGED <<client, interrupts, sigint, stdin, mode, running, line, alive>>

\* What the operation does when readReply has given it reply r.
After(o, r) ==
  CASE o = "command" /\ r.outs = "none" /\ ~isGoodPrompt(r) -> "interrupting"
    [] o = "command" /\ r.outs = "other" -> "closing"
    [] OTHER -> "idle"

\* Mutant of TakeReply: _lastPromptId is not assigned.
TakeReplyKeepingId ==
  /\ pc = "reading"
  /\ stdout # <<>>
  /\ ~Skipped(Head(stdout))
  /\ got' = Head(stdout).for
  /\ stdout' = Tail(stdout)
  /\ pc' = After(op, Head(stdout))
  /\ UNCHANGED <<op, sent, lastPromptId, interrupts, sigint, stdin, mode,
                 running, line, alive>>

TakeReply ==
  /\ pc = "reading"
  /\ stdout # <<>>
  /\ ~Skipped(Head(stdout))
  /\ lastPromptId' = Head(stdout).id
  /\ got' = Head(stdout).for
  /\ stdout' = Tail(stdout)
  /\ pc' = After(op, Head(stdout))
  /\ UNCHANGED <<op, sent, interrupts, sigint, stdin, mode, running, line,
                 alive>>

\* Mutant of ReadFailed: the end of the stream is not noticed.
ReadFailedNever == FALSE /\ UNCHANGED vars

\* The Reply constructor throws at the end of the stream, out of the operation.
ReadFailed ==
  /\ pc = "reading"
  /\ stdout = <<>>
  /\ ~alive
  /\ pc' = "idle"
  /\ UNCHANGED <<op, sent, lastPromptId, got, interrupts, sigint, maxima>>

\* executeCommand was answered by a question and tries to get out of it.
InterruptQuestion ==
  /\ pc = "interrupting"
  /\ sigint' = alive
  /\ pc' = "closing"
  /\ UNCHANGED <<op, sent, lastPromptId, got, interrupts, maxima>>

\* Mutant of SendClosing: executeCommand(";") in place of executeCommandRaw(";").
SendClosingAsCommand ==
  /\ pc = "closing"
  /\ Write(TRUE)
  /\ op' = "command"
  /\ pc' = "reading"
  /\ UNCHANGED <<lastPromptId, got, interrupts, sigint, stdout, mode, running,
                 line, alive>>

\* executeCommandRaw(";"), before executeCommand throws "Unsupported".
SendClosing ==
  /\ pc = "closing"
  /\ Write(TRUE)
  /\ op' = "cleanup"
  /\ pc' = "reading"
  /\ UNCHANGED <<lastPromptId, got, interrupts, sigint, stdout, mode, running,
                 line, alive>>

\* The destructor closes Maxima's standard input and waits for its end.
Destroy ==
  /\ pc = "idle"
  /\ pc' = "waiting"
  /\ UNCHANGED <<op, sent, lastPromptId, got, interrupts, sigint, maxima>>

Destroyed ==
  /\ pc = "waiting"
  /\ ~alive
  /\ pc' = "destroyed"
  /\ UNCHANGED <<op, sent, lastPromptId, got, interrupts, sigint, maxima>>

(* Another thread. *)

interruptMaxima ==
  /\ pc \notin {"starting", "failed", "waiting", "destroyed"}
  /\ interrupts < MaxInterrupts
  /\ interrupts' = interrupts + 1
  /\ sigint' = alive
  /\ UNCHANGED <<client, maxima>>

-----------------------------------------------------------------------------
(* The Maxima process. *)

\* Maxima writes reply r, which ends in a prompt, and waits in mode m.
Emit(r, m) ==
  /\ stdout' = Append(stdout, r)
  /\ mode' = m
  /\ line' = IF isGoodPrompt(r) THEN r.id ELSE line

Boot ==
  /\ alive
  /\ mode = "boot"
  /\ Emit(Reply(0, "none", 1, FALSE), "top")
  /\ UNCHANGED <<client, interrupts, sigint, stdin, running, alive>>

ReadCommand ==
  /\ alive
  /\ mode = "top"
  /\ stdin # <<>>
  /\ ~Head(stdin).closing
  /\ running' = Head(stdin).for
  /\ stdin' = Tail(stdin)
  /\ mode' = "eval"
  /\ UNCHANGED <<client, interrupts, sigint, stdout, line, alive>>

\* A command Maxima cannot parse, ";" among them: the line number stays.
SyntaxError ==
  /\ alive
  /\ mode = "top"
  /\ stdin # <<>>
  /\ running' = Head(stdin).for
  /\ stdin' = Tail(stdin)
  /\ \E intr \in BOOLEAN :
       /\ intr => "echo" \in Behaviours /\ ~Head(stdin).closing
       /\ Emit(Reply(Head(stdin).for, "none", line, intr), "top")
  /\ UNCHANGED <<client, interrupts, sigint, alive>>

\* An evaluation ends: in an error or silently after "$" (no output), with its
\* result, or after it has displayed something that is not a result.  The command
\* kill(all) alone also ends so, and starts the line numbers again.
Finish ==
  /\ alive
  /\ mode = "eval"
  /\ \E outs \in {"none", "result", "other"}, id \in {1, line + 1} :
       Emit(Reply(running, outs, id, FALSE), "top")
  /\ UNCHANGED <<client, interrupts, sigint, stdin, running, alive>>

\* The evaluation does kill(all) and goes on.
ResetLine ==
  /\ alive
  /\ "reset" \in Behaviours
  /\ mode = "eval"
  /\ line # 0
  /\ line' = 0
  /\ UNCHANGED <<client, interrupts, sigint, stdin, stdout, mode, running, alive>>

\* The evaluation needs an answer from the user.
Question ==
  /\ alive
  /\ "ask" \in Behaviours
  /\ mode = "eval"
  /\ \E outs \in {"none", "other"} : Emit(Reply(running, outs, 0, FALSE), "question")
  /\ UNCHANGED <<client, interrupts, sigint, stdin, running, alive>>

\* The next command is taken for the answer, and the evaluation goes on.
ReadAnswer ==
  /\ alive
  /\ mode = "question"
  /\ stdin # <<>>
  /\ running' = Head(stdin).for
  /\ stdin' = Tail(stdin)
  /\ mode' = "eval"
  /\ UNCHANGED <<client, interrupts, sigint, stdout, line, alive>>

\* SIGINT with no evaluation under way: a reply of its own, at the same prompt.
InterruptedIdle ==
  /\ alive
  /\ sigint
  /\ mode = "top"
  /\ sigint' = FALSE
  /\ Emit(Unsolicited(line), "top")
  /\ UNCHANGED <<client, interrupts, stdin, running, alive>>

\* SIGINT in an evaluation: the reply to the command says so.
InterruptedEval ==
  /\ alive
  /\ sigint
  /\ mode = "eval"
  /\ sigint' = FALSE
  /\ \E outs \in {"none", "other"} :
       Emit(Reply(running, outs, line + 1, TRUE), "top")
  /\ UNCHANGED <<client, interrupts, stdin, running, alive>>

\* SIGINT at a question, which was the reply to the command: another reply.
InterruptedQuestion ==
  /\ alive
  /\ sigint
  /\ mode = "question"
  /\ sigint' = FALSE
  /\ Emit(Unsolicited(line + 1), "top")
  /\ UNCHANGED <<client, interrupts, stdin, running, alive>>

\* The process ends at the end of its input.
EndOfInput ==
  /\ alive
  /\ pc = "waiting"
  /\ mode \in {"top", "question"}
  /\ stdin = <<>>
  /\ alive' = FALSE
  /\ UNCHANGED <<client, interrupts, sigint, stdin, stdout, mode, running, line>>

\* The process ends by itself.
Exit ==
  /\ alive
  /\ "exit" \in Behaviours
  /\ alive' = FALSE
  /\ UNCHANGED <<client, interrupts, sigint, stdin, stdout, mode, running, line>>

-----------------------------------------------------------------------------
\* The steps the calling thread takes once it is in a call.
Proceed ==
  \/ Construct \/ ConstructFailed \/ WakeAndInterrupt \/ SkipReply \/ TakeReply
  \/ ReadFailed \/ InterruptQuestion \/ SendClosing \/ Destroyed

\* The steps Maxima takes as long as it lives.
Run ==
  \/ Boot \/ ReadCommand \/ SyntaxError \/ Finish \/ Question \/ ReadAnswer
  \/ InterruptedIdle \/ InterruptedEval \/ InterruptedQuestion \/ EndOfInput

\* The object is gone, or was never constructed.
Gone ==
  /\ pc \in {"destroyed", "failed"}
  /\ UNCHANGED vars

Next ==
  \/ \E o \in Operations : Call(o)
  \/ Destroy
  \/ Proceed
  \/ interruptMaxima
  \/ Run
  \/ ResetLine
  \/ Exit
  \/ Gone

Spec == Init /\ [][Next]_vars

\* Both sides are scheduled: a thread in a call goes on, and so does the Maxima
\* process, whose evaluations all end.  Nobody has to call, to interrupt or to
\* delete the object.
Fairness ==
  /\ WF_vars(Proceed)
  /\ WF_vars(Run)

FairSpec == Spec /\ Fairness

-----------------------------------------------------------------------------
(* Properties. *)

\* The reply readReply takes is the reply to the command written last, never one
\* from the past (MaximaInstance.cc, readReply).
ReadsOwnReply ==
  pc = "reading" /\ stdout # <<>> /\ ~Skipped(Head(stdout))
    => Head(stdout).for = sent

\* The same for the reply a caller is given, the closing ";" left aside: what an
\* operation returns or throws is about the command it was called with
\* (MaximaInstance.h, "Sends a command to the Maxima process and returns the last
\* result" and "Read a reply from Maxima skipping replies from the past").
CallerGetsOwnReply ==
  op # "cleanup" => ReadsOwnReply

\* A reply that readReply skips is one from the past: had it been the reply to
\* the command written last, the call would wait for ever.
SkipsOnlyPastReplies ==
  pc = "reading" /\ stdout # <<>> /\ Skipped(Head(stdout))
    => Head(stdout).for # sent

\* Between two calls the two sides agree: Maxima has read everything and waits at
\* the prompt whose identifier is _lastPromptId, and whatever it has written since
\* is replies to interrupts at that same prompt, which readReply will skip.
IdleInSync ==
  pc = "idle" /\ alive =>
    /\ stdin = <<>>
    /\ mode \in {"top", "question"}
    /\ lastPromptId = IF mode = "question" THEN 0 ELSE line
    /\ \A i \in DOMAIN stdout : stdout[i].for = 0 /\ Skipped(stdout[i])

\* As long as nobody asks or nobody interrupts, at most one command is on its way at
\* any time: an interrupt whose reply is read as that of a command does not let the
\* caller write the next one before Maxima has read the first (readReply).  With both
\* it is false: the ";" that executeCommand sends after a question may still be there
\* when the next command is written.
OneCommandAtATime ==
  /\ Len(stdin) <= 1
  /\ alive /\ mode = "eval" => stdin = <<>>

(***************************************************************************)
(* Why the two sides agree as long as no evaluation stops at a question,   *)
(* the line number is not set back in the middle of one and no syntax      *)
(* error looks like an interrupt: an inductive invariant.                  *)
(***************************************************************************)
Awaiting == pc \in {"sleeping", "reading"}

\* No reply to the command written last is in the pipe.
Unanswered == \A i \in 1..Len(stdout) : stdout[i].for = 0

\* Up to the first prompt.
OpeningInv ==
  pc = "starting" =>
    /\ stdin = <<>> /\ ~sigint
    /\ \/ mode = "boot" /\ stdout = <<>>
       \/ mode = "top" /\ stdout = <<Reply(0, "none", 1, FALSE)>>
    /\ lastPromptId = 1 /\ line = 1 /\ sent = 0

\* The unread replies to interrupts bear the prompt at which Maxima waited.
UnsolicitedInv ==
  \A i \in 1..Len(stdout) :
    stdout[i].for = 0 => stdout[i] = Unsolicited(stdout[i].id)

UnansweredInv ==
  Unanswered =>
    /\ line = lastPromptId
    /\ \A i \in 1..Len(stdout) : stdout[i].id = lastPromptId

\* There is at most one other reply, k: it answers the command the client waits
\* for and will not be skipped.
AnsweredInv ==
  \A k \in 1..Len(stdout) :
    stdout[k].for # 0 =>
      /\ Awaiting
      /\ stdout[k].for = sent
      /\ stdout[k].id = line
      /\ ~Skipped(stdout[k])
      /\ \A i \in 1..Len(stdout) \ {k} :
           /\ stdout[i].for = 0
           /\ stdout[i].id = IF i < k THEN lastPromptId ELSE line

\* The command the client waits for is in the pipe, evaluated or answered.
MaximaInv ==
  alive =>
    \/ /\ Awaiting /\ Unanswered
       /\ mode = "top" /\ stdin # <<>>
       /\ Head(stdin).for = sent /\ Tail(stdin) = <<>>
    \/ Awaiting /\ Unanswered /\ mode = "eval" /\ stdin = <<>> /\ running = sent
    \/ ~(Awaiting /\ Unanswered) /\ mode = "top" /\ stdin = <<>>

SyncInv ==
  /\ OpeningInv
  /\ pc = "failed" => ~alive
  /\ got <= sent /\ line >= 1 /\ lastPromptId >= 1
  /\ Awaiting => got < sent
  /\ pc \in {"interrupting", "closing"} => got = sent
  /\ pc \notin {"starting", "failed"} =>
       UnsolicitedInv /\ UnansweredInv /\ AnsweredInv /\ MaximaInv

(***************************************************************************)
(* Why the two sides agree, questions or not, as long as no SIGINT is      *)
(* sent: they take turns.                                                  *)
(***************************************************************************)

\* The identifier that a reply which ends in the present prompt has.
promptId == IF mode = "question" THEN 0 ELSE line

\* Maxima waits at a prompt and has read all that was written.
AtPrompt == mode \in {"top", "question"} /\ stdin = <<>>

\* The only thing in the pipe from Maxima is the reply the client waits for.
ReplyInv ==
  stdout # <<>> =>
    /\ pc = "reading"
    /\ Tail(stdout) = <<>>
    /\ Head(stdout).for = sent
    /\ ~isInterrupted(Head(stdout))
    /\ op \in {"command", "cleanup"} => isGoodPrompt(Head(stdout))
    /\ alive => AtPrompt /\ Head(stdout).id = promptId

\* Without a reply, it is either the client's turn or Maxima's.
TurnInv ==
  alive /\ stdout = <<>> =>
    \/ pc # "reading" /\ AtPrompt /\ lastPromptId = promptId
    \/ /\ pc = "reading" /\ mode \in {"top", "question"}
       /\ stdin # <<>> /\ Head(stdin).for = sent /\ Tail(stdin) = <<>>
    \/ pc = "reading" /\ mode = "eval" /\ stdin = <<>> /\ running = sent

DialogueInv ==
  /\ OpeningInv
  /\ pc = "failed" => ~alive
  /\ ~sigint /\ interrupts = 0 /\ pc \notin {"sleeping", "interrupting"}
  /\ op \in {"command", "cleanup"} => "command" \in Operations
  /\ mode = "question" => "ask" \in Behaviours
  /\ mode = "top" => line >= 1
  /\ got <= sent
  /\ pc = "reading" => got < sent
  /\ pc = "closing" => got = sent
  /\ pc \notin {"starting", "failed"} => ReplyInv /\ TurnInv

(***************************************************************************)
(* Why no reply to a command is skipped, questions and interrupts or not,  *)
(* as long as the line number is not set back in the middle of an          *)
(* evaluation and no syntax error looks like an interrupt.  The reply to   *)
(* an interrupted evaluation ends in a prompt of its own, with a greater   *)
(* number than all before it since the last reply that is no interrupt's:  *)
(* the one that has set _lastPromptId when the reply is looked at.         *)
(***************************************************************************)

\* From reply i on up to reply k, which is left out, all are interrupted.
InterruptedBetween(i, k) == \A j \in 1..Len(stdout) : i <= j /\ j < k => stdout[j].intr

\* Reply k must not be skipped.
Answers(k) == stdout[k].for # 0 /\ stdout[k].intr

LineInv ==
  /\ \A k \in 1..Len(stdout) : Answers(k) =>
       /\ InterruptedBetween(1, k) => lastPromptId < stdout[k].id
       /\ \A i \in 1..Len(stdout) :
            i < k /\ InterruptedBetween(i + 1, k) => stdout[i].id < stdout[k].id
  /\ InterruptedBetween(1, Len(stdout) + 1) => lastPromptId <= line
  /\ \A i \in 1..Len(stdout) :
       InterruptedBetween(i + 1, Len(stdout) + 1) => stdout[i].id <= line

NumberInv ==
  /\ OpeningInv
  /\ pc \in {"sleeping", "reading"} => sent >= 1
  /\ LineInv

\* Every call returns, and so does the destructor: the caller is never left in
\* readReply or in process->wait().
CallReturns ==
  (pc \notin {"idle", "destroyed", "failed"})
    ~> (pc \in {"idle", "destroyed", "failed"})

\* Where the object stands as a CommandService.
servicePhase ==
  CASE pc = "starting" -> "opening"
    [] pc = "idle" -> "idle"
    [] pc = "waiting" -> "closing"
    [] pc \in {"destroyed", "failed"} -> "closed"
    [] OTHER -> "busy"

\* The object is what CommandService promises.
Service == INSTANCE CommandService WITH
  phase <- servicePhase,
  asked <- sent,
  answered <- got

\* One command, one answer, in order, and every call ends (FairSpec of
\* CommandService, with its fairness).
ServiceSpec == Service!FairSpec

\* The safety half of ServiceSpec.
ServiceSafety == Service!Spec
=============================================================================
