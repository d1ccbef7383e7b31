----------------------- MODULE MaximaInstance_proofs -----------------------
(***************************************************************************)
(* Theorems about MaximaInstance, for every bound and every set of         *)
(* operations.                                                             *)
(***************************************************************************)
EXTENDS MaximaInstance, SequenceTheorems, TLAPS

-----------------------------------------------------------------------------
(* Pipes. *)

\* What appending to a pipe does, element by element.
LEMMA PipeAppend ==
  ASSUME NEW S, NEW s \in Seq(S), NEW e \in S
  PROVE  /\ Append(s, e) \in Seq(S)
         /\ Append(s, e) # <<>>
         /\ Len(s) \in Nat
         /\ Len(Append(s, e)) = Len(s) + 1
         /\ \A i \in 1..Len(s) : Append(s, e)[i] = s[i]
         /\ Append(s, e)[Len(s) + 1] = e
BY AppendProperties, LenProperties

\* What reading the head of a pipe leaves.
LEMMA PipeRead ==
  ASSUME NEW S, NEW s \in Seq(S), s # <<>>
  PROVE  /\ Head(s) \in S
         /\ Head(s) = s[1]
         /\ Tail(s) \in Seq(S)
         /\ Len(s) \in Nat \ {0}
         /\ Len(Tail(s)) = Len(s) - 1
         /\ \A i \in 1..Len(Tail(s)) : Tail(s)[i] = s[i + 1]
BY HeadTailProperties, LenProperties, EmptySeq

-----------------------------------------------------------------------------
(* Types. *)

\* The inductive strengthening of TypeOK: a call that may still have to write the
\* closing ";" has left room for it.
TypeInv ==
  /\ TypeOK
  /\ pc \in {"interrupting", "closing"} => op = "command"
  /\ pc \in {"sleeping", "reading", "interrupting", "closing"} /\ op # "cleanup"
       => sent < MaxCommands

LEMMA TypeInit == Init => TypeInv
<1>1. <<>> \in Seq(Commands) /\ <<>> \in Seq(Replies)
  BY EmptySeq
<1>2. 0 \in 0..MaxCommands /\ 0 \in 0..MaxInterrupts
  BY ConstantsAssumption DEF ConstantsAssumption
<1>3. Init => sigint \in BOOLEAN /\ alive \in BOOLEAN
  BY Zenon DEF Init
<1>4. Init => sent \in 0..MaxCommands /\ running \in 0..MaxCommands
  BY <1>2 DEF Init
<1>5. Init => got \in 0..MaxCommands /\ interrupts \in 0..MaxInterrupts
  BY <1>2 DEF Init
<1>6. Init => stdin \in Seq(Commands) /\ stdout \in Seq(Replies)
  BY <1>1 DEF Init
<1>7. Init => TypeOK
  BY <1>3, <1>4, <1>5, <1>6 DEF Init, TypeOK
<1>8. Init => pc = "starting"
  BY DEF Init
<1> QED
  BY <1>7, <1>8 DEF TypeInv

\* A step of the calling thread keeps the types.
LEMMA TypeClient ==
  ASSUME TypeInv,
         \/ \E o \in Operations : Call(o)
         \/ Destroy \/ Proceed \/ interruptMaxima
  PROVE  TypeInv'
<1> USE ConstantsAssumption DEF ConstantsAssumption, TypeInv, AllOperations
<1>1. CASE Construct
  BY <1>1, PipeRead DEF Construct, TypeOK
<1>2. CASE ConstructFailed
  BY <1>2 DEF ConstructFailed, TypeOK, maxima
<1>3. ASSUME NEW o \in Operations, Call(o)
      PROVE  TypeInv'
  <2>1. sent + 1 \in 1..MaxCommands /\ [for |-> sent + 1, closing |-> FALSE] \in Commands
    BY <1>3 DEF Call, TypeOK, Commands
  <2>2. stdin' \in Seq(Commands)
    BY <1>3, <2>1, PipeAppend DEF Call, Write, TypeOK, Commands
  <2> QED
    BY <1>3, <2>1, <2>2 DEF Call, Write, TypeOK, Commands
<1>4. CASE WakeAndInterrupt
  BY <1>4 DEF WakeAndInterrupt, TypeOK, maxima
<1>5. CASE SkipReply
  BY <1>5, PipeRead DEF SkipReply, TypeOK, client
<1>6. CASE TakeReply
  <2>1. Head(stdout) \in Replies /\ Tail(stdout) \in Seq(Replies)
    BY <1>6, PipeRead DEF TakeReply, TypeOK
  <2>2. /\ pc' \in {"interrupting", "closing", "idle"}
        /\ pc' # "idle" => op = "command"
    BY <1>6 DEF TakeReply, After
  <2> QED
    BY <1>6, <2>1, <2>2 DEF TakeReply, TypeOK, Replies
<1>7. CASE ReadFailed
  BY <1>7 DEF ReadFailed, TypeOK, maxima
<1>8. CASE InterruptQuestion
  BY <1>8 DEF InterruptQuestion, TypeOK, maxima
<1>9. CASE SendClosing
  <2>1. sent + 1 \in 1..MaxCommands /\ [for |-> sent + 1, closing |-> TRUE] \in Commands
    BY <1>9 DEF SendClosing, TypeOK, Commands
  <2>2. stdin' \in Seq(Commands)
    BY <1>9, <2>1, PipeAppend DEF SendClosing, Write, TypeOK, Commands
  <2> QED
    BY <1>9, <2>1, <2>2 DEF SendClosing, Write, TypeOK, Commands
<1>10. CASE Destroyed
  BY <1>10 DEF Destroyed, TypeOK, maxima
<1>11. CASE Destroy
  BY <1>11 DEF Destroy, TypeOK, maxima
<1>12. CASE interruptMaxima
  BY <1>12 DEF interruptMaxima, TypeOK, client, maxima
<1> QED
  BY <1>1, <1>2, <1>3, <1>4, <1>5, <1>6, <1>7, <1>8, <1>9, <1>10, <1>11, <1>12
     DEF Proceed

\* A reply of the right type may be written in any mode.
LEMMA TypeEmit ==
  ASSUME TypeOK, NEW r \in Replies, NEW m \in {"top", "question"}, Emit(r, m)
  PROVE  /\ stdout' \in Seq(Replies)
         /\ mode' \in {"boot", "top", "eval", "question"}
         /\ line' \in Nat
BY PipeAppend DEF TypeOK, Emit, Replies, isGoodPrompt

\* A step of Maxima keeps the types.
LEMMA TypeMaxima ==
  ASSUME TypeInv, Run \/ ResetLine \/ Exit
  PROVE  TypeInv'
<1> USE ConstantsAssumption DEF ConstantsAssumption, TypeInv
<1>2. CASE Boot
  <2>1. Emit(Reply(0, "none", 1, FALSE), "top") /\ Reply(0, "none", 1, FALSE) \in Replies
    BY <1>2 DEF Boot, Reply, Replies
  <2> QED
    BY <1>2, <2>1, TypeEmit DEF Boot, TypeOK, client
<1>3. CASE ReadCommand
  <2>1. Head(stdin) \in Commands /\ Tail(stdin) \in Seq(Commands)
    BY <1>3, PipeRead DEF ReadCommand, TypeOK, Commands
  <2> QED
    BY <1>3, <2>1 DEF ReadCommand, TypeOK, client, Commands
<1>4. CASE SyntaxError
  <2>0. Head(stdin) \in Commands /\ Tail(stdin) \in Seq(Commands)
    BY <1>4, PipeRead DEF SyntaxError, TypeOK, Commands
  <2>1. Head(stdin).for \in 1..MaxCommands /\ stdin' \in Seq(Commands)
    BY <1>4, <2>0 DEF SyntaxError, Commands
  <2>2. PICK intr \in BOOLEAN : Emit(Reply(Head(stdin).for, "none", line, intr), "top")
    BY <1>4 DEF SyntaxError
  <2>3. Reply(Head(stdin).for, "none", line, intr) \in Replies
    BY <2>1 DEF TypeOK, Reply, Replies
  <2>4. stdout' \in Seq(Replies) /\ mode' \in {"boot", "top", "eval", "question"} /\ line' \in Nat
    BY <2>2, <2>3, TypeEmit
  <2> QED
    BY <1>4, <2>1, <2>4 DEF SyntaxError, TypeOK, Commands, client
<1>5. CASE Finish
  <2>1. PICK outs \in {"none", "result", "other"}, id \in {1, line + 1} :
          Emit(Reply(running, outs, id, FALSE), "top")
    BY <1>5 DEF Finish
  <2>2. Reply(running, outs, id, FALSE) \in Replies
    BY <2>1 DEF TypeOK, Reply, Replies
  <2> QED
    BY <1>5, <2>1, <2>2, TypeEmit DEF Finish, TypeOK, client
<1>6. CASE Question
  <2>1. PICK outs \in {"none", "other"} : Emit(Reply(running, outs, 0, FALSE), "question")
    BY <1>6 DEF Question
  <2>2. Reply(running, outs, 0, FALSE) \in Replies
    BY <2>1 DEF TypeOK, Reply, Replies
  <2> QED
    BY <1>6, <2>1, <2>2, TypeEmit DEF Question, TypeOK, client
<1>7. CASE ReadAnswer
  <2>1. Head(stdin) \in Commands /\ Tail(stdin) \in Seq(Commands)
    BY <1>7, PipeRead DEF ReadAnswer, TypeOK, Commands
  <2> QED
    BY <1>7, <2>1 DEF ReadAnswer, TypeOK, client, Commands
<1>8. CASE InterruptedIdle
  <2>1. Unsolicited(line) \in Replies /\ Emit(Unsolicited(line), "top")
    BY <1>8 DEF InterruptedIdle, Unsolicited, TypeOK, Reply, Replies
  <2> QED
    BY <1>8, <2>1, TypeEmit DEF InterruptedIdle, TypeOK, client
<1>9. CASE InterruptedEval
  <2>1. PICK outs \in {"none", "other"} : Emit(Reply(running, outs, line + 1, TRUE), "top")
    BY <1>9 DEF InterruptedEval
  <2>2. Reply(running, outs, line + 1, TRUE) \in Replies
    BY <2>1 DEF TypeOK, Reply, Replies
  <2> QED
    BY <1>9, <2>1, <2>2, TypeEmit DEF InterruptedEval, TypeOK, client
<1>10. CASE InterruptedQuestion
  <2>1. Unsolicited(line + 1) \in Replies /\ Emit(Unsolicited(line + 1), "top")
    BY <1>10 DEF InterruptedQuestion, Unsolicited, TypeOK, Reply, Replies
  <2> QED
    BY <1>10, <2>1, TypeEmit DEF InterruptedQuestion, TypeOK, client
<1>11. CASE EndOfInput
  BY <1>11 DEF EndOfInput, TypeOK, client
<1>12. CASE ResetLine
  BY <1>12 DEF ResetLine, TypeOK, client
<1>13. CASE Exit
  BY <1>13 DEF Exit, TypeOK, client
<1> QED
  BY <1>2, <1>3, <1>4, <1>5, <1>6, <1>7, <1>8, <1>9, <1>10, <1>11, <1>12, <1>13
     DEF Run

LEMMA TypeStep == TypeInv /\ [Next]_vars => TypeInv'
<1> SUFFICES ASSUME TypeInv, [Next]_vars
             PROVE  TypeInv'
  OBVIOUS
<1>1. CASE UNCHANGED vars
  BY <1>1 DEF TypeInv, TypeOK, vars, client, maxima
<1>2. CASE Gone
  BY <1>2, <1>1 DEF Gone
<1> QED
  BY <1>1, <1>2, TypeClient, TypeMaxima DEF Next

\* Every variable keeps its type; above all, no operation writes more commands
\* than its own and one closing ";" (executeCommand).
THEOREM TypeCorrect == Spec => []TypeOK
<1>1. TypeInv => TypeOK
  BY DEF TypeInv
<1> QED
  BY TypeInit, TypeStep, <1>1, PTL DEF Spec

-----------------------------------------------------------------------------
(* Synchronisation.  From here on no evaluation asks, none sets the line     *)
(* number back half-way, and no syntax error looks like an interrupt.        *)

Docile == Behaviours \subseteq {"exit"}

\* The part of SyncInv that holds once the object is constructed.
PipeInv == UnsolicitedInv /\ UnansweredInv /\ AnsweredInv /\ MaximaInv

LEMMA SyncInit == Init => SyncInv
<1>1. Init => OpeningInv
  BY Zenon DEF Init, OpeningInv
<1>2. Init => pc = "starting" /\ got = 0 /\ sent = 0 /\ line = 1 /\ lastPromptId = 1
  BY DEF Init
<1> QED
  BY <1>1, <1>2 DEF SyncInv, Awaiting

\* A reply that readReply does not skip is the reply to the command written last,
\* and all that follows it in the pipe are replies to interrupts at its prompt.
LEMMA TakenReplyIsOwn ==
  ASSUME TypeInv, SyncInv, pc = "reading", stdout # <<>>, ~Skipped(Head(stdout))
  PROVE  /\ Head(stdout).for = sent
         /\ Head(stdout).id = line
         /\ \A i \in 2..Len(stdout) : stdout[i].for = 0 /\ stdout[i].id = line
<1>1. stdout \in Seq(Replies) /\ lastPromptId \in Nat
  BY DEF TypeInv, TypeOK
<1>2. Head(stdout) = stdout[1] /\ 1 \in 1..Len(stdout) /\ Len(stdout) \in Nat
  BY <1>1, PipeRead
<1>3. UnsolicitedInv /\ UnansweredInv /\ AnsweredInv
  BY DEF SyncInv
<1>4. ASSUME stdout[1].for = 0
      PROVE  FALSE
  <2>1. stdout[1].id = lastPromptId
    <3>1. CASE Unanswered
      BY <1>2, <1>3, <3>1 DEF UnansweredInv
    <3>2. CASE ~Unanswered
      <4>1. PICK k \in 1..Len(stdout) : stdout[k].for # 0
        BY <3>2 DEF Unanswered
      <4>2. 1 < k
        BY <1>2, <1>4, <4>1
      <4> QED
        BY <1>2, <1>3, <1>4, <4>1, <4>2 DEF AnsweredInv
    <3> QED
      BY <3>1, <3>2
  <2>2. stdout[1] = Unsolicited(lastPromptId)
    BY <1>2, <1>3, <1>4, <2>1 DEF UnsolicitedInv
  <2>3. lastPromptId >= 1
    BY DEF SyncInv
  <2> QED
    BY <1>1, <1>2, <2>2, <2>3 DEF Skipped, Unsolicited, Reply, isGoodPrompt, isInterrupted
<1>5. stdout[1].for = sent /\ stdout[1].id = line
  BY <1>2, <1>3, <1>4 DEF AnsweredInv
<1>6. \A i \in 2..Len(stdout) : stdout[i].for = 0 /\ stdout[i].id = line
  <2> TAKE i \in 2..Len(stdout)
  <2>1. i \in 1..Len(stdout) \ {1} /\ ~(i < 1)
    BY <1>2
  <2> QED
    BY <1>2, <1>3, <1>4, <2>1 DEF AnsweredInv
<1> QED
  BY <1>2, <1>5, <1>6

\* A reply that readReply skips is the reply to no command.
LEMMA SkippedReplyIsUnsolicited ==
  ASSUME TypeInv, SyncInv, pc = "reading", stdout # <<>>, Skipped(Head(stdout))
  PROVE  Head(stdout).for = 0
<1>1. stdout \in Seq(Replies)
  BY DEF TypeInv, TypeOK
<1>2. Head(stdout) = stdout[1] /\ 1 \in 1..Len(stdout)
  BY <1>1, PipeRead
<1> QED
  BY <1>2 DEF SyncInv, AnsweredInv

\* Steps of the client that read nothing from the pipe and send nothing into it.
LEMMA SyncQuietClient ==
  ASSUME TypeInv, SyncInv,
         \/ ConstructFailed \/ WakeAndInterrupt \/ ReadFailed \/ InterruptQuestion
         \/ Destroy \/ Destroyed \/ interruptMaxima
  PROVE  SyncInv'
<1>1. CASE ConstructFailed
  BY <1>1 DEF ConstructFailed, SyncInv, OpeningInv, Awaiting, maxima
<1>2. CASE ReadFailed
  <2>1. stdout' = <<>> /\ Len(<<>>) = 0
    BY <1>2, EmptySeq DEF ReadFailed, maxima
  <2>2. Unanswered /\ Unanswered' /\ 1..Len(stdout) = {} /\ 1..Len(stdout') = {}
    BY <1>2, <2>1 DEF ReadFailed, Unanswered
  <2> QED
    BY <1>2, <2>2 DEF ReadFailed, SyncInv, OpeningInv, UnsolicitedInv, UnansweredInv,
                      AnsweredInv, MaximaInv, Awaiting, maxima
<1>3. ASSUME \/ WakeAndInterrupt \/ InterruptQuestion
             \/ Destroy \/ Destroyed \/ interruptMaxima
      PROVE  SyncInv'
  <2>1. /\ UNCHANGED <<sent, lastPromptId, got, stdin, stdout, mode, running, line, alive>>
        /\ Awaiting' = Awaiting
        /\ pc \notin {"starting", "failed"} /\ pc' \notin {"starting", "failed"}
        /\ pc' \in {"interrupting", "closing"} => pc \in {"interrupting", "closing"}
    BY <1>3 DEF WakeAndInterrupt, InterruptQuestion, Destroy, Destroyed, interruptMaxima,
                Awaiting, maxima, client
  <2>2. Unanswered' = Unanswered /\ \A r : Skipped(r)' = Skipped(r)
    BY <2>1 DEF Unanswered, Skipped
  <2>3. UnsolicitedInv' /\ UnansweredInv' /\ MaximaInv'
    BY <2>1, <2>2 DEF SyncInv, UnsolicitedInv, UnansweredInv, MaximaInv
  <2>4. AnsweredInv'
    BY <2>1, <2>2 DEF SyncInv, AnsweredInv, Skipped
  <2> QED
    BY <2>1, <2>3, <2>4 DEF SyncInv, OpeningInv
<1> QED
  BY <1>1, <1>2, <1>3

\* A command put into an empty pipe is the only one there.
LEMMA AppendToEmpty ==
  ASSUME NEW e
  PROVE  /\ Append(<<>>, e) = <<e>>
         /\ <<e>> # <<>> /\ Head(<<e>>) = e /\ Tail(<<e>>) = <<>>
OBVIOUS

\* The steps that write a command.
LEMMA SyncWrite ==
  ASSUME TypeInv, SyncInv, (\E o \in Operations : Call(o)) \/ SendClosing
  PROVE  SyncInv'
<1>1. PICK closing \in BOOLEAN : Write(closing)
  BY DEF Call, SendClosing
<1>2. /\ UNCHANGED <<lastPromptId, got, stdout, mode, line, alive>>
      /\ pc \in {"idle", "closing"} /\ pc' \in {"sleeping", "reading"}
  BY DEF Call, SendClosing
<1>3. Unanswered /\ ~Awaiting /\ Awaiting'
  BY <1>2 DEF SyncInv, AnsweredInv, Unanswered, Awaiting
<1>4. Unanswered' /\ stdout' = stdout
  BY <1>2, <1>3 DEF Unanswered
<1>5. UnsolicitedInv' /\ UnansweredInv' /\ AnsweredInv'
  BY <1>2, <1>3, <1>4 DEF SyncInv, UnsolicitedInv, UnansweredInv, AnsweredInv, Unanswered
<1>6. MaximaInv'
  <2>1. ASSUME alive
        PROVE  mode = "top" /\ stdin = <<>>
    BY <1>2, <1>3, <2>1 DEF SyncInv, MaximaInv
  <2>2. ASSUME alive
        PROVE  stdin' # <<>> /\ Head(stdin').for = sent' /\ Tail(stdin') = <<>>
    <3> DEFINE command == [for |-> sent + 1, closing |-> closing]
    <3>1. stdin' = Append(<<>>, command) /\ sent' = sent + 1
      BY <1>1, <2>1, <2>2 DEF Write
    <3>2. command.for = sent + 1
      OBVIOUS
    <3> HIDE DEF command
    <3> QED
      BY <3>1, <3>2, AppendToEmpty
  <2> QED
    BY <1>2, <1>3, <1>4, <2>1, <2>2 DEF MaximaInv
<1>7. got \in Nat /\ sent \in Nat /\ sent' = sent + 1
  BY <1>1, ConstantsAssumption DEF Write, TypeInv, TypeOK, ConstantsAssumption
<1>8. got <= sent /\ line >= 1 /\ lastPromptId >= 1
  BY DEF SyncInv
<1>9. got' <= sent' /\ got' < sent' /\ line' >= 1 /\ lastPromptId' >= 1
  BY <1>2, <1>7, <1>8
<1>10. OpeningInv'
  BY <1>2 DEF OpeningInv
<1> QED
  BY <1>2, <1>5, <1>6, <1>9, <1>10 DEF SyncInv

\* The constructor takes the first prompt.
LEMMA SyncConstruct ==
  ASSUME TypeInv, SyncInv, Construct
  PROVE  SyncInv'
<1>1. /\ stdout = <<Reply(0, "none", 1, FALSE)>> /\ mode = "top" /\ stdin = <<>>
      /\ lastPromptId = 1 /\ line = 1 /\ sent = 0
  BY DEF Construct, SyncInv, OpeningInv
<1>2. stdout' = <<>> /\ 1..Len(stdout') = {}
  BY <1>1 DEF Construct
<1> QED
  BY <1>1, <1>2 DEF Construct, SyncInv, OpeningInv, UnsolicitedInv, UnansweredInv,
                    AnsweredInv, MaximaInv, Awaiting, Unanswered

\* readReply drops the reply to an interrupt.
LEMMA SyncSkip ==
  ASSUME TypeInv, SyncInv, SkipReply
  PROVE  SyncInv'
<1>1. /\ stdout' = Tail(stdout)
      /\ UNCHANGED <<pc, sent, lastPromptId, got, stdin, mode, running, line, alive>>
      /\ pc = "reading"
  BY DEF SkipReply, client
<1>2. /\ Len(stdout) \in Nat \ {0} /\ Len(stdout') = Len(stdout) - 1
      /\ \A i \in 1..Len(stdout') : stdout'[i] = stdout[i + 1]
      /\ Head(stdout) = stdout[1]
  BY <1>1, PipeRead DEF SkipReply, TypeInv, TypeOK
<1>3. stdout[1].for = 0
  BY <1>2, SkippedReplyIsUnsolicited DEF SkipReply
<1>4. lastPromptId' = lastPromptId
  BY <1>1
<1>5. Unanswered' = Unanswered
  <2>1. ASSUME Unanswered'
        PROVE  Unanswered
    <3> SUFFICES ASSUME NEW i \in 1..Len(stdout), i # 1
                 PROVE  stdout[i].for = 0
      BY <1>3 DEF Unanswered
    <3>1. i - 1 \in 1..Len(stdout') /\ stdout'[i - 1] = stdout[i]
      BY <1>2
    <3> QED
      BY <2>1, <3>1 DEF Unanswered
  <2>2. ASSUME Unanswered
        PROVE  Unanswered'
    BY <1>2, <2>2 DEF Unanswered
  <2> QED
    BY <2>1, <2>2 DEF Unanswered
<1>6. Awaiting' /\ Awaiting
  BY <1>1 DEF Awaiting
<1>7. UnsolicitedInv'
  BY <1>1, <1>2 DEF SyncInv, UnsolicitedInv
<1>8. UnansweredInv'
  BY <1>1, <1>2, <1>5 DEF SyncInv, UnansweredInv
<1>9. AnsweredInv'
  <2> SUFFICES ASSUME NEW k \in 1..Len(stdout'), stdout'[k].for # 0
               PROVE  /\ stdout'[k].for = sent'
                      /\ stdout'[k].id = line'
                      /\ ~Skipped(stdout'[k])
                      /\ \A i \in 1..Len(stdout') \ {k} :
                           /\ stdout'[i].for = 0
                           /\ stdout'[i].id = IF i < k THEN lastPromptId' ELSE line'
    BY <1>4, <1>6 DEF AnsweredInv, Skipped
  <2>1. k + 1 \in 1..Len(stdout) /\ stdout'[k] = stdout[k + 1]
    BY <1>2
  <2>2. /\ stdout[k + 1].for = sent
        /\ stdout[k + 1].id = line
        /\ ~Skipped(stdout[k + 1])
        /\ \A i \in 1..Len(stdout) \ {k + 1} :
             /\ stdout[i].for = 0
             /\ stdout[i].id = IF i < k + 1 THEN lastPromptId ELSE line
    BY <1>1, <2>1 DEF SyncInv, AnsweredInv
  <2>3. ASSUME NEW i \in 1..Len(stdout') \ {k}
        PROVE  /\ stdout'[i].for = 0
               /\ stdout'[i].id = IF i < k THEN lastPromptId' ELSE line'
    <3>1. i + 1 \in 1..Len(stdout) \ {k + 1} /\ stdout'[i] = stdout[i + 1]
      BY <1>2
    <3>2. (i + 1 < k + 1) = (i < k)
      BY <1>2
    <3> QED
      BY <1>1, <2>2, <3>1, <3>2
  <2> QED
    BY <1>1, <2>1, <2>2, <2>3
<1>10. MaximaInv'
  BY <1>1, <1>5, <1>6 DEF SyncInv, MaximaInv
<1> QED
  BY <1>1, <1>6, <1>7, <1>8, <1>9, <1>10 DEF SyncInv, OpeningInv

\* readReply takes the reply to the command written last.
LEMMA SyncTake ==
  ASSUME TypeInv, SyncInv, TakeReply
  PROVE  SyncInv'
<1>1. /\ stdout' = Tail(stdout)
      /\ lastPromptId' = Head(stdout).id
      /\ got' = Head(stdout).for
      /\ UNCHANGED <<sent, stdin, mode, running, line, alive>>
      /\ pc = "reading" /\ stdout # <<>> /\ ~Skipped(Head(stdout))
      /\ pc' \in {"interrupting", "closing", "idle"}
  BY DEF TakeReply, After
<1>2. /\ Len(stdout) \in Nat \ {0} /\ Len(stdout') = Len(stdout) - 1
      /\ \A i \in 1..Len(stdout') : stdout'[i] = stdout[i + 1]
      /\ Head(stdout) = stdout[1]
  BY <1>1, PipeRead DEF TypeInv, TypeOK
<1>3. /\ Head(stdout).for = sent
      /\ Head(stdout).id = line
      /\ \A i \in 2..Len(stdout) : stdout[i].for = 0 /\ stdout[i].id = line
  BY <1>1, TakenReplyIsOwn
<1>4. Awaiting /\ got < sent /\ got \in Nat /\ sent \in Nat /\ sent # 0
  BY <1>1, ConstantsAssumption DEF SyncInv, Awaiting, TypeInv, TypeOK, ConstantsAssumption
<1>5. ~Awaiting' /\ lastPromptId' = line' /\ got' = sent'
  BY <1>1, <1>3 DEF Awaiting
<1>6. \A i \in 1..Len(stdout') : stdout'[i].for = 0 /\ stdout'[i].id = line
  <2> SUFFICES ASSUME NEW i \in 1..Len(stdout')
               PROVE  stdout'[i].for = 0 /\ stdout'[i].id = line
    OBVIOUS
  <2>1. i + 1 \in 2..Len(stdout)
    BY <1>2
  <2>2. stdout'[i] = stdout[i + 1]
    BY <1>2
  <2> QED
    BY <1>3, <2>1, <2>2
<1>7. Unanswered' /\ UnansweredInv' /\ AnsweredInv'
  BY <1>1, <1>5, <1>6 DEF Unanswered, UnansweredInv, AnsweredInv
<1>8. UnsolicitedInv'
  BY <1>1, <1>2 DEF SyncInv, UnsolicitedInv
<1>9. MaximaInv'
  <2>1. ~Unanswered
    BY <1>2, <1>3, <1>4 DEF Unanswered
  <2> QED
    BY <1>1, <1>5, <2>1 DEF SyncInv, MaximaInv
<1>10. got' <= sent' /\ line' >= 1 /\ lastPromptId' >= 1
  BY <1>1, <1>3, <1>4 DEF SyncInv
<1>11. OpeningInv'
  BY <1>1 DEF OpeningInv
<1> QED
  BY <1>1, <1>5, <1>7, <1>8, <1>9, <1>10, <1>11 DEF SyncInv

\* Maxima writes its first prompt.
LEMMA SyncBoot ==
  ASSUME TypeInv, SyncInv, Boot
  PROVE  SyncInv'
<1>1. pc = "starting"
  BY DEF Boot, SyncInv, MaximaInv
<1>2. stdout = <<>> /\ stdin = <<>> /\ ~sigint
  BY <1>1 DEF Boot, SyncInv, OpeningInv
<1>3. /\ stdout' = <<Reply(0, "none", 1, FALSE)>>
      /\ mode' = "top" /\ line' = 1
  BY <1>2 DEF Boot, Emit, isGoodPrompt, Reply
<1>4. UNCHANGED <<pc, sent, lastPromptId, got, stdin, sigint, alive>>
  BY DEF Boot, client
<1>5. OpeningInv'
  BY <1>1, <1>2, <1>3, <1>4 DEF SyncInv, OpeningInv
<1> QED
  BY <1>1, <1>3, <1>4, <1>5 DEF SyncInv, Awaiting

\* Maxima writes the reply r to the command the client waits for, and there is no
\* other command left.
LEMMA SyncAnswer ==
  ASSUME TypeInv, SyncInv, Awaiting, Unanswered,
         NEW r \in Replies, r.for = sent, r.id # 0, ~Skipped(r),
         Emit(r, "top"), stdin' = <<>>, UNCHANGED <<client, alive>>
  PROVE  SyncInv'
<1>1. /\ UNCHANGED <<pc, sent, lastPromptId, got, alive>>
      /\ mode' = "top" /\ line' = r.id /\ stdout' = Append(stdout, r)
      /\ pc \in {"sleeping", "reading"}
  BY DEF client, Emit, isGoodPrompt, Awaiting
<1>2. /\ Len(stdout) \in Nat /\ Len(stdout') = Len(stdout) + 1
      /\ \A i \in 1..Len(stdout) : stdout'[i] = stdout[i]
      /\ stdout'[Len(stdout) + 1] = r
  BY <1>1, PipeAppend DEF TypeInv, TypeOK
<1>3. sent \in Nat /\ got \in Nat /\ got < sent /\ r.for # 0
  BY ConstantsAssumption DEF SyncInv, TypeInv, TypeOK, ConstantsAssumption
<1>4. \A i \in 1..Len(stdout) : stdout'[i].for = 0 /\ stdout'[i].id = lastPromptId
  BY <1>1, <1>2 DEF SyncInv, Unanswered, UnansweredInv
<1>5. Awaiting' /\ ~Unanswered'
  BY <1>1, <1>2, <1>3 DEF Awaiting, Unanswered
<1>6. UnsolicitedInv'
  <2> SUFFICES ASSUME NEW i \in 1..Len(stdout'), stdout'[i].for = 0
               PROVE  stdout'[i] = Unsolicited(stdout'[i].id)
    BY DEF UnsolicitedInv
  <2>1. i \in 1..Len(stdout) /\ stdout'[i] = stdout[i]
    BY <1>2, <1>3
  <2> QED
    BY <1>1, <2>1 DEF SyncInv, UnsolicitedInv
<1>7. AnsweredInv'
  <2> SUFFICES ASSUME NEW k \in 1..Len(stdout'), stdout'[k].for # 0
               PROVE  /\ stdout'[k].for = sent'
                      /\ stdout'[k].id = line'
                      /\ ~Skipped(stdout'[k])
                      /\ \A i \in 1..Len(stdout') \ {k} :
                           /\ stdout'[i].for = 0
                           /\ stdout'[i].id = IF i < k THEN lastPromptId' ELSE line'
    BY <1>1, <1>5 DEF AnsweredInv, Skipped
  <2>1. k = Len(stdout) + 1 /\ stdout'[k] = r
    BY <1>2, <1>4
  <2>2. \A i \in 1..Len(stdout') \ {k} : i \in 1..Len(stdout) /\ i < k
    BY <1>2, <2>1
  <2> QED
    BY <1>1, <1>4, <2>1, <2>2
<1>8. MaximaInv' /\ UnansweredInv'
  BY <1>1, <1>5 DEF MaximaInv, UnansweredInv
<1>9. line' >= 1
  BY <1>1 DEF Replies
<1> QED
  BY <1>1, <1>3, <1>6, <1>7, <1>8, <1>9 DEF SyncInv, OpeningInv

\* SIGINT at the prompt adds a reply that readReply will skip.
LEMMA SyncInterruptedIdle ==
  ASSUME TypeInv, SyncInv, InterruptedIdle
  PROVE  SyncInv'
<1>1. /\ UNCHANGED <<pc, sent, lastPromptId, got, stdin, running, alive>>
      /\ mode = "top" /\ alive /\ sigint
      /\ Emit(Unsolicited(line), "top")
  BY DEF InterruptedIdle, client
<1>2. line \in Nat /\ line >= 1 /\ Unsolicited(line) \in Replies
  BY ConstantsAssumption
     DEF SyncInv, TypeInv, TypeOK, Unsolicited, Reply, Replies, ConstantsAssumption
<1>3. /\ stdout' = Append(stdout, Unsolicited(line)) /\ mode' = mode /\ line' = line
      /\ Unsolicited(line).for = 0 /\ Unsolicited(line).id = line
  BY <1>1, <1>2 DEF Emit, isGoodPrompt, Unsolicited, Reply
<1>4. /\ Len(stdout) \in Nat /\ Len(stdout') = Len(stdout) + 1
      /\ \A i \in 1..Len(stdout) : stdout'[i] = stdout[i]
      /\ stdout'[Len(stdout) + 1] = Unsolicited(line)
  BY <1>2, <1>3, PipeAppend DEF TypeInv, TypeOK
<1>5. pc \notin {"starting", "failed"}
  BY <1>1 DEF SyncInv, OpeningInv
<1>6. Awaiting' = Awaiting
  BY <1>1 DEF Awaiting
<1>7. Unanswered' = Unanswered
  BY <1>3, <1>4 DEF Unanswered
<1>8. UnsolicitedInv'
  <2> SUFFICES ASSUME NEW i \in 1..Len(stdout'), stdout'[i].for = 0
               PROVE  stdout'[i] = Unsolicited(stdout'[i].id)
    BY DEF UnsolicitedInv
  <2>1. CASE i = Len(stdout) + 1
    BY <1>3, <1>4, <2>1
  <2>2. CASE i # Len(stdout) + 1
    BY <1>4, <1>5, <2>2 DEF SyncInv, UnsolicitedInv
  <2> QED
    BY <2>1, <2>2
<1>9. UnansweredInv'
  <2> SUFFICES ASSUME Unanswered
               PROVE  /\ line' = lastPromptId'
                      /\ \A i \in 1..Len(stdout') : stdout'[i].id = lastPromptId'
    BY <1>7 DEF UnansweredInv
  <2>1. line = lastPromptId /\ \A i \in 1..Len(stdout) : stdout[i].id = lastPromptId
    BY <1>5 DEF SyncInv, UnansweredInv
  <2> QED
    BY <1>1, <1>3, <1>4, <2>1
<1>10. AnsweredInv'
  <2> SUFFICES ASSUME NEW k \in 1..Len(stdout'), stdout'[k].for # 0
               PROVE  /\ Awaiting
                      /\ stdout'[k].for = sent'
                      /\ stdout'[k].id = line'
                      /\ ~Skipped(stdout'[k])
                      /\ \A i \in 1..Len(stdout') \ {k} :
                           /\ stdout'[i].for = 0
                           /\ stdout'[i].id = IF i < k THEN lastPromptId' ELSE line'
    BY <1>1, <1>6 DEF AnsweredInv, Skipped
  <2>1. k \in 1..Len(stdout) /\ stdout'[k] = stdout[k]
    BY <1>3, <1>4
  <2>2. /\ Awaiting
        /\ stdout[k].for = sent
        /\ stdout[k].id = line
        /\ ~Skipped(stdout[k])
        /\ \A i \in 1..Len(stdout) \ {k} :
             /\ stdout[i].for = 0
             /\ stdout[i].id = IF i < k THEN lastPromptId ELSE line
    BY <1>5, <2>1 DEF SyncInv, AnsweredInv
  <2>3. ASSUME NEW i \in 1..Len(stdout') \ {k}
        PROVE  /\ stdout'[i].for = 0
               /\ stdout'[i].id = IF i < k THEN lastPromptId' ELSE line'
    <3>1. CASE i = Len(stdout) + 1
      BY <1>3, <1>4, <2>1, <3>1
    <3>2. CASE i # Len(stdout) + 1
      BY <1>1, <1>3, <1>4, <2>2, <3>2
    <3> QED
      BY <3>1, <3>2
  <2> QED
    BY <1>1, <1>3, <2>1, <2>2, <2>3
<1>11. MaximaInv'
  BY <1>1, <1>3, <1>5, <1>6, <1>7 DEF SyncInv, MaximaInv
<1> QED
  BY <1>1, <1>3, <1>5, <1>6, <1>8, <1>9, <1>10, <1>11 DEF SyncInv, OpeningInv

\* Maxima reads or evaluates something only while the client waits for a reply.
LEMMA BusyMaxima ==
  ASSUME TypeInv, SyncInv, alive, mode = "eval" \/ stdin # <<>>
  PROVE  /\ Awaiting /\ Unanswered
         /\ mode = "eval" => stdin = <<>> /\ running = sent
         /\ mode # "eval" => mode = "top" /\ Head(stdin).for = sent /\ Tail(stdin) = <<>>
         /\ line = lastPromptId
         /\ pc \notin {"starting", "failed"}
<1>1. pc \notin {"starting", "failed"}
  BY DEF SyncInv, OpeningInv
<1> QED
  BY <1>1 DEF SyncInv, MaximaInv, UnansweredInv

LEMMA SyncMaxima ==
  ASSUME Docile, TypeInv, SyncInv, Run \/ ResetLine \/ Exit
  PROVE  SyncInv'
<1>1. "ask" \notin Behaviours /\ "reset" \notin Behaviours /\ "echo" \notin Behaviours
  BY DEF Docile
<1>2. lastPromptId \in Nat /\ line \in Nat /\ sent \in 0..MaxCommands /\ line >= 1
  BY DEF SyncInv, TypeInv, TypeOK
<1>3. CASE ReadCommand
  <2>1. /\ Awaiting /\ Unanswered /\ Head(stdin).for = sent /\ Tail(stdin) = <<>>
        /\ pc \notin {"starting", "failed"}
    BY <1>3, BusyMaxima DEF ReadCommand
  <2>2. /\ UNCHANGED <<pc, sent, lastPromptId, got, stdout, line, alive>>
        /\ mode' = "eval" /\ stdin' = <<>> /\ running' = sent
    BY <1>3, <2>1 DEF ReadCommand, client
  <2>3. Awaiting' /\ Unanswered'
    BY <2>1, <2>2 DEF Awaiting, Unanswered
  <2>4. UnsolicitedInv' /\ UnansweredInv'
    BY <2>1, <2>2 DEF SyncInv, UnsolicitedInv, UnansweredInv
  <2>5. AnsweredInv' /\ MaximaInv'
    BY <2>2, <2>3 DEF AnsweredInv, MaximaInv, Unanswered
  <2> QED
    BY <2>1, <2>2, <2>4, <2>5 DEF SyncInv, OpeningInv, Awaiting
<1>4. CASE SyntaxError
  <2>1. Awaiting /\ Unanswered /\ Head(stdin).for = sent /\ Tail(stdin) = <<>>
    BY <1>4, BusyMaxima DEF SyntaxError
  <2>2. Emit(Reply(sent, "none", line, FALSE), "top")
    BY <1>1, <1>4, <2>1 DEF SyntaxError
  <2>3. Reply(sent, "none", line, FALSE) \in Replies
    BY <1>2 DEF Reply, Replies
  <2>4. ~Skipped(Reply(sent, "none", line, FALSE))
    BY DEF Skipped, isInterrupted, Reply
  <2>5. Reply(sent, "none", line, FALSE).for = sent /\ Reply(sent, "none", line, FALSE).id # 0
    BY <1>2 DEF Reply
  <2>6. stdin' = <<>> /\ UNCHANGED <<client, alive>>
    BY <1>4, <2>1 DEF SyntaxError
  <2> QED
    BY <2>1, <2>2, <2>3, <2>4, <2>5, <2>6, SyncAnswer
<1>5. CASE Finish
  <2>1. Awaiting /\ Unanswered /\ stdin = <<>> /\ running = sent
    BY <1>5, BusyMaxima DEF Finish
  <2>2. PICK outs \in {"none", "result", "other"}, id \in {1, line + 1} :
          Emit(Reply(running, outs, id, FALSE), "top")
    BY <1>5 DEF Finish
  <2> DEFINE r == Reply(running, outs, id, FALSE)
  <2>3. r \in Replies /\ r.for = sent /\ r.id # 0 /\ ~Skipped(r)
    BY <1>2, <2>1, <2>2 DEF Skipped, isInterrupted, Reply, Replies
  <2>4. stdin' = <<>> /\ UNCHANGED <<client, alive>>
    BY <1>5, <2>1 DEF Finish
  <2> HIDE DEF r
  <2>5. Emit(r, "top")
    BY <2>2 DEF r
  <2> QED
    BY <2>1, <2>3, <2>4, <2>5, SyncAnswer
<1>6. CASE InterruptedEval
  <2>1. Awaiting /\ Unanswered /\ stdin = <<>> /\ running = sent /\ line = lastPromptId
    BY <1>6, BusyMaxima DEF InterruptedEval
  <2>2. PICK outs \in {"none", "other"} : Emit(Reply(running, outs, line + 1, TRUE), "top")
    BY <1>6 DEF InterruptedEval
  <2> DEFINE r == Reply(running, outs, line + 1, TRUE)
  <2>3. r \in Replies /\ r.for = sent /\ r.id # 0 /\ ~Skipped(r)
    BY <1>2, <2>1, <2>2 DEF Skipped, Reply, Replies
  <2>4. stdin' = <<>> /\ UNCHANGED <<client, alive>>
    BY <1>6, <2>1 DEF InterruptedEval
  <2> HIDE DEF r
  <2>5. Emit(r, "top")
    BY <2>2 DEF r
  <2> QED
    BY <2>1, <2>3, <2>4, <2>5, SyncAnswer
<1>7. CASE EndOfInput \/ Exit
  <2>1. /\ UNCHANGED <<pc, sent, lastPromptId, got, stdin, stdout, mode, running, line, sigint>>
        /\ ~alive'
    BY <1>7 DEF EndOfInput, Exit, client
  <2>2. Awaiting' = Awaiting /\ Unanswered' = Unanswered
    BY <2>1 DEF Awaiting, Unanswered
  <2>3. OpeningInv' = OpeningInv
    BY <2>1 DEF OpeningInv
  <2>4. UnsolicitedInv' = UnsolicitedInv /\ UnansweredInv' = UnansweredInv
    BY <2>1, <2>2 DEF UnsolicitedInv, UnansweredInv
  <2>5. AnsweredInv' = AnsweredInv
    BY <2>1, <2>2 DEF AnsweredInv, Skipped
  <2>6. MaximaInv'
    BY <2>1 DEF MaximaInv
  <2> QED
    BY <2>1, <2>2, <2>3, <2>4, <2>5, <2>6 DEF SyncInv
<1>8. ~Question /\ ~ResetLine
  BY <1>1 DEF Question, ResetLine
<1>9. ~ReadAnswer /\ ~InterruptedQuestion
  <2>1. alive => mode # "question"
    BY DEF SyncInv, OpeningInv, MaximaInv
  <2> QED
    BY <2>1 DEF ReadAnswer, InterruptedQuestion
<1> QED
  BY <1>3, <1>4, <1>5, <1>6, <1>7, <1>8, <1>9, SyncBoot, SyncInterruptedIdle DEF Run

LEMMA SyncStep ==
  ASSUME Docile, TypeInv, SyncInv, [Next]_vars
  PROVE  SyncInv'
<1>1. CASE UNCHANGED vars
  <2>1. UNCHANGED <<pc, sent, lastPromptId, got, stdin, stdout, mode, running, line, sigint, alive>>
    BY <1>1 DEF vars, client, maxima
  <2> QED
    BY <2>1 DEF SyncInv, OpeningInv, UnsolicitedInv, UnansweredInv, AnsweredInv, MaximaInv,
                Awaiting, Unanswered, Skipped
<1>2. CASE Gone
  BY <1>1, <1>2 DEF Gone
<1> QED
  BY <1>1, <1>2, SyncQuietClient, SyncWrite, SyncConstruct, SyncSkip, SyncTake, SyncMaxima
     DEF Next, Proceed

\* The invariant that keeps the client and Maxima together.
THEOREM InSync == ASSUME Docile PROVE Spec => []SyncInv
<1>1. Init /\ [][Next]_vars => [](TypeInv /\ SyncInv)
  BY TypeInit, TypeStep, SyncInit, SyncStep, PTL
<1> QED
  BY <1>1, PTL DEF Spec

-----------------------------------------------------------------------------
(* Taking turns.  Nobody sends a SIGINT: neither another thread, nor          *)
(* executeAndInterrupt, nor executeCommand to get out of a question.          *)

Uninterrupted ==
  /\ MaxInterrupts = 0
  /\ "testInterrupt" \notin Operations
  /\ "command" \in Operations => "ask" \notin Behaviours
  /\ "echo" \notin Behaviours

LEMMA DialogueInit == Init => DialogueInv
<1>1. Init => OpeningInv /\ ~sigint
  BY Zenon DEF Init, OpeningInv
<1>2. Init => /\ pc = "starting" /\ op = "none" /\ got = 0 /\ sent = 0 /\ interrupts = 0
              /\ mode = "boot"
  BY DEF Init
<1> QED
  BY <1>1, <1>2 DEF DialogueInv

\* A command is written when it is the client's turn.
LEMMA DialogueWrite ==
  ASSUME TypeInv, DialogueInv, (\E o \in Operations : Call(o)) \/ SendClosing
  PROVE  /\ stdout = <<>>
         /\ alive => AtPrompt
         /\ alive => stdin' # <<>> /\ Head(stdin').for = sent' /\ Tail(stdin') = <<>>
<1>1. PICK closing \in BOOLEAN : Write(closing)
  BY DEF Call, SendClosing
<1>2. pc \in {"idle", "closing"}
  BY DEF Call, SendClosing
<1>3. stdout = <<>> /\ (alive => AtPrompt)
  BY <1>2 DEF DialogueInv, ReplyInv, TurnInv
<1> DEFINE command == [for |-> sent + 1, closing |-> closing]
<1>4. alive => stdin' = Append(<<>>, command) /\ sent' = sent + 1
  BY <1>1, <1>3 DEF Write, AtPrompt
<1>5. command.for = sent + 1
  OBVIOUS
<1> HIDE DEF command
<1> QED
  BY <1>3, <1>4, <1>5, AppendToEmpty

\* The reply in the pipe is alone there, and is not skipped.
LEMMA DialogueReply ==
  ASSUME TypeInv, DialogueInv, pc = "reading", stdout # <<>>
  PROVE  /\ Head(stdout).for = sent
         /\ ~Skipped(Head(stdout))
         /\ Tail(stdout) = <<>>
BY DEF DialogueInv, ReplyInv, Skipped

LEMMA DialogueClient ==
  ASSUME Uninterrupted, TypeInv, DialogueInv,
         \/ \E o \in Operations : Call(o)
         \/ Destroy \/ Proceed \/ interruptMaxima
  PROVE  DialogueInv'
<1>0. got \in Nat /\ sent \in Nat /\ interrupts = 0
  BY ConstantsAssumption DEF DialogueInv, TypeInv, TypeOK, ConstantsAssumption
<1>1. CASE Construct
  <2>1. stdout = <<Reply(0, "none", 1, FALSE)>> /\ mode = "top" /\ stdin = <<>>
    BY <1>1 DEF Construct, DialogueInv, OpeningInv
  <2>2. stdout' = <<>> /\ pc' = "idle"
    BY <1>1, <2>1 DEF Construct
  <2>3. lastPromptId = 1 /\ line = 1
    BY <1>1 DEF Construct, DialogueInv, OpeningInv
  <2>4. UNCHANGED <<op, sent, lastPromptId, got, interrupts, sigint, stdin, mode, line>>
    BY <1>1 DEF Construct
  <2>5. ReplyInv' /\ TurnInv'
    BY <2>1, <2>2, <2>3, <2>4 DEF ReplyInv, TurnInv, AtPrompt, promptId
  <2> QED
    BY <2>2, <2>4, <2>5 DEF DialogueInv, OpeningInv
<1>2. CASE ConstructFailed
  BY <1>2 DEF ConstructFailed, DialogueInv, OpeningInv, maxima
<1>3. CASE (\E o \in Operations : Call(o)) \/ SendClosing
  <2>1. /\ UNCHANGED <<interrupts, lastPromptId, got, sigint, stdout, mode, line, alive>>
        /\ sent' = sent + 1
        /\ pc \in {"idle", "closing"}
    BY <1>3 DEF Call, SendClosing, Write
  <2>2. pc' = "reading" /\ (op' \in {"command", "cleanup"} => "command" \in Operations)
    <3>1. CASE SendClosing
      BY <3>1 DEF SendClosing, TypeInv, DialogueInv
    <3>2. CASE \E o \in Operations : Call(o)
      BY <3>2, ConstantsAssumption DEF Call, Uninterrupted, ConstantsAssumption, AllOperations
    <3> QED
      BY <1>3, <3>1, <3>2
  <2>3. /\ stdout = <<>>
        /\ alive => AtPrompt
        /\ alive => stdin' # <<>> /\ Head(stdin').for = sent' /\ Tail(stdin') = <<>>
    BY <1>3, DialogueWrite
  <2>4. ReplyInv' /\ TurnInv'
    BY <2>1, <2>2, <2>3 DEF ReplyInv, TurnInv, AtPrompt
  <2> QED
    BY <1>0, <2>1, <2>2, <2>4 DEF DialogueInv, OpeningInv
<1>4. CASE TakeReply
  <2>1. pc = "reading" /\ stdout # <<>>
    BY <1>4 DEF TakeReply
  <2>2. got' = sent /\ stdout' = <<>>
    BY <1>4, <2>1, DialogueReply DEF TakeReply
  <2>3. /\ UNCHANGED <<op, sent, interrupts, sigint, stdin, mode, line, alive>>
        /\ lastPromptId' = Head(stdout).id
    BY <1>4 DEF TakeReply
  <2>4. op = "command" => isGoodPrompt(Head(stdout))
    BY <2>1 DEF DialogueInv, ReplyInv
  <2>5. pc' \in {"idle", "closing"}
    BY <1>4, <2>4 DEF TakeReply, After
  <2>6. alive => AtPrompt /\ Head(stdout).id = promptId
    BY <2>1 DEF DialogueInv, ReplyInv
  <2>7. ReplyInv' /\ TurnInv'
    BY <2>2, <2>3, <2>5, <2>6 DEF ReplyInv, TurnInv, AtPrompt, promptId
  <2> QED
    BY <1>0, <2>2, <2>3, <2>5, <2>7 DEF DialogueInv, OpeningInv
<1>5. CASE ReadFailed
  BY <1>5 DEF ReadFailed, DialogueInv, OpeningInv, ReplyInv, TurnInv, maxima
<1>6. CASE Destroy
  BY <1>6 DEF Destroy, DialogueInv, OpeningInv, ReplyInv, TurnInv, AtPrompt, promptId, maxima
<1>7. CASE Destroyed
  BY <1>7 DEF Destroyed, DialogueInv, OpeningInv, ReplyInv, TurnInv, AtPrompt, promptId, maxima
<1>8. ~SkipReply
  BY DialogueReply DEF SkipReply
<1>9. ~WakeAndInterrupt /\ ~InterruptQuestion
  BY DEF WakeAndInterrupt, InterruptQuestion, DialogueInv
<1>10. ~interruptMaxima
  BY <1>0 DEF interruptMaxima, Uninterrupted
<1> QED
  BY <1>1, <1>2, <1>3, <1>4, <1>5, <1>6, <1>7, <1>8, <1>9, <1>10 DEF Proceed

\* Maxima answers the command it has read.
LEMMA DialogueAnswer ==
  ASSUME TypeInv, DialogueInv, NEW r, NEW m \in {"top", "question"}, Emit(r, m),
         pc = "reading", stdout = <<>>,
         r.for = sent, ~r.intr, r.id \in Nat,
         IF m = "question" THEN r.id = 0 /\ "ask" \in Behaviours ELSE r.id >= 1,
         op \in {"command", "cleanup"} => m = "top",
         stdin' = <<>>, UNCHANGED <<client, interrupts, sigint>>
  PROVE  DialogueInv'
<1>1. stdout' = Append(<<>>, r) /\ mode' = m
  BY DEF Emit
<1>2. stdout' # <<>> /\ Head(stdout') = r /\ Tail(stdout') = <<>>
  BY <1>1, AppendToEmpty
<1>3. promptId' = r.id /\ (m = "top" => line' >= 1)
  BY <1>1 DEF Emit, promptId, isGoodPrompt
<1>4. UNCHANGED <<pc, op, sent, lastPromptId, got, interrupts, sigint>>
  BY DEF client
<1>5. ReplyInv' /\ TurnInv'
  BY <1>1, <1>2, <1>3, <1>4 DEF ReplyInv, TurnInv, AtPrompt, isInterrupted, isGoodPrompt
<1> QED
  BY <1>1, <1>3, <1>4, <1>5 DEF DialogueInv, OpeningInv

\* Maxima reads or evaluates something only when it is its turn.
LEMMA MaximaTurn ==
  ASSUME TypeInv, DialogueInv, alive, mode = "eval" \/ stdin # <<>>
  PROVE  /\ pc = "reading" /\ stdout = <<>>
         /\ mode = "eval" => stdin = <<>> /\ running = sent
         /\ mode # "eval" => Head(stdin).for = sent /\ Tail(stdin) = <<>>
<1>1. pc \notin {"starting", "failed"}
  BY DEF DialogueInv, OpeningInv
<1>2. ReplyInv /\ TurnInv
  BY <1>1 DEF DialogueInv
<1>3. stdout = <<>>
  BY <1>2 DEF ReplyInv, AtPrompt
<1> QED
  BY <1>2, <1>3 DEF TurnInv, AtPrompt

LEMMA DialogueMaxima ==
  ASSUME Uninterrupted, TypeInv, DialogueInv, Run \/ ResetLine \/ Exit
  PROVE  DialogueInv'
<1>0. ~sigint /\ line \in Nat /\ sent \in Nat
  BY ConstantsAssumption DEF DialogueInv, TypeInv, TypeOK, ConstantsAssumption
<1>1. CASE Boot
  <2>1. alive /\ mode = "boot"
    BY <1>1 DEF Boot
  <2>2. pc = "starting"
    BY <2>1 DEF DialogueInv, ReplyInv, TurnInv, AtPrompt
  <2>3. stdout = <<>> /\ stdin = <<>> /\ lastPromptId = 1 /\ sent = 0
    BY <2>1, <2>2 DEF DialogueInv, OpeningInv
  <2>4. /\ stdout' = Append(<<>>, Reply(0, "none", 1, FALSE)) /\ mode' = "top" /\ line' = 1
        /\ UNCHANGED <<pc, op, sent, lastPromptId, got, interrupts, sigint, stdin, alive>>
    BY <1>1, <2>3 DEF Boot, Emit, isGoodPrompt, Reply, client
  <2>5. stdout' = <<Reply(0, "none", 1, FALSE)>>
    BY <2>4, AppendToEmpty
  <2> QED
    BY <1>0, <2>2, <2>3, <2>4, <2>5 DEF DialogueInv, OpeningInv
<1>2. CASE ReadCommand \/ ReadAnswer
  <2>1. alive /\ stdin # <<>> /\ mode # "eval"
    BY <1>2 DEF ReadCommand, ReadAnswer
  <2>2. pc = "reading" /\ stdout = <<>> /\ Head(stdin).for = sent /\ Tail(stdin) = <<>>
    BY <2>1, MaximaTurn
  <2>3. /\ running' = sent /\ stdin' = <<>> /\ mode' = "eval"
        /\ UNCHANGED <<pc, op, sent, lastPromptId, got, interrupts, sigint, stdout, line, alive>>
    BY <1>2, <2>2 DEF ReadCommand, ReadAnswer, client
  <2>4. ReplyInv' /\ TurnInv'
    BY <2>2, <2>3 DEF ReplyInv, TurnInv
  <2> QED
    BY <2>2, <2>3, <2>4 DEF DialogueInv, OpeningInv
<1>3. CASE SyntaxError
  <2>1. alive /\ stdin # <<>> /\ mode = "top"
    BY <1>3 DEF SyntaxError
  <2>2. pc = "reading" /\ stdout = <<>> /\ Head(stdin).for = sent /\ Tail(stdin) = <<>>
    BY <2>1, MaximaTurn
  <2>3. Emit(Reply(sent, "none", line, FALSE), "top")
    BY <1>3, <2>2 DEF SyntaxError, Uninterrupted
  <2>4. line >= 1 /\ stdin' = <<>> /\ UNCHANGED <<client, interrupts, sigint>>
    BY <1>3, <2>1, <2>2 DEF SyntaxError, DialogueInv
  <2> DEFINE r == Reply(sent, "none", line, FALSE)
  <2>5. r.for = sent /\ ~r.intr /\ r.id = line
    BY DEF Reply
  <2> HIDE DEF r
  <2>6. Emit(r, "top")
    BY <2>3 DEF r
  <2> QED
    BY <1>0, <2>2, <2>4, <2>5, <2>6, DialogueAnswer
<1>4. CASE Finish
  <2>1. pc = "reading" /\ stdout = <<>> /\ stdin = <<>> /\ running = sent
    BY <1>4, MaximaTurn DEF Finish
  <2>2. PICK outs \in {"none", "result", "other"}, id \in {1, line + 1} :
          Emit(Reply(running, outs, id, FALSE), "top")
    BY <1>4 DEF Finish
  <2>3. stdin' = <<>> /\ UNCHANGED <<client, interrupts, sigint>>
    BY <1>4, <2>1 DEF Finish
  <2> DEFINE r == Reply(running, outs, id, FALSE)
  <2>4. r.for = sent /\ ~r.intr /\ r.id \in Nat /\ r.id >= 1
    BY <1>0, <2>1 DEF Reply
  <2> HIDE DEF r
  <2>5. Emit(r, "top")
    BY <2>2 DEF r
  <2> QED
    BY <2>1, <2>3, <2>4, <2>5, DialogueAnswer
<1>5. CASE Question
  <2>1. pc = "reading" /\ stdout = <<>> /\ stdin = <<>> /\ running = sent
    BY <1>5, MaximaTurn DEF Question
  <2>2. PICK outs \in {"none", "other"} : Emit(Reply(running, outs, 0, FALSE), "question")
    BY <1>5 DEF Question
  <2>3. stdin' = <<>> /\ UNCHANGED <<client, interrupts, sigint>> /\ "ask" \in Behaviours
    BY <1>5, <2>1 DEF Question
  <2>4. op \notin {"command", "cleanup"}
    BY <2>3 DEF DialogueInv, Uninterrupted
  <2> DEFINE r == Reply(running, outs, 0, FALSE)
  <2>5. r.for = sent /\ ~r.intr /\ r.id = 0
    BY <2>1 DEF Reply
  <2> HIDE DEF r
  <2>6. Emit(r, "question")
    BY <2>2 DEF r
  <2> QED
    BY <2>1, <2>3, <2>4, <2>5, <2>6, DialogueAnswer
<1>6. CASE ResetLine
  <2>1. pc = "reading" /\ stdout = <<>> /\ stdin = <<>> /\ running = sent /\ mode = "eval"
    BY <1>6, MaximaTurn DEF ResetLine
  <2>2. UNCHANGED <<pc, op, sent, lastPromptId, got, interrupts, sigint, stdin, stdout, mode, running, alive>>
    BY <1>6 DEF ResetLine, client
  <2>3. ReplyInv' /\ TurnInv'
    BY <2>1, <2>2 DEF ReplyInv, TurnInv
  <2> QED
    BY <2>1, <2>2, <2>3 DEF DialogueInv, OpeningInv
<1>7. CASE EndOfInput \/ Exit
  <2>1. /\ UNCHANGED <<pc, op, sent, lastPromptId, got, interrupts, sigint, stdin, stdout, mode,
                       running, line>>
        /\ ~alive'
    BY <1>7 DEF EndOfInput, Exit, client
  <2>2. pc \notin {"starting", "failed"} => ReplyInv' /\ TurnInv'
    BY <2>1 DEF DialogueInv, ReplyInv, TurnInv, isInterrupted, isGoodPrompt
  <2>3. OpeningInv'
    BY <2>1 DEF DialogueInv, OpeningInv
  <2> QED
    BY <2>1, <2>2, <2>3 DEF DialogueInv
<1>8. ~InterruptedIdle /\ ~InterruptedEval /\ ~InterruptedQuestion
  BY <1>0 DEF InterruptedIdle, InterruptedEval, InterruptedQuestion
<1> QED
  BY <1>1, <1>2, <1>3, <1>4, <1>5, <1>6, <1>7, <1>8 DEF Run

LEMMA DialogueStep ==
  ASSUME Uninterrupted, TypeInv, DialogueInv, [Next]_vars
  PROVE  DialogueInv'
<1>1. CASE UNCHANGED vars
  <2>1. UNCHANGED <<pc, op, sent, lastPromptId, got, interrupts, sigint, stdin, stdout, mode,
                    running, line, alive>>
    BY <1>1 DEF vars, client, maxima
  <2> QED
    BY <2>1 DEF DialogueInv, OpeningInv, ReplyInv, TurnInv, AtPrompt, promptId
<1>2. CASE Gone
  BY <1>1, <1>2 DEF Gone
<1> QED
  BY <1>1, <1>2, DialogueClient, DialogueMaxima DEF Next

\* The invariant of the two sides taking turns, with questions and with commands
\* that set the line number back.
THEOREM TakesTurns == ASSUME Uninterrupted PROVE Spec => []DialogueInv
<1>1. Init /\ [][Next]_vars => [](TypeInv /\ DialogueInv)
  BY TypeInit, TypeStep, DialogueInit, DialogueStep, PTL
<1> QED
  BY <1>1, PTL DEF Spec

-----------------------------------------------------------------------------
(* Numbers.  Evaluations may ask and be interrupted as they like, but none    *)
(* sets the line number back half-way, and no syntax error looks like an      *)
(* interrupt.                                                                 *)

Numbered == Behaviours \subseteq {"ask", "exit"}

\* Maxima writes a reply with the number of its prompt, an interrupted evaluation
\* with a new one.
LEMMA LineEmit ==
  ASSUME TypeInv, LineInv, NEW r \in Replies, NEW m, Emit(r, m),
         lastPromptId' = lastPromptId, line' \in Nat,
         r.id <= line', r.intr => line <= line',
         r.for # 0 /\ r.intr => line < r.id
  PROVE  LineInv'
<1>1. PICK n \in Nat :
      /\ Len(stdout) = n /\ Len(stdout') = n + 1
      /\ \A i \in 1..n : stdout'[i] = stdout[i]
      /\ stdout'[n + 1] = r
  BY PipeAppend DEF Emit, TypeInv, TypeOK
<1>2. lastPromptId \in Nat /\ line \in Nat /\ r.id \in Nat
  BY DEF TypeInv, TypeOK, Replies
<1>3. \A i \in 1..n : stdout[i].id \in Nat
  <2> TAKE i \in 1..n
  <2>1. stdout[i] \in Replies
    BY <1>1, ElementOfSeq DEF TypeInv, TypeOK
  <2> QED
    BY <2>1 DEF Replies
<1>4. \A i, k \in 1..n + 1 : InterruptedBetween(i, k)' => InterruptedBetween(i, k)
  BY <1>1 DEF InterruptedBetween
<1>5. ASSUME NEW i \in 1..n + 2, InterruptedBetween(i, n + 2)', i <= n + 1
      PROVE  InterruptedBetween(i, n + 1) /\ r.intr
  BY <1>1, <1>5 DEF InterruptedBetween
<1>6. ASSUME NEW k \in 1..n + 1, Answers(k)'
      PROVE  /\ InterruptedBetween(1, k)' => lastPromptId' < stdout'[k].id
             /\ \A i \in 1..n + 1 :
                  i < k /\ InterruptedBetween(i + 1, k)' => stdout'[i].id < stdout'[k].id
  <2>1. CASE k = n + 1
    <3>1. line < stdout'[k].id
      BY <1>1, <1>6, <2>1 DEF Answers
    <3>2. ASSUME InterruptedBetween(1, k)'
          PROVE  lastPromptId <= line
      BY <1>1, <1>4, <2>1, <3>2 DEF LineInv
    <3>3. ASSUME NEW i \in 1..n + 1, i < k, InterruptedBetween(i + 1, k)'
          PROVE  stdout'[i] = stdout[i] /\ stdout[i].id <= line /\ stdout[i].id \in Nat
      <4>1. i \in 1..n /\ i + 1 \in 1..n + 1 /\ n + 1 \in 1..n + 1
        BY <1>1, <2>1, <3>3
      <4>2. InterruptedBetween(i + 1, n + 1)
        BY <1>4, <2>1, <3>3, <4>1
      <4> QED
        BY <1>1, <1>3, <4>1, <4>2 DEF LineInv
    <3> QED
      BY <1>1, <1>2, <2>1, <3>1, <3>2, <3>3
  <2>2. CASE k # n + 1
    <3>1. k \in 1..n /\ stdout'[k] = stdout[k] /\ Answers(k)
      BY <1>1, <1>6, <2>2 DEF Answers
    <3>2. ASSUME InterruptedBetween(1, k)'
          PROVE  lastPromptId < stdout[k].id
      BY <1>1, <1>4, <3>1, <3>2 DEF LineInv
    <3>3. ASSUME NEW i \in 1..n + 1, i < k, InterruptedBetween(i + 1, k)'
          PROVE  stdout'[i] = stdout[i] /\ stdout[i].id < stdout[k].id
      <4>1. i \in 1..n /\ i + 1 \in 1..n + 1 /\ k \in 1..n + 1
        BY <1>1, <3>1, <3>3
      <4>2. InterruptedBetween(i + 1, k)
        BY <1>4, <3>3, <4>1
      <4> QED
        BY <1>1, <3>1, <4>1, <4>2, <3>3 DEF LineInv
    <3> QED
      BY <3>1, <3>2, <3>3
  <2> QED
    BY <2>1, <2>2
<1>7. InterruptedBetween(1, n + 2)' => lastPromptId' <= line'
  BY <1>1, <1>2, <1>5 DEF LineInv
<1>8. ASSUME NEW i \in 1..n + 1, InterruptedBetween(i + 1, n + 2)'
      PROVE  stdout'[i].id <= line'
  <2>1. CASE i = n + 1
    BY <1>1, <2>1
  <2>2. CASE i # n + 1
    <3>1. i \in 1..n /\ i + 1 \in 1..n + 2 /\ i + 1 <= n + 1
      BY <1>1, <2>2
    <3>2. InterruptedBetween(i + 1, n + 1) /\ r.intr
      BY <1>5, <1>8, <3>1
    <3>3. stdout[i].id <= line /\ stdout'[i] = stdout[i] /\ stdout[i].id \in Nat
      BY <1>1, <1>3, <3>1, <3>2 DEF LineInv
    <3> QED
      BY <1>2, <3>2, <3>3
  <2> QED
    BY <2>1, <2>2
<1>9. Len(stdout') = n + 1 /\ Len(stdout') + 1 = n + 2
  BY <1>1
<1> QED
  BY <1>6, <1>7, <1>8, <1>9 DEF LineInv

\* The client reads a reply and takes its number, or skips an interrupted one.
LEMMA LineRead ==
  ASSUME TypeInv, LineInv, stdout # <<>>, stdout' = Tail(stdout), line' = line,
         \/ lastPromptId' = Head(stdout).id
         \/ lastPromptId' = lastPromptId /\ Head(stdout).intr
  PROVE  LineInv'
<1>1. PICK n \in Nat \ {0} :
      /\ Len(stdout) = n /\ Len(stdout') = n - 1
      /\ \A i \in 1..n - 1 : stdout'[i] = stdout[i + 1]
      /\ Head(stdout) = stdout[1]
  BY PipeRead DEF TypeInv, TypeOK
<1>2. ASSUME NEW i \in 1..n, NEW k \in 1..n, InterruptedBetween(i, k)'
      PROVE  InterruptedBetween(i + 1, k + 1)
  <2> SUFFICES ASSUME NEW j \in 1..n, i + 1 <= j, j < k + 1
               PROVE  stdout[j].intr
    BY DEF InterruptedBetween
  <2>1. j - 1 \in 1..n - 1 /\ i <= j - 1 /\ j - 1 < k
    BY <1>1
  <2>2. stdout'[j - 1].intr
    BY <1>1, <1>2, <2>1 DEF InterruptedBetween
  <2> QED
    BY <1>1, <2>1, <2>2
<1>3. ASSUME NEW k \in 2..n + 1, InterruptedBetween(2, k)
      PROVE  \/ lastPromptId' = stdout[1].id
             \/ lastPromptId' = lastPromptId /\ InterruptedBetween(1, k)
  BY <1>1, <1>3 DEF InterruptedBetween
<1>4. ASSUME NEW k \in 1..n - 1, Answers(k)'
      PROVE  /\ InterruptedBetween(1, k)' => lastPromptId' < stdout'[k].id
             /\ \A i \in 1..n - 1 :
                  i < k /\ InterruptedBetween(i + 1, k)' => stdout'[i].id < stdout'[k].id
  <2>1. k + 1 \in 2..n /\ k + 1 \in 1..n /\ k + 1 \in 2..n + 1 /\ k \in 1..n /\ 1 \in 1..n /\ 1 < k + 1
    BY <1>1
  <2>2. stdout'[k] = stdout[k + 1] /\ Answers(k + 1)
    BY <1>1, <1>4 DEF Answers
  <2>3. ASSUME InterruptedBetween(1, k)'
        PROVE  lastPromptId' < stdout[k + 1].id
    <3>1. InterruptedBetween(1 + 1, k + 1) /\ InterruptedBetween(2, k + 1)
      BY <1>2, <2>1, <2>3
    <3>2. \/ lastPromptId' = stdout[1].id
          \/ lastPromptId' = lastPromptId /\ InterruptedBetween(1, k + 1)
      BY <1>3, <2>1, <3>1
    <3>3. /\ stdout[1].id < stdout[k + 1].id
          /\ InterruptedBetween(1, k + 1) => lastPromptId < stdout[k + 1].id
      BY <1>1, <2>1, <2>2, <3>1 DEF LineInv
    <3> QED
      BY <3>2, <3>3
  <2>4. ASSUME NEW i \in 1..n - 1, i < k, InterruptedBetween(i + 1, k)'
        PROVE  stdout'[i].id < stdout[k + 1].id
    <3>1. i + 1 \in 1..n /\ i + 1 < k + 1
      BY <1>1, <2>1, <2>4
    <3>2. InterruptedBetween((i + 1) + 1, k + 1)
      BY <1>2, <2>1, <2>4, <3>1
    <3> QED
      BY <1>1, <2>1, <2>2, <3>1, <3>2 DEF LineInv
  <2> QED
    BY <2>2, <2>3, <2>4
<1>5. ASSUME InterruptedBetween(1, n)'
      PROVE  lastPromptId' <= line'
  <2>1. InterruptedBetween(1 + 1, n + 1) /\ InterruptedBetween(2, n + 1) /\ n + 1 \in 2..n + 1
    BY <1>1, <1>2, <1>5
  <2> QED
    BY <1>1, <1>3, <2>1 DEF LineInv
<1>6. ASSUME NEW i \in 1..n - 1, InterruptedBetween(i + 1, n)'
      PROVE  stdout'[i].id <= line'
  <2>1. i + 1 \in 1..n /\ n \in 1..n
    BY <1>1
  <2>2. InterruptedBetween((i + 1) + 1, n + 1)
    BY <1>2, <1>6, <2>1
  <2> QED
    BY <1>1, <2>1, <2>2 DEF LineInv
<1>7. Len(stdout') = n - 1 /\ Len(stdout') + 1 = n
  BY <1>1
<1> QED
  BY <1>4, <1>5, <1>6, <1>7 DEF LineInv

LEMMA NumberInit == Init => NumberInv
<1>1. Init => OpeningInv
  BY Zenon DEF Init, OpeningInv
<1>2. Init => pc = "starting" /\ stdout = <<>> /\ lastPromptId = 1 /\ line = 1
  BY DEF Init
<1>3. Len(<<>>) = 0
  BY EmptySeq
<1>4. Init => LineInv
  BY <1>2, <1>3 DEF LineInv
<1> QED
  BY <1>1, <1>2, <1>4 DEF NumberInv

\* Nothing but the first prompt and the end of Maxima comes before the end of the
\* constructor.
LEMMA OpeningStep ==
  ASSUME TypeInv, OpeningInv, [Next]_vars
  PROVE  OpeningInv'
<1> SUFFICES ASSUME pc' = "starting"
             PROVE  OpeningInv'
  BY DEF OpeningInv
<1>1. CASE UNCHANGED vars \/ Exit \/ Gone \/ EndOfInput
  BY <1>1 DEF Exit, Gone, EndOfInput, OpeningInv, vars, client, maxima
<1>2. CASE (\E o \in Operations : Call(o)) \/ Destroy \/ Proceed
  BY <1>2 DEF Call, Destroy, Proceed, Construct, ConstructFailed, WakeAndInterrupt, SkipReply,
              TakeReply, After, ReadFailed, InterruptQuestion, SendClosing, Destroyed, client
<1>3. CASE interruptMaxima
  BY <1>3 DEF interruptMaxima, client
<1>4. CASE Boot
  <2>1. mode = "boot" /\ pc = "starting"
    BY <1>4 DEF Boot, client
  <2>2. stdout = <<>> /\ stdin = <<>> /\ ~sigint /\ lastPromptId = 1 /\ sent = 0
    BY <2>1 DEF OpeningInv
  <2>3. /\ stdout' = Append(<<>>, Reply(0, "none", 1, FALSE)) /\ mode' = "top" /\ line' = 1
        /\ UNCHANGED <<pc, sent, lastPromptId, sigint, stdin>>
    BY <1>4, <2>2 DEF Boot, Emit, isGoodPrompt, Reply, client
  <2>4. stdout' = <<Reply(0, "none", 1, FALSE)>>
    BY <2>3, AppendToEmpty
  <2> QED
    BY <2>2, <2>3, <2>4 DEF OpeningInv
<1>5. CASE \/ ReadCommand \/ SyntaxError \/ Finish \/ Question \/ ReadAnswer
           \/ InterruptedIdle \/ InterruptedEval \/ InterruptedQuestion \/ ResetLine
  BY <1>5 DEF ReadCommand, SyntaxError, Finish, Question, ReadAnswer, InterruptedIdle,
              InterruptedEval, InterruptedQuestion, ResetLine, OpeningInv, client
<1> QED
  BY <1>1, <1>2, <1>3, <1>4, <1>5 DEF Next, Run

\* A client that waits has sent something.
LEMMA SentStep ==
  ASSUME TypeInv, pc \in {"sleeping", "reading"} => sent >= 1, [Next]_vars,
         pc' \in {"sleeping", "reading"}
  PROVE  sent' >= 1
<1>0. sent \in Nat
  BY ConstantsAssumption DEF TypeInv, TypeOK, ConstantsAssumption
<1>1. CASE (\E o \in Operations : Call(o)) \/ SendClosing
  BY <1>0, <1>1 DEF Call, SendClosing, Write
<1>2. CASE UNCHANGED <<pc, sent>>
  BY <1>2
<1>3. CASE Destroy \/ (Proceed /\ ~SendClosing)
  BY <1>3 DEF Destroy, Proceed, Construct, ConstructFailed, WakeAndInterrupt, SkipReply,
              TakeReply, After, ReadFailed, InterruptQuestion, Destroyed, client
<1>4. CASE interruptMaxima \/ Run \/ ResetLine \/ Exit \/ Gone \/ UNCHANGED vars
  BY <1>2, <1>4 DEF interruptMaxima, Run, Boot, ReadCommand, SyntaxError, Finish, Question,
                    ReadAnswer, InterruptedIdle, InterruptedEval, InterruptedQuestion, EndOfInput,
                    ResetLine, Exit, Gone, client, vars
<1> QED
  BY <1>1, <1>3, <1>4 DEF Next, Proceed

LEMMA LineStep ==
  ASSUME Numbered, TypeInv, NumberInv, [Next]_vars
  PROVE  LineInv'
<1>0. LineInv /\ line \in Nat /\ lastPromptId \in Nat
  BY DEF NumberInv, TypeInv, TypeOK
<1>1. CASE UNCHANGED <<stdout, lastPromptId, line>>
  <2>1. \A i, k : InterruptedBetween(i, k)' <=> InterruptedBetween(i, k)
    BY <1>1 DEF InterruptedBetween
  <2>2. \A k : Answers(k)' <=> Answers(k)
    BY <1>1 DEF Answers
  <2> QED
    BY <1>0, <1>1, <2>1, <2>2 DEF LineInv
<1>2. CASE Construct
  <2>1. stdout = <<Reply(0, "none", 1, FALSE)>> /\ lastPromptId = 1
    BY <1>2 DEF Construct, NumberInv, OpeningInv
  <2>2. Head(stdout).id = lastPromptId
    BY <2>1, AppendToEmpty DEF Reply
  <2> QED
    BY <1>0, <1>2, <2>2, LineRead DEF Construct
<1>3. CASE SkipReply
  BY <1>0, <1>3, LineRead DEF SkipReply, Skipped, isInterrupted, client
<1>4. CASE TakeReply
  BY <1>0, <1>4, LineRead DEF TakeReply
<1>5. CASE Boot
  <2>1. Emit(Reply(0, "none", 1, FALSE), "top") /\ lastPromptId' = lastPromptId
    BY <1>5 DEF Boot, client
  <2> DEFINE r == Reply(0, "none", 1, FALSE)
  <2>2. r \in Replies /\ r.id = 1 /\ ~r.intr /\ line' = 1
    BY <2>1, ConstantsAssumption DEF Emit, Reply, Replies, isGoodPrompt, ConstantsAssumption
  <2>3. Emit(r, "top")
    BY <2>1
  <2> HIDE DEF r
  <2> QED
    BY <1>0, <2>1, <2>2, <2>3, LineEmit
<1>6. CASE SyntaxError
  <2>1. Head(stdin).for \in 1..MaxCommands
    <3>1. Head(stdin) \in Commands
      BY <1>6, PipeRead DEF SyntaxError, TypeInv, TypeOK
    <3> QED
      BY <3>1 DEF Commands
  <2> DEFINE r == Reply(Head(stdin).for, "none", line, FALSE)
  <2>2. Emit(r, "top") /\ lastPromptId' = lastPromptId
    BY <1>6 DEF SyntaxError, Numbered, client
  <2>3. r \in Replies /\ r.id = line /\ ~r.intr
    BY <1>0, <2>1 DEF Reply, Replies
  <2> HIDE DEF r
  <2>4. line' = line
    BY <2>2, <2>3 DEF Emit, isGoodPrompt
  <2> QED
    BY <1>0, <2>2, <2>3, <2>4, LineEmit
<1>7. CASE Finish
  <2>1. PICK outs \in {"none", "result", "other"}, id \in {1, line + 1} :
          Emit(Reply(running, outs, id, FALSE), "top")
    BY <1>7 DEF Finish
  <2> DEFINE r == Reply(running, outs, id, FALSE)
  <2>2. r \in Replies /\ r.id = id /\ ~r.intr /\ id \in Nat /\ id # 0
    BY <1>0 DEF Reply, Replies, TypeInv, TypeOK
  <2>3. Emit(r, "top") /\ lastPromptId' = lastPromptId
    BY <1>7, <2>1 DEF Finish, client
  <2> HIDE DEF r
  <2>4. line' = id
    BY <2>2, <2>3 DEF Emit, isGoodPrompt
  <2> QED
    BY <1>0, <2>2, <2>3, <2>4, LineEmit
<1>8. CASE Question
  <2>1. PICK outs \in {"none", "other"} : Emit(Reply(running, outs, 0, FALSE), "question")
    BY <1>8 DEF Question
  <2> DEFINE r == Reply(running, outs, 0, FALSE)
  <2>2. r \in Replies /\ r.id = 0 /\ ~r.intr
    BY <1>0 DEF Reply, Replies, TypeInv, TypeOK
  <2>3. Emit(r, "question") /\ lastPromptId' = lastPromptId
    BY <1>8, <2>1 DEF Question, client
  <2> HIDE DEF r
  <2>4. line' = line
    BY <2>2, <2>3 DEF Emit, isGoodPrompt
  <2> QED
    BY <1>0, <2>2, <2>3, <2>4, LineEmit
<1>9. CASE InterruptedIdle \/ InterruptedQuestion
  <2>1. PICK id \in {line, line + 1} : Emit(Unsolicited(id), "top") /\ lastPromptId' = lastPromptId
    BY <1>9 DEF InterruptedIdle, InterruptedQuestion, client
  <2> DEFINE r == Unsolicited(id)
  <2>2. r \in Replies /\ r.id = id /\ r.for = 0 /\ id \in Nat /\ line <= id
    BY <1>0, ConstantsAssumption DEF Unsolicited, Reply, Replies, ConstantsAssumption
  <2>3. Emit(r, "top")
    BY <2>1
  <2> HIDE DEF r
  <2>4. line' = IF id = 0 THEN line ELSE id
    BY <2>2, <2>3 DEF Emit, isGoodPrompt
  <2> QED
    BY <1>0, <2>1, <2>2, <2>3, <2>4, LineEmit
<1>10. CASE InterruptedEval
  <2>1. PICK outs \in {"none", "other"} : Emit(Reply(running, outs, line + 1, TRUE), "top")
    BY <1>10 DEF InterruptedEval
  <2> DEFINE r == Reply(running, outs, line + 1, TRUE)
  <2>2. r \in Replies /\ r.id = line + 1
    BY <1>0 DEF Reply, Replies, TypeInv, TypeOK
  <2>3. Emit(r, "top") /\ lastPromptId' = lastPromptId
    BY <1>10, <2>1 DEF InterruptedEval, client
  <2> HIDE DEF r
  <2>4. line' = line + 1
    BY <1>0, <2>2, <2>3 DEF Emit, isGoodPrompt
  <2> QED
    BY <1>0, <2>2, <2>3, <2>4, LineEmit
<1>11. CASE \/ \E o \in Operations : Call(o)
            \/ Destroy \/ ConstructFailed \/ WakeAndInterrupt \/ ReadFailed \/ InterruptQuestion
            \/ SendClosing \/ Destroyed \/ interruptMaxima \/ ReadCommand \/ ReadAnswer
            \/ EndOfInput \/ Exit \/ Gone \/ UNCHANGED vars
  <2>1. UNCHANGED <<stdout, lastPromptId, line>>
    BY <1>11 DEF Call, Destroy, ConstructFailed, WakeAndInterrupt, ReadFailed, InterruptQuestion,
                 SendClosing, Destroyed, interruptMaxima, ReadCommand, ReadAnswer, EndOfInput,
                 Exit, Gone, vars, client, maxima
  <2> QED
    BY <1>1, <2>1
<1>12. ~ResetLine
  BY DEF ResetLine, Numbered
<1> QED
  BY <1>2, <1>3, <1>4, <1>5, <1>6, <1>7, <1>8, <1>9, <1>10, <1>11, <1>12 DEF Next, Proceed, Run

LEMMA NumberStep ==
  ASSUME Numbered, TypeInv, NumberInv, [Next]_vars
  PROVE  NumberInv'
<1>1. OpeningInv'
  BY OpeningStep DEF NumberInv
<1>2. pc' \in {"sleeping", "reading"} => sent' >= 1
  BY SentStep DEF NumberInv
<1> QED
  BY <1>1, <1>2, LineStep DEF NumberInv

\* The invariant of the prompt numbers: whatever is asked, answered and interrupted,
\* an interrupted evaluation has a number of its own (MaximaInstance.cc, the
\* comparison of readReply).
THEOREM NumbersGrow == ASSUME Numbered PROVE Spec => []NumberInv
<1>1. Init /\ [][Next]_vars => [](TypeInv /\ NumberInv)
  BY TypeInit, TypeStep, NumberInit, NumberStep, PTL
<1> QED
  BY <1>1, PTL DEF Spec

-----------------------------------------------------------------------------
(* What follows. *)

\* readReply never takes a reply from the past: not while evaluations only give
\* results, however many interrupts are sent and whenever they are, and not while
\* nobody interrupts, whatever Maxima asks (MaximaInstance.cc, readReply).
THEOREM TakesOwnReply ==
  ASSUME Docile \/ Uninterrupted
  PROVE  Spec => []ReadsOwnReply
<1>1. TypeInv /\ SyncInv => ReadsOwnReply
  BY TakenReplyIsOwn DEF ReadsOwnReply
<1>2. TypeInv /\ DialogueInv => ReadsOwnReply
  BY DialogueReply DEF ReadsOwnReply
<1>3. Init /\ [][Next]_vars => []TypeInv
  BY TypeInit, TypeStep, PTL
<1>4. CASE Docile
  BY <1>1, <1>3, <1>4, InSync, PTL DEF Spec
<1>5. CASE Uninterrupted
  BY <1>2, <1>3, <1>5, TakesTurns, PTL DEF Spec
<1> QED
  BY <1>4, <1>5

\* readReply never skips the reply it waits for, with questions and interrupts at
\* any moment, or with line numbers set back and no interrupts: no call waits for a
\* reply it has thrown away.
THEOREM SkipsPastReplies ==
  ASSUME Numbered \/ Uninterrupted
  PROVE  Spec => []SkipsOnlyPastReplies
<1>1. TypeInv /\ NumberInv => SkipsOnlyPastReplies
  <2> SUFFICES ASSUME TypeInv, NumberInv, pc = "reading", stdout # <<>>, Skipped(Head(stdout)),
                      Head(stdout).for = sent
               PROVE  FALSE
    BY DEF SkipsOnlyPastReplies
  <2>1. Head(stdout) = stdout[1] /\ 1 \in 1..Len(stdout) /\ stdout[1] \in Replies
    BY PipeRead DEF TypeInv, TypeOK
  <2>2. sent >= 1 /\ LineInv
    BY DEF NumberInv
  <2>3. Answers(1) /\ stdout[1].id <= lastPromptId
    BY <2>1, <2>2 DEF Answers, Skipped, isInterrupted
  <2>4. InterruptedBetween(1, 1)
    BY <2>1 DEF InterruptedBetween
  <2>5. lastPromptId < stdout[1].id
    BY <2>1, <2>2, <2>3, <2>4 DEF LineInv
  <2>6. lastPromptId \in Nat /\ stdout[1].id \in Nat
    BY <2>1 DEF TypeInv, TypeOK, Replies
  <2> QED
    BY <2>3, <2>5, <2>6
<1>2. TypeInv /\ DialogueInv => SkipsOnlyPastReplies
  BY DialogueReply DEF SkipsOnlyPastReplies
<1>3. Init /\ [][Next]_vars => []TypeInv
  BY TypeInit, TypeStep, PTL
<1>4. CASE Numbered
  BY <1>1, <1>3, <1>4, NumbersGrow, PTL DEF Spec
<1>5. CASE Uninterrupted
  BY <1>2, <1>3, <1>5, TakesTurns, PTL DEF Spec
<1> QED
  BY <1>4, <1>5

\* Between calls both sides stand at the same prompt, and all that is unread is
\* what the next readReply will skip.
THEOREM CallsStartInSync ==
  ASSUME Docile \/ Uninterrupted
  PROVE  Spec => []IdleInSync
<1>1. TypeInv /\ SyncInv => IdleInSync
  <2> SUFFICES ASSUME TypeInv, SyncInv, pc = "idle", alive
               PROVE  /\ stdin = <<>> /\ mode = "top" /\ lastPromptId = line
                      /\ \A i \in DOMAIN stdout : stdout[i].for = 0 /\ Skipped(stdout[i])
    BY DEF IdleInSync
  <2>1. Unanswered /\ ~Awaiting
    BY DEF SyncInv, AnsweredInv, Unanswered, Awaiting
  <2>2. /\ stdin = <<>> /\ mode = "top" /\ lastPromptId = line
        /\ \A i \in 1..Len(stdout) : stdout[i].id = lastPromptId
    BY <2>1 DEF SyncInv, MaximaInv, UnansweredInv
  <2>3. ASSUME NEW i \in DOMAIN stdout
        PROVE  stdout[i].for = 0 /\ Skipped(stdout[i])
    <3>1. i \in 1..Len(stdout)
      BY LenProperties DEF TypeInv, TypeOK
    <3>2. stdout[i] = Unsolicited(lastPromptId)
      BY <2>1, <2>2, <3>1 DEF SyncInv, UnsolicitedInv, Unanswered
    <3>3. lastPromptId >= 1 /\ lastPromptId \in Nat
      BY DEF SyncInv, TypeInv, TypeOK
    <3> QED
      BY <2>1, <3>1, <3>2, <3>3
         DEF Skipped, Unsolicited, Reply, isGoodPrompt, isInterrupted, Unanswered
  <2> QED
    BY <2>2, <2>3
<1>2. TypeInv /\ DialogueInv => IdleInSync
  <2> SUFFICES ASSUME TypeInv, DialogueInv, pc = "idle", alive
               PROVE  AtPrompt /\ lastPromptId = promptId /\ stdout = <<>>
    BY DEF IdleInSync, AtPrompt, promptId
  <2> QED
    BY DEF DialogueInv, ReplyInv, TurnInv
<1>3. Init /\ [][Next]_vars => []TypeInv
  BY TypeInit, TypeStep, PTL
<1>4. CASE Docile
  BY <1>1, <1>3, <1>4, InSync, PTL DEF Spec
<1>5. CASE Uninterrupted
  BY <1>2, <1>3, <1>5, TakesTurns, PTL DEF Spec
<1> QED
  BY <1>4, <1>5

\* A command on its way.
InputInv == Len(stdin) <= 1

LEMMA OneElement ==
  ASSUME NEW S, NEW s \in Seq(S)
  PROVE  /\ s = <<>> => Len(s) <= 1
         /\ s # <<>> /\ Tail(s) = <<>> => Len(s) <= 1
         /\ Len(s) <= 1 /\ s # <<>> => Len(Tail(s)) <= 1
<1>1. Len(<<>>) = 0
  BY EmptySeq
<1>2. s # <<>> => Len(s) \in Nat \ {0} /\ Len(Tail(s)) = Len(s) - 1
  BY PipeRead
<1>3. s = <<>> => Len(s) <= 1
  BY <1>1
<1>4. ASSUME s # <<>>
      PROVE  /\ Tail(s) = <<>> => Len(s) <= 1
             /\ Len(s) <= 1 => Len(Tail(s)) <= 1
  <2>1. PICK n \in Nat \ {0} : Len(s) = n /\ Len(Tail(s)) = n - 1
    BY <1>2, <1>4
  <2>2. Tail(s) = <<>> => n - 1 = 0
    BY <1>1, <2>1
  <2> QED
    BY <2>1, <2>2
<1> QED
  BY <1>3, <1>4

\* Nobody writes a command when there is one: not in a call, and not to a Maxima
\* that has ended.
LEMMA InputStep ==
  ASSUME TypeInv, InputInv, [Next]_vars,
         alive /\ stdin' # stdin =>
           \/ stdin # <<>> /\ stdin' = Tail(stdin)
           \/ stdin' # <<>> /\ Tail(stdin') = <<>>
  PROVE  InputInv'
<1>1. TypeInv'
  BY TypeStep
<1>2. stdin \in Seq(Commands) /\ stdin' \in Seq(Commands)
  BY <1>1 DEF TypeInv, TypeOK
<1>3. ~alive => stdin' = stdin
  BY DEF Next, Proceed, Run, Call, Write, SendClosing, Destroy, Construct, ConstructFailed,
         WakeAndInterrupt, SkipReply, TakeReply, ReadFailed, InterruptQuestion, Destroyed,
         interruptMaxima, Boot, ReadCommand, SyntaxError, Finish, Question, ReadAnswer,
         InterruptedIdle, InterruptedEval, InterruptedQuestion, EndOfInput, ResetLine, Exit,
         Gone, vars, maxima
<1> QED
  BY <1>2, <1>3, OneElement DEF InputInv

\* What changes the commands on their way.
LEMMA InputChange ==
  ASSUME [Next]_vars, stdin' # stdin
  PROVE  \/ stdin # <<>> /\ stdin' = Tail(stdin)
         \/ (\E o \in Operations : Call(o)) \/ SendClosing
BY DEF Next, Proceed, Run, Destroy, Construct, ConstructFailed,
       WakeAndInterrupt, SkipReply, TakeReply, ReadFailed, InterruptQuestion, Destroyed,
       interruptMaxima, Boot, ReadCommand, SyntaxError, Finish, Question, ReadAnswer,
       InterruptedIdle, InterruptedEval, InterruptedQuestion, EndOfInput, ResetLine, Exit,
       Gone, vars, maxima

\* While nobody asks or nobody interrupts, Maxima never finds a second command
\* behind the one it evaluates: a reply that is taken too early would let the
\* caller send one.
THEOREM SendsOneCommand ==
  ASSUME Docile \/ Uninterrupted
  PROVE  Spec => []OneCommandAtATime
<1>1. Init => InputInv
  BY EmptySeq DEF Init, InputInv
<1>2. ASSUME Docile, TypeInv, SyncInv, InputInv, [Next]_vars
      PROVE  InputInv'
  <2>1. SyncInv'
    BY <1>2, SyncStep
  <2>2. ASSUME alive, (\E o \in Operations : Call(o)) \/ SendClosing
        PROVE  stdin' # <<>> /\ Tail(stdin') = <<>>
    <3>1. alive' /\ pc' \in {"sleeping", "reading"}
      BY <2>2 DEF Call, SendClosing
    <3>2. stdin' # <<>>
      <4>1. PICK command : stdin' = Append(stdin, command)
        BY <2>2 DEF Call, SendClosing, Write
      <4> QED
        BY <1>2, <4>1, AppendProperties DEF TypeInv, TypeOK
    <3> QED
      BY <2>1, <3>1, <3>2 DEF SyncInv, MaximaInv
  <2> QED
    BY <1>2, <2>2, InputStep, InputChange
<1>3. ASSUME Uninterrupted, TypeInv, DialogueInv, InputInv, [Next]_vars
      PROVE  InputInv'
  BY <1>3, InputStep, InputChange, DialogueWrite
<1>4. TypeInv /\ SyncInv /\ InputInv => OneCommandAtATime
  BY BusyMaxima DEF InputInv, OneCommandAtATime
<1>5. TypeInv /\ DialogueInv /\ InputInv => OneCommandAtATime
  BY MaximaTurn DEF InputInv, OneCommandAtATime
<1>6. Init /\ [][Next]_vars => []TypeInv
  BY TypeInit, TypeStep, PTL
<1>7. CASE Docile
  <2>1. Init /\ [][Next]_vars => []SyncInv
    BY <1>7, InSync DEF Spec
  <2>2. Docile /\ TypeInv /\ SyncInv /\ InputInv /\ [Next]_vars => InputInv'
    BY <1>2
  <2>3. TypeInv /\ SyncInv /\ InputInv /\ [Next]_vars => InputInv'
    BY <1>7, <2>2
  <2> QED
    BY <1>1, <1>4, <1>6, <2>1, <2>3, PTL DEF Spec
<1>8. CASE Uninterrupted
  <2>1. Init /\ [][Next]_vars => []DialogueInv
    BY <1>8, TakesTurns DEF Spec
  <2>2. Uninterrupted /\ TypeInv /\ DialogueInv /\ InputInv /\ [Next]_vars => InputInv'
    BY <1>3
  <2>3. TypeInv /\ DialogueInv /\ InputInv /\ [Next]_vars => InputInv'
    BY <1>8, <2>2
  <2> QED
    BY <1>1, <1>5, <1>6, <2>1, <2>3, PTL DEF Spec
<1> QED
  BY <1>7, <1>8

-----------------------------------------------------------------------------
(* Refinement. *)

\* What the service needs of the two sides, with interrupts or with questions.
ServedInTurn ==
  /\ ReadsOwnReply
  /\ pc = "reading" => got # sent
  /\ pc = "closing" => got = sent

LEMMA SyncServes == TypeInv /\ SyncInv => ServedInTurn
<1>1. TypeInv => got \in Nat /\ sent \in Nat
  BY ConstantsAssumption DEF TypeInv, TypeOK, ConstantsAssumption
<1>2. TypeInv /\ SyncInv => ReadsOwnReply
  BY TakenReplyIsOwn DEF ReadsOwnReply
<1> QED
  BY <1>1, <1>2 DEF SyncInv, Awaiting, ServedInTurn

LEMMA DialogueServes == TypeInv /\ DialogueInv => ServedInTurn
<1>1. TypeInv => got \in Nat /\ sent \in Nat
  BY ConstantsAssumption DEF TypeInv, TypeOK, ConstantsAssumption
<1>2. TypeInv /\ DialogueInv => ReadsOwnReply
  BY DialogueReply DEF ReadsOwnReply
<1> QED
  BY <1>1, <1>2 DEF DialogueInv, ServedInTurn

LEMMA ServiceInit == Init => Service!Init
BY DEF Init, Service!Init, servicePhase

\* Every step of the system is a step of the service or no step of it.
LEMMA ServiceStep ==
  ASSUME TypeInv, ServedInTurn, [Next]_vars
  PROVE  [Service!Next]_(Service!vars)
<1>0. sent \in 0..MaxCommands /\ got \in 0..MaxCommands /\ MaxCommands \in Nat
  BY ConstantsAssumption DEF TypeInv, TypeOK, ConstantsAssumption
<1>1. CASE Construct \/ ConstructFailed
  <2>1. Service!Open
    BY <1>1 DEF Construct, ConstructFailed, Service!Open, servicePhase
  <2> QED
    BY <2>1 DEF Service!Next
<1>2. CASE (\E o \in Operations : Call(o)) \/ SendClosing
  <2>1. sent < MaxCommands
    <3>1. CASE SendClosing
      BY <3>1 DEF SendClosing, TypeInv
    <3>2. CASE \E o \in Operations : Call(o)
      BY <1>0, <3>2 DEF Call
    <3> QED
      BY <1>2, <3>1, <3>2
  <2>2. pc = "closing" => got = sent
    BY DEF ServedInTurn
  <2>3. Service!Ask
    BY <1>2, <2>1, <2>2 DEF Call, SendClosing, Write, Service!Ask, servicePhase
  <2> QED
    BY <2>3 DEF Service!Next
<1>3. CASE TakeReply
  <2>1. pc = "reading" /\ got' = sent
    BY <1>3 DEF TakeReply, ServedInTurn, ReadsOwnReply
  <2>2. got # sent
    BY <2>1 DEF ServedInTurn
  <2>3. Service!Answer
    BY <1>3, <2>1, <2>2 DEF TakeReply, After, Service!Answer, servicePhase
  <2> QED
    BY <2>3 DEF Service!Next
<1>4. CASE ReadFailed
  <2>1. Service!Fail
    BY <1>4 DEF ReadFailed, Service!Fail, servicePhase
  <2> QED
    BY <2>1 DEF Service!Next
<1>5. CASE Destroy
  <2>1. Service!Close
    BY <1>5 DEF Destroy, Service!Close, servicePhase
  <2> QED
    BY <2>1 DEF Service!Next
<1>6. CASE Destroyed
  <2>1. Service!Closed
    BY <1>6 DEF Destroyed, Service!Closed, servicePhase
  <2> QED
    BY <2>1 DEF Service!Next
<1>7. CASE \/ WakeAndInterrupt \/ SkipReply \/ InterruptQuestion \/ interruptMaxima
           \/ Run \/ ResetLine \/ Exit \/ Gone \/ UNCHANGED vars
  <2>1. UNCHANGED <<sent, got>> /\ servicePhase' = servicePhase
    <3>1. CASE WakeAndInterrupt \/ InterruptQuestion
      BY <3>1 DEF WakeAndInterrupt, InterruptQuestion, servicePhase
    <3>2. CASE Run
      BY <3>2 DEF Run, Boot, ReadCommand, SyntaxError, Finish, Question, ReadAnswer,
                  InterruptedIdle, InterruptedEval, InterruptedQuestion, EndOfInput, client,
                  servicePhase
    <3>3. CASE SkipReply \/ interruptMaxima \/ ResetLine \/ Exit \/ Gone \/ UNCHANGED vars
      BY <3>3 DEF SkipReply, interruptMaxima, ResetLine, Exit, Gone, vars, client, servicePhase
    <3> QED
      BY <1>7, <3>1, <3>2, <3>3
  <2> QED
    BY <2>1 DEF Service!vars
<1> QED
  BY <1>1, <1>2, <1>3, <1>4, <1>5, <1>6, <1>7 DEF Next, Proceed

\* Whatever is interrupted and whenever, or whatever Maxima asks when nobody
\* interrupts, every command is answered by its own reply, in the order of the
\* commands (the safety half of CommandService).
THEOREM ImplementsService ==
  ASSUME Docile \/ Uninterrupted
  PROVE  Spec => ServiceSafety
<1>1. Init /\ [][Next]_vars => []TypeInv
  BY TypeInit, TypeStep, PTL
<1>2. Init /\ [][Next]_vars => []ServedInTurn
  <2>1. CASE Docile
    BY <1>1, <2>1, InSync, SyncServes, PTL DEF Spec
  <2>2. CASE Uninterrupted
    BY <1>1, <2>2, TakesTurns, DialogueServes, PTL DEF Spec
  <2> QED
    BY <2>1, <2>2
<1>3. Init /\ [][Next]_vars => Service!Spec
  BY <1>1, <1>2, ServiceInit, ServiceStep, PTL DEF Service!Spec
<1> QED
  BY <1>3 DEF Spec, ServiceSafety
=============================================================================
