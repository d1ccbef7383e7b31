------------------------------- MODULE FileServer -------------------------------
(***************************************************************************)
(* The files of a factory or of a resource (FileServerImpl.cc): write and  *)
(* close with the table of open files, putFile, and dispatch, which sends  *)
(* a file to other servers by asynchronous calls and waits for all the     *)
(* answers.  Each call is a thread of the server; the answers come in      *)
(* threads of their own.                                                   *)
(*                                                                         *)
(* A file has one piece of data at each of a few offsets, which do not     *)
(* overlap.  The chunk written last may still be in the buffer of the      *)
(* file's stream, which is flushed by the next write or by close, without  *)
(* anybody being told when that fails, and over whatever putFile may have  *)
(* put into the file meanwhile.                                            *)
(***************************************************************************)
EXTENDS Naturals, FiniteSets

CONSTANTS
  Calls,      \* the calls of write, close, putFile and dispatch
  Files,      \* the names of files
  Offsets,    \* the offsets in a file
  Data,       \* what can be at an offset
  Bad,        \* a chunk that cannot be written: a negative offset, or nothing in it
  Recipients, \* the servers that files are sent to
  Checked,    \* whether a mutex that its own thread locks again throws an exception
  None

Chunks == [at : Offsets, data : Data]

ASSUME FilesAssumption ==
  /\ IsFiniteSet(Recipients)
  /\ Checked \in BOOLEAN
  /\ Bad \notin Chunks
  /\ None \notin Calls \cup Files \cup Data \cup Chunks

VARIABLES
  pc,         \* where a call is
  file,       \* the file a call is about
  chunk,      \* the chunk it writes
  mutex,      \* the call that has locked the server, or None
  opened,     \* the names in _openedFiles
  streams,    \* how many streams are open on a file
  content,    \* what is in a file at each offset
  buffer,     \* the chunk that is in the buffer of a file's stream, or None
  written,    \* history: what was written last, or None where that is known to be lost
  recipients, \* _successful of a Transaction: those a dispatch sends to
  unsent,     \* ... that the loop has still to come to
  pending,    \* ... whose answers are outstanding
  repliesLeft,
  notified    \* the monitor of the Transaction was notified while it was waited for

table == <<mutex, opened, streams>>
data == <<content, buffer, written>>
transaction == <<recipients, unsent, pending, repliesLeft, notified>>
vars == <<pc, file, chunk, table, data, transaction>>

\* What a file can hold, and what an empty one does.
Contents == [Offsets -> Data \cup {None}]
Nothing == [o \in Offsets |-> None]

TypeOK ==
  /\ pc \in [Calls -> {"idle", "write", "close", "open", "fopen", "chunk", "fail",
                       "send", "wait", "done"}]
  /\ file \in [Calls -> Files \cup {None}]
  /\ chunk \in [Calls -> Chunks \cup {Bad}]
  /\ mutex \in Calls \cup {None}
  /\ opened \in SUBSET Files
  /\ streams \in [Files -> Nat]
  /\ content \in [Files -> Contents]
  /\ buffer \in [Files -> Chunks \cup {None}]
  /\ written \in [Files -> Contents]
  /\ recipients \in [Calls -> SUBSET Recipients]
  /\ unsent \in [Calls -> SUBSET Recipients]
  /\ pending \in [Calls -> SUBSET Recipients]
  /\ repliesLeft \in [Calls -> Nat]
  /\ notified \in [Calls -> BOOLEAN]

Init ==
  /\ pc = [c \in Calls |-> "idle"]
  /\ file = [c \in Calls |-> None]
  /\ chunk = [c \in Calls |-> Bad]
  /\ mutex = None
  /\ opened = {}
  /\ streams = [f \in Files |-> 0]
  /\ content = [f \in Files |-> Nothing]
  /\ buffer = [f \in Files |-> None]
  /\ written = [f \in Files |-> Nothing]
  /\ recipients = [c \in Calls |-> {}]
  /\ unsent = [c \in Calls |-> {}]
  /\ pending = [c \in Calls |-> {}]
  /\ repliesLeft = [c \in Calls |-> 0]
  /\ notified = [c \in Calls |-> FALSE]

Goto(c, from, to) == pc[c] = from /\ pc' = [pc EXCEPT ![c] = to]

-----------------------------------------------------------------------------
(* The streams. *)

Put(contents, k) == [contents EXCEPT ![k.at] = k.data]

\* The file with what is in the buffer of its stream, and what is written without it.
Flushed(f) == IF buffer[f] = None THEN content[f] ELSE Put(content[f], buffer[f])
Without(contents, k) == IF k = None THEN contents ELSE [contents EXCEPT ![k.at] = None]

\* A stream writes its buffer into the file, or cannot, and it is lost.
Flush(f) ==
  /\ buffer' = [buffer EXCEPT ![f] = None]
  /\ \/ content' = [content EXCEPT ![f] = Flushed(f)] /\ UNCHANGED written
     \/ written' = [written EXCEPT ![f] = Without(@, buffer[f])] /\ UNCHANGED content

-----------------------------------------------------------------------------
(* write and close *)

Call(c, operation, f, k) ==
  /\ Goto(c, "idle", operation)
  /\ file' = [file EXCEPT ![c] = f]
  /\ chunk' = [chunk EXCEPT ![c] = k]
  /\ UNCHANGED <<table, data, transaction>>

\* Mutant of Lock: the table is not locked.
LockNothing(c) ==
  /\ Goto(c, "write", "open")
  /\ UNCHANGED <<file, chunk, table, data, transaction>>

Lock(c) ==
  /\ Goto(c, "write", "open")
  /\ mutex = None /\ mutex' = c
  /\ UNCHANGED <<file, chunk, opened, streams, data, transaction>>

\* The end of a call.
Leave(c, from) ==
  /\ Goto(c, from, "done")
  /\ file' = [file EXCEPT ![c] = None]
  /\ chunk' = [chunk EXCEPT ![c] = Bad]

\* The end of a write; the lock is given back.
Unlock(c, from) == Leave(c, from) /\ mutex' = None

\* The file is in the table, or not ...
Find(c) ==
  /\ Goto(c, "open", IF file[c] \in opened THEN "chunk" ELSE "fopen")
  /\ UNCHANGED <<file, chunk, table, data, transaction>>

\* ... and then fopen() makes it anew ...
Open(c) ==
  LET f == file[c]
  IN  /\ Goto(c, "fopen", "chunk")
      /\ opened' = opened \cup {f}
      /\ streams' = [streams EXCEPT ![f] = @ + 1]
      /\ content' = [content EXCEPT ![f] = Nothing]
      /\ written' = [written EXCEPT ![f] = Nothing]
      /\ UNCHANGED <<file, chunk, mutex, buffer, transaction>>

\* ... or fails.
OpenFailed(c) ==
  /\ Unlock(c, "fopen")
  /\ UNCHANGED <<opened, streams, data, transaction>>

\* fseek() flushes the buffer, fwrite() puts the chunk into it or into the file.
WriteChunk(c) ==
  LET f == file[c]
      k == chunk[c]
  IN  /\ Unlock(c, "chunk")
      /\ k # Bad
      /\ written' = [written EXCEPT ![f] = Put(@, k)]
      /\ \/ /\ content' = [content EXCEPT ![f] = Flushed(f)]
            /\ buffer' = [buffer EXCEPT ![f] = k]
         \/ /\ content' = [content EXCEPT ![f] = Put(Flushed(f), k)]
            /\ buffer' = [buffer EXCEPT ![f] = None]
      /\ UNCHANGED <<opened, streams, transaction>>

\* fseek() fails before it has flushed the buffer, in doing so or after it; it always
\* fails if the offset is bad.
SeekFailed(f) == UNCHANGED data \/ Flush(f)

\* fwrite() fails, with the chunk in the buffer or with some of it in the file.
PutFailed(f, k) ==
  /\ written' = [written EXCEPT ![f] = Without(@, k)]
  /\ \/ /\ content' = [content EXCEPT ![f] = Flushed(f)]
        /\ buffer' = [buffer EXCEPT ![f] = k]
     \/ /\ content' = [content EXCEPT ![f] = Without(Flushed(f), k)]
        /\ buffer' = [buffer EXCEPT ![f] = None]

WriteFailed(c) ==
  /\ Goto(c, "chunk", "fail")
  /\ \/ SeekFailed(file[c])
     \/ chunk[c] # Bad /\ PutFailed(file[c], chunk[c])
  /\ UNCHANGED <<file, chunk, table, transaction>>

\* close() locks the mutex that write() has locked: the exception ends the write
\* instead of the one meant, and the file stays open.  Unchecked, it hangs.
CloseAgain(c) ==
  /\ Checked
  /\ Unlock(c, "fail")
  /\ UNCHANGED <<opened, streams, data, transaction>>

\* Mutant of Close: the stream is forgotten without fclose().
Forget(c) ==
  /\ Leave(c, "close")
  /\ mutex = None
  /\ opened' = opened \ {file[c]}
  /\ UNCHANGED <<mutex, streams, data, transaction>>

\* Mutant of Close: the result of find() is not looked at.
CloseAny(c) ==
  /\ Leave(c, "close")
  /\ mutex = None
  /\ opened' = opened \ {file[c]}
  /\ streams' = [streams EXCEPT ![file[c]] = @ - 1]
  /\ UNCHANGED <<mutex, data, transaction>>

\* The result of fclose(), which flushes the buffer, is not looked at.
Close(c) ==
  LET f == file[c]
  IN  /\ Leave(c, "close")
      /\ mutex = None
      /\ IF f \in opened
           THEN /\ opened' = opened \ {f}
                /\ streams' = [streams EXCEPT ![f] = @ - 1]
                /\ Flush(f)
           ELSE UNCHANGED <<opened, streams, data>>
      /\ UNCHANGED <<mutex, transaction>>

\* A file is made anew, with all of the new content, or with less of it, which is an
\* exception or a last flush whose failure shows nowhere; or it cannot be opened.  If
\* it has a stream, the chunk in the buffer of that can still get into the file.
saveFile(f, new) ==
  \/ /\ content' = [content EXCEPT ![f] = new]
     /\ written' = [written EXCEPT ![f] = Without(new, buffer[f])]
  \/ /\ content' = [content EXCEPT ![f] = Nothing]
     /\ written' = [written EXCEPT ![f] = Nothing]
  \/ UNCHANGED <<content, written>>

\* putFile locks nothing and does not look into the table.
putFile(c, f, new) ==
  /\ Goto(c, "idle", "done")
  /\ saveFile(f, new)
  /\ UNCHANGED <<file, chunk, table, buffer, transaction>>

-----------------------------------------------------------------------------
(* dispatch *)

\* The file is read, and the Transaction locked and its replies counted; or there is
\* no such file.
dispatch(c, servers) ==
  /\ \/ /\ Goto(c, "idle", "send")
        /\ recipients' = [recipients EXCEPT ![c] = servers]
        /\ unsent' = [unsent EXCEPT ![c] = servers]
        /\ repliesLeft' = [repliesLeft EXCEPT ![c] = Cardinality(servers)]
     \/ /\ Goto(c, "idle", "done")
        /\ UNCHANGED <<recipients, unsent, repliesLeft>>
  /\ UNCHANGED <<file, chunk, table, data, pending, notified>>

Send(c) ==
  /\ pc[c] = "send"
  /\ \E r \in unsent[c] :
       /\ unsent' = [unsent EXCEPT ![c] = @ \ {r}]
       /\ pending' = [pending EXCEPT ![c] = @ \cup {r}]
  /\ UNCHANGED <<pc, file, chunk, table, data, recipients, repliesLeft, notified>>

\* wait() gives the lock back.
Wait(c) ==
  /\ Goto(c, "send", "wait")
  /\ unsent[c] = {}
  /\ UNCHANGED <<file, chunk, table, data, transaction>>

\* Mutant of Unlocked: the Transaction is not locked while the calls are sent.
Unguarded(c) == TRUE

\* Whether a reply can lock the Transaction.
Unlocked(c) == pc[c] # "send"

\* A recipient answers, or the call of it fails and it was not successful, which nobody
\* learns: dispatch returns a copy.  To notify wakes one that waits.
replyReceived(c, r) ==
  /\ r \in pending[c]
  /\ Unlocked(c)
  /\ pending' = [pending EXCEPT ![c] = @ \ {r}]
  /\ repliesLeft' = [repliesLeft EXCEPT ![c] = @ - 1]
  /\ notified' = [notified EXCEPT ![c] = @ \/ (repliesLeft[c] = 1 /\ pc[c] = "wait")]
  /\ \E failed \in {{}, {r}} : recipients' = [recipients EXCEPT ![c] = @ \ failed]
  /\ UNCHANGED <<pc, file, chunk, table, data, unsent>>

\* Mutant of Return: that wait() has returned is enough.
ReturnAwake(c) ==
  /\ Goto(c, "wait", "done")
  /\ recipients' = [recipients EXCEPT ![c] = {}]
  /\ UNCHANGED <<file, chunk, table, data, unsent, pending, repliesLeft, notified>>

\* dispatch returns, and the Transaction is destroyed.
Return(c) ==
  /\ Goto(c, "wait", "done")
  /\ notified[c] /\ repliesLeft[c] = 0
  /\ recipients' = [recipients EXCEPT ![c] = {}]
  /\ UNCHANGED <<file, chunk, table, data, unsent, pending, repliesLeft, notified>>

-----------------------------------------------------------------------------

Begin(c) ==
  \/ \E f \in Files, k \in Chunks \cup {Bad} : Call(c, "write", f, k)
  \/ \E f \in Files : Call(c, "close", f, Bad)
  \/ \E f \in Files, d \in Data : putFile(c, f, [o \in Offsets |-> d])
  \/ \E servers \in SUBSET Recipients : dispatch(c, servers)

Continue(c) ==
  \/ Lock(c) \/ Find(c) \/ Open(c) \/ OpenFailed(c)
  \/ WriteChunk(c) \/ WriteFailed(c) \/ CloseAgain(c) \/ Close(c)
  \/ Send(c) \/ Wait(c) \/ Return(c)

Next ==
  \E c \in Calls :
    \/ Begin(c) \/ Continue(c)
    \/ \E r \in Recipients : replyReceived(c, r)

Spec == Init /\ [][Next]_vars

\* The threads of the server go on, and every asynchronous call is answered or fails.
Fairness ==
  \A c \in Calls : /\ WF_vars(Continue(c))
                   /\ \A r \in Recipients : WF_vars(replyReceived(c, r))

FairSpec == Spec /\ Fairness

-----------------------------------------------------------------------------
(* Properties. *)

\* A file in the table has one stream and other files have none: no stream is left
\* over, closed twice, or opened by two writes (write, close).
OneStream == \A f \in Files : streams[f] = IF f \in opened THEN 1 ELSE 0

\* When a file is closed, what was written last at an offset since the file was made
\* anew is there, in whatever order the writes of several clients came and whichever
\* of them failed, but for the chunk in the buffer when a flush fails or when putFile
\* replaces the file of a stream, and but for a write or a putFile that has failed
\* there itself (write, close, getFile).
CompleteWhenClosed ==
  \A f \in Files \ opened, o \in Offsets :
    written[f][o] # None => content[f][o] = written[f][o]

\* No answer comes to a Transaction that has been destroyed, whose address the
\* outstanding calls have (AMI_FileServer_putFileI).
NoDanglingReply == \A c \in Calls : pending[c] # {} => pc[c] \in {"send", "wait"}

\* Where a call stands as one of a Broadcast.
broadcastPhase(c) ==
  CASE pc[c] \in {"send", "wait"} -> "open"
    [] pc[c] = "done" -> "over"
    [] OTHER -> "idle"

Dispatched == INSTANCE Broadcast WITH
  phase <- [c \in Calls |-> broadcastPhase(c)],
  unasked <- unsent,
  asked <- pending

\* A dispatch returns when every recipient has been sent the file and has answered
\* and not before: repliesLeft and the notifications that may be lost stand for the
\* set of those that have not (Spec of Broadcast; FileServerImpl.cc, Transaction).
BroadcastSpec == Dispatched!Spec

\* Every call returns, in whatever order the recipients answer, but for a dispatch to
\* nobody, which waits for ever (Transaction::run).
CallsReturn ==
  \A c \in Calls :
    /\ pc[c] \in {"write", "close"} ~> pc[c] = "done"
    /\ pc[c] = "send" /\ recipients[c] # {} ~> pc[c] = "done"
=============================================================================
