--------------------------- MODULE FileServer_proofs ---------------------------
(***************************************************************************)
(* Theorems about FileServer, for any number of calls, files and           *)
(* recipients.                                                             *)
(***************************************************************************)
EXTENDS FileServer, FiniteSetTheorems, TLAPS

\* A write has the lock from its start to its end, and nobody else does.
LockInv == \A c \in Calls : mutex = c <=> pc[c] \in {"open", "fopen", "chunk", "fail"}

\* What a call knows of its file, and nobody can change meanwhile.
FileInv ==
  \A c \in Calls :
    /\ pc[c] \in {"write", "close", "open", "fopen", "chunk", "fail"} => file[c] \in Files
    /\ pc[c] = "fopen" => file[c] \notin opened
    /\ pc[c] = "chunk" => file[c] \in opened

\* What was written last and is not known to be lost is in the file once the buffer of
\* its stream, if it has one, is flushed into it.
Promise(f) == \A o \in Offsets : written[f][o] # None => Flushed(f)[o] = written[f][o]
DataInv == \A f \in Files : Promise(f) /\ (f \notin opened => buffer[f] = None)

\* A Transaction counts the replies that have still to come.
ReplyInv ==
  \A c \in Calls :
    /\ unsent[c] \cap pending[c] = {}
    /\ repliesLeft[c] = Cardinality(unsent[c] \cup pending[c])
    /\ pc[c] # "send" => unsent[c] = {}
    /\ pc[c] \notin {"send", "wait"} => pending[c] = {}

TableInv == LockInv /\ FileInv /\ OneStream /\ DataInv

IInv == TypeOK /\ TableInv /\ ReplyInv
-----------------------------------------------------------------------------
(* Files. *)

LEMMA PutEffect ==
  ASSUME NEW contents \in Contents, NEW k \in Chunks
  PROVE  /\ Put(contents, k) \in Contents
         /\ Put(contents, k)[k.at] = k.data
         /\ \A o \in Offsets : o # k.at => Put(contents, k)[o] = contents[o]
BY DEF Contents, Chunks, Put

LEMMA WithoutEffect ==
  ASSUME NEW contents \in Contents, NEW k \in Chunks \cup {None}
  PROVE  /\ Without(contents, k) \in Contents
         /\ k # None => Without(contents, k)[k.at] = None
         /\ \A o \in Offsets : Without(contents, k)[o] \in {None, contents[o]}
         /\ \A o \in Offsets : k = None \/ o # k.at => Without(contents, k)[o] = contents[o]
BY DEF Contents, Chunks, Without

LEMMA NothingType == Nothing \in Contents /\ \A o \in Offsets : Nothing[o] = None
BY DEF Nothing, Contents

LEMMA FlushedEffect ==
  ASSUME TypeOK, NEW f \in Files
  PROVE  /\ Flushed(f) \in Contents
         /\ buffer[f] = None => Flushed(f) = content[f]
         /\ \A o \in Offsets :
              buffer[f] = None \/ o # buffer[f].at => Flushed(f)[o] = content[f][o]
<1>1. content[f] \in Contents /\ buffer[f] \in Chunks \cup {None}
  BY DEF TypeOK
<1> QED
  BY <1>1, PutEffect DEF Flushed

\* The flush of a stream, whether it succeeds or not, takes back what it has lost.
LEMMA FlushEffect ==
  ASSUME TypeOK, DataInv, NEW f \in Files, Flush(f)
  PROVE  /\ content' \in [Files -> Contents] /\ written' \in [Files -> Contents]
         /\ buffer' \in [Files -> Chunks \cup {None}]
         /\ buffer'[f] = None /\ Promise(f)'
         /\ \A g \in Files \ {f} : /\ content'[g] = content[g] /\ written'[g] = written[g]
                                   /\ buffer'[g] = buffer[g]
<1>1. /\ content \in [Files -> Contents] /\ written \in [Files -> Contents]
      /\ buffer \in [Files -> Chunks \cup {None}]
      /\ buffer' = [buffer EXCEPT ![f] = None]
  BY DEF TypeOK, Flush
<1>2. buffer'[f] = None /\ buffer' \in [Files -> Chunks \cup {None}]
  BY <1>1
<1>3. Flushed(f)' = content'[f]
  BY <1>2 DEF Flushed
<1>4. CASE content' = [content EXCEPT ![f] = Flushed(f)] /\ UNCHANGED written
  <2>1. content' \in [Files -> Contents] /\ content'[f] = Flushed(f)
    BY <1>1, <1>4, FlushedEffect
  <2> QED
    BY <1>1, <1>2, <1>3, <1>4, <2>1 DEF DataInv, Promise
<1>5. CASE written' = [written EXCEPT ![f] = Without(@, buffer[f])] /\ UNCHANGED content
  <2>1. written' \in [Files -> Contents] /\ written'[f] = Without(written[f], buffer[f])
    BY <1>1, <1>5, WithoutEffect
  <2>2. Promise(f)'
    BY <1>1, <1>3, <1>5, <2>1, WithoutEffect, FlushedEffect DEF DataInv, Promise
  <2> QED
    BY <1>1, <1>2, <1>5, <2>1, <2>2
<1> QED
  BY <1>4, <1>5 DEF Flush

\* Files other than the one of a step keep what was written into them.
LEMMA OthersKeepData ==
  ASSUME DataInv, NEW f \in Files, Promise(f)', f \notin opened' => buffer'[f] = None,
         \A g \in Files \ {f} : /\ content'[g] = content[g] /\ written'[g] = written[g]
                               /\ buffer'[g] = buffer[g] /\ (g \in opened' <=> g \in opened)
  PROVE  DataInv'
<1>1. ASSUME NEW g \in Files \ {f}
      PROVE  Promise(g)' /\ (g \notin opened' => buffer'[g] = None)
  BY <1>1 DEF DataInv, Promise, Flushed
<1> QED
  BY <1>1 DEF DataInv

LEMMA DataKeeps ==
  ASSUME DataInv, UNCHANGED <<opened, data>>
  PROVE  DataInv'
BY DEF DataInv, Promise, Flushed, data
-----------------------------------------------------------------------------
(* Steps of write, close and putFile. *)

\* The Transactions are left alone by everything but dispatch and the replies.
LEMMA OtherKeepsReplies ==
  ASSUME ReplyInv, UNCHANGED transaction,
         \A c \in Calls : \/ pc'[c] = pc[c]
                          \/ pc[c] \notin {"send", "wait"} /\ pc'[c] \notin {"send", "wait"}
  PROVE  ReplyInv'
BY DEF ReplyInv, transaction

LEMMA CallKeeps ==
  ASSUME IInv, NEW c \in Calls, NEW f \in Files, NEW k \in Chunks \cup {Bad},
         NEW operation \in {"write", "close"}, Call(c, operation, f, k)
  PROVE  IInv'
<1> USE DEF IInv, TableInv
<1>1. /\ pc[c] = "idle" /\ pc' = [pc EXCEPT ![c] = operation]
      /\ file' = [file EXCEPT ![c] = f] /\ chunk' = [chunk EXCEPT ![c] = k]
      /\ UNCHANGED <<table, data, transaction>>
  BY DEF Call, Goto
<1>2. TypeOK'
  BY <1>1 DEF TypeOK, table, data, transaction
<1>3. LockInv' /\ FileInv' /\ OneStream' /\ DataInv'
  BY <1>1, DataKeeps DEF TypeOK, LockInv, FileInv, OneStream, table
<1>4. ReplyInv'
  BY <1>1, OtherKeepsReplies DEF TypeOK
<1> QED
  BY <1>2, <1>3, <1>4

LEMMA LockKeeps ==
  ASSUME IInv, NEW c \in Calls, Lock(c)
  PROVE  IInv'
<1> USE DEF IInv, TableInv
<1>1. /\ pc[c] = "write" /\ pc' = [pc EXCEPT ![c] = "open"]
      /\ mutex = None /\ mutex' = c
      /\ UNCHANGED <<file, chunk, opened, streams, data, transaction>>
  BY DEF Lock, Goto
<1>2. TypeOK'
  BY <1>1 DEF TypeOK, data, transaction
<1>3. LockInv' /\ FileInv' /\ OneStream' /\ DataInv'
  BY <1>1, FilesAssumption, DataKeeps DEF TypeOK, LockInv, FileInv, OneStream
<1>4. ReplyInv'
  BY <1>1, OtherKeepsReplies DEF TypeOK
<1> QED
  BY <1>2, <1>3, <1>4

LEMMA FindKeeps ==
  ASSUME IInv, NEW c \in Calls, Find(c)
  PROVE  IInv'
<1> USE DEF IInv, TableInv
<1>1. /\ pc[c] = "open"
      /\ pc' = [pc EXCEPT ![c] = IF file[c] \in opened THEN "chunk" ELSE "fopen"]
      /\ UNCHANGED <<file, chunk, table, data, transaction>>
  BY DEF Find, Goto
<1>2. TypeOK'
  BY <1>1 DEF TypeOK, table, data, transaction
<1>3. LockInv' /\ FileInv' /\ OneStream' /\ DataInv'
  BY <1>1, DataKeeps DEF TypeOK, LockInv, FileInv, OneStream, table
<1>4. ReplyInv'
  BY <1>1, OtherKeepsReplies DEF TypeOK
<1> QED
  BY <1>2, <1>3, <1>4

LEMMA OpenKeeps ==
  ASSUME IInv, NEW c \in Calls, Open(c)
  PROVE  IInv'
<1> USE DEF IInv, TableInv
<1>1. /\ pc[c] = "fopen" /\ pc' = [pc EXCEPT ![c] = "chunk"]
      /\ opened' = opened \cup {file[c]}
      /\ streams' = [streams EXCEPT ![file[c]] = @ + 1]
      /\ content' = [content EXCEPT ![file[c]] = Nothing]
      /\ written' = [written EXCEPT ![file[c]] = Nothing]
      /\ UNCHANGED <<file, chunk, mutex, buffer, transaction>>
  BY DEF Open, Goto
<1>2. file[c] \in Files /\ file[c] \notin opened /\ mutex = c
  BY <1>1 DEF FileInv, LockInv
<1>3. TypeOK'
  <2>1. streams' \in [Files -> Nat] /\ opened' \in SUBSET Files
    BY <1>1, <1>2 DEF TypeOK
  <2>2. content' \in [Files -> Contents] /\ written' \in [Files -> Contents]
    BY <1>1, <1>2, NothingType DEF TypeOK
  <2> QED
    BY <1>1, <2>1, <2>2 DEF TypeOK, transaction
<1>4. LockInv'
  BY <1>1 DEF TypeOK, LockInv
<1>5. FileInv'
  BY <1>1, <1>2 DEF TypeOK, LockInv, FileInv
<1>6. OneStream'
  BY <1>1, <1>2 DEF TypeOK, OneStream
<1>7. DataInv'
  <2>1. Promise(file[c])'
    BY <1>1, <1>2, NothingType DEF TypeOK, Promise
  <2> QED
    BY <1>1, <1>2, <2>1, OthersKeepData DEF TypeOK, DataInv
<1>8. ReplyInv'
  BY <1>1, OtherKeepsReplies DEF TypeOK
<1> QED
  BY <1>3, <1>4, <1>5, <1>6, <1>7, <1>8

\* The end of a write that has failed.
LEMMA UnlockKeeps ==
  ASSUME IInv, NEW c \in Calls, NEW from \in {"fopen", "fail"}, Unlock(c, from),
         UNCHANGED <<opened, streams, data, transaction>>
  PROVE  IInv'
<1> USE DEF IInv, TableInv
<1>1. /\ pc[c] = from /\ pc' = [pc EXCEPT ![c] = "done"] /\ mutex' = None
      /\ file' = [file EXCEPT ![c] = None] /\ chunk' = [chunk EXCEPT ![c] = Bad]
      /\ UNCHANGED <<opened, streams, data, transaction>>
  BY DEF Unlock, Leave, Goto
<1>2. TypeOK'
  BY <1>1 DEF TypeOK, data, transaction
<1>3. LockInv' /\ FileInv' /\ OneStream' /\ DataInv'
  BY <1>1, FilesAssumption, DataKeeps DEF TypeOK, LockInv, FileInv, OneStream
<1>4. ReplyInv'
  BY <1>1, OtherKeepsReplies DEF TypeOK
<1> QED
  BY <1>2, <1>3, <1>4

LEMMA WriteChunkKeeps ==
  ASSUME IInv, NEW c \in Calls, WriteChunk(c)
  PROVE  IInv'
<1> USE DEF IInv, TableInv
<1>1. pc[c] = "chunk" /\ chunk[c] # Bad
  BY DEF WriteChunk, Unlock, Leave, Goto
<1>2. file[c] \in Files /\ file[c] \in opened /\ mutex = c /\ chunk[c] \in Chunks
  BY <1>1 DEF FileInv, LockInv, TypeOK
<1>3. PICK f \in Files, k \in Chunks : f = file[c] /\ k = chunk[c]
  BY <1>2
<1>4. /\ pc[c] = "chunk" /\ pc' = [pc EXCEPT ![c] = "done"] /\ mutex' = None
      /\ file' = [file EXCEPT ![c] = None] /\ chunk' = [chunk EXCEPT ![c] = Bad]
      /\ written' = [written EXCEPT ![f] = Put(@, k)]
      /\ \/ /\ content' = [content EXCEPT ![f] = Flushed(f)]
            /\ buffer' = [buffer EXCEPT ![f] = k]
         \/ /\ content' = [content EXCEPT ![f] = Put(Flushed(f), k)]
            /\ buffer' = [buffer EXCEPT ![f] = None]
      /\ UNCHANGED <<opened, streams, transaction>>
  BY <1>3 DEF WriteChunk, Unlock, Leave, Goto
<1>5. f \in opened /\ mutex = c
  BY <1>2, <1>3
<1>6. /\ written \in [Files -> Contents] /\ content \in [Files -> Contents]
      /\ buffer \in [Files -> Chunks \cup {None}] /\ Flushed(f) \in Contents
  BY <1>5, FlushedEffect DEF TypeOK
<1>7. /\ Put(Flushed(f), k) \in Contents /\ Put(written[f], k) \in Contents
      /\ Put(Flushed(f), k)[k.at] = Put(written[f], k)[k.at]
      /\ \A o \in Offsets : o # k.at => /\ Put(Flushed(f), k)[o] = Flushed(f)[o]
                                       /\ Put(written[f], k)[o] = written[f][o]
  BY <1>5, <1>6, PutEffect
<1>8. /\ written' \in [Files -> Contents] /\ written'[f] = Put(written[f], k)
      /\ content' \in [Files -> Contents] /\ buffer' \in [Files -> Chunks \cup {None}]
      /\ \A g \in Files \ {f} : /\ written'[g] = written[g] /\ content'[g] = content[g]
                                /\ buffer'[g] = buffer[g]
  BY <1>4, <1>5, <1>6, <1>7
<1>9. Flushed(f)' = Put(Flushed(f), k)
  <2>1. k # None
    BY <1>5, FilesAssumption
  <2>2. \/ content'[f] = Flushed(f) /\ buffer'[f] = k
        \/ content'[f] = Put(Flushed(f), k) /\ buffer'[f] = None
    BY <1>4, <1>5, <1>6
  <2> QED
    BY <2>1, <2>2 DEF Flushed
<1>10. TypeOK'
  BY <1>4, <1>8 DEF TypeOK, transaction
<1>11. LockInv'
  BY <1>4, FilesAssumption DEF TypeOK, LockInv
<1>12. FileInv' /\ OneStream'
  BY <1>4 DEF TypeOK, FileInv, OneStream
<1>13. DataInv'
  <2>1. Promise(f)'
    BY <1>5, <1>7, <1>8, <1>9 DEF DataInv, Promise
  <2> QED
    BY <1>4, <1>5, <1>8, <2>1, OthersKeepData
<1>14. ReplyInv'
  BY <1>4, OtherKeepsReplies DEF TypeOK
<1> QED
  BY <1>10, <1>11, <1>12, <1>13, <1>14

\* What a write can do to its file when it fails.
LEMMA FailureKeeps ==
  ASSUME TypeOK, DataInv, NEW f \in opened, NEW k \in Chunks \cup {Bad},
         SeekFailed(f) \/ (k # Bad /\ PutFailed(f, k)), UNCHANGED opened
  PROVE  /\ DataInv'
         /\ content' \in [Files -> Contents] /\ written' \in [Files -> Contents]
         /\ buffer' \in [Files -> Chunks \cup {None}]
<1>1. /\ written \in [Files -> Contents] /\ content \in [Files -> Contents]
      /\ buffer \in [Files -> Chunks \cup {None}] /\ f \in Files /\ Flushed(f) \in Contents
  BY FlushedEffect DEF TypeOK
<1>2. CASE UNCHANGED data
  BY <1>1, <1>2, DataKeeps DEF data
<1>3. CASE Flush(f)
  BY <1>1, <1>3, FlushEffect, OthersKeepData
<1>4. CASE k # Bad /\ PutFailed(f, k)
  <2>1. /\ written' = [written EXCEPT ![f] = Without(@, k)]
        /\ \/ /\ content' = [content EXCEPT ![f] = Flushed(f)]
              /\ buffer' = [buffer EXCEPT ![f] = k]
           \/ /\ content' = [content EXCEPT ![f] = Without(Flushed(f), k)]
              /\ buffer' = [buffer EXCEPT ![f] = None]
    BY <1>4 DEF PutFailed
  <2>2. k \in Chunks /\ k # None
    BY <1>4, FilesAssumption
  <2>3. /\ Without(written[f], k) \in Contents /\ Without(written[f], k)[k.at] = None
        /\ Without(Flushed(f), k) \in Contents /\ Put(Flushed(f), k) \in Contents
        /\ \A o \in Offsets : o # k.at => /\ Without(written[f], k)[o] = written[f][o]
                                         /\ Without(Flushed(f), k)[o] = Flushed(f)[o]
                                         /\ Put(Flushed(f), k)[o] = Flushed(f)[o]
    BY <1>1, <2>2, WithoutEffect, PutEffect
  <2>4. /\ written' \in [Files -> Contents] /\ written'[f] = Without(written[f], k)
        /\ content' \in [Files -> Contents] /\ buffer' \in [Files -> Chunks \cup {None}]
        /\ \A g \in Files \ {f} : /\ written'[g] = written[g] /\ content'[g] = content[g]
                                  /\ buffer'[g] = buffer[g]
    BY <1>1, <2>1, <2>2, <2>3
  <2>5. Flushed(f)' \in {Put(Flushed(f), k), Without(Flushed(f), k)}
    <3>1. \/ content'[f] = Flushed(f) /\ buffer'[f] = k
          \/ content'[f] = Without(Flushed(f), k) /\ buffer'[f] = None
      BY <1>1, <2>1
    <3> QED
      BY <2>2, <3>1 DEF Flushed
  <2>6. Promise(f)'
    BY <1>1, <2>3, <2>4, <2>5 DEF DataInv, Promise
  <2> QED
    BY <1>1, <2>4, <2>6, OthersKeepData
<1> QED
  BY <1>2, <1>3, <1>4 DEF SeekFailed

LEMMA WriteFailedKeeps ==
  ASSUME IInv, NEW c \in Calls, WriteFailed(c)
  PROVE  IInv'
<1> USE DEF IInv, TableInv
<1>1. /\ pc[c] = "chunk" /\ pc' = [pc EXCEPT ![c] = "fail"]
      /\ UNCHANGED <<file, chunk, table, transaction>>
      /\ SeekFailed(file[c]) \/ (chunk[c] # Bad /\ PutFailed(file[c], chunk[c]))
  BY DEF WriteFailed, Goto
<1>2. file[c] \in opened /\ chunk[c] \in Chunks \cup {Bad}
  BY <1>1 DEF FileInv, TypeOK
<1>3. /\ DataInv'
      /\ content' \in [Files -> Contents] /\ written' \in [Files -> Contents]
      /\ buffer' \in [Files -> Chunks \cup {None}]
  BY <1>1, <1>2, FailureKeeps DEF table
<1>4. TypeOK'
  BY <1>1, <1>3 DEF TypeOK, table, transaction
<1>5. LockInv' /\ FileInv' /\ OneStream'
  BY <1>1 DEF TypeOK, LockInv, FileInv, OneStream, table
<1>6. ReplyInv'
  BY <1>1, OtherKeepsReplies DEF TypeOK
<1> QED
  BY <1>3, <1>4, <1>5, <1>6

LEMMA CloseKeeps ==
  ASSUME IInv, NEW c \in Calls, Close(c)
  PROVE  IInv'
<1> USE DEF IInv, TableInv
<1>1. /\ pc[c] = "close" /\ pc' = [pc EXCEPT ![c] = "done"] /\ mutex = None
      /\ file' = [file EXCEPT ![c] = None] /\ chunk' = [chunk EXCEPT ![c] = Bad]
      /\ UNCHANGED <<mutex, transaction>>
  BY DEF Close, Leave, Goto
<1>2. file[c] \in Files /\ \A d \in Calls : pc[d] \notin {"open", "fopen", "chunk", "fail"}
  BY <1>1, FilesAssumption DEF FileInv, LockInv
<1>3. PICK f \in Files : f = file[c]
  BY <1>2
<1>4. LockInv' /\ FileInv'
  BY <1>1, <1>2 DEF TypeOK, LockInv, FileInv
<1>5. CASE f \in opened
  <2>1. /\ opened' = opened \ {f}
        /\ streams' = [streams EXCEPT ![f] = @ - 1]
        /\ Flush(f)
    BY <1>5, <1>3 DEF Close
  <2>2. streams[f] = 1
    BY <1>2, <1>5 DEF OneStream
  <2>3. streams' \in [Files -> Nat] /\ opened' \in SUBSET Files
    BY <1>2, <2>1, <2>2 DEF TypeOK
  <2>4. /\ content' \in [Files -> Contents] /\ written' \in [Files -> Contents]
        /\ buffer' \in [Files -> Chunks \cup {None}]
        /\ buffer'[f] = None /\ Promise(f)'
        /\ \A g \in Files \ {f} : /\ content'[g] = content[g] /\ written'[g] = written[g]
                                  /\ buffer'[g] = buffer[g]
    BY <1>2, <2>1, FlushEffect
  <2>5. TypeOK'
    BY <1>1, <2>3, <2>4 DEF TypeOK, transaction
  <2>6. OneStream'
    BY <1>2, <2>1, <2>2 DEF TypeOK, OneStream
  <2>7. DataInv'
    BY <1>2, <2>1, <2>4, OthersKeepData
  <2> QED
    BY <1>1, <1>4, <2>5, <2>6, <2>7, OtherKeepsReplies DEF TypeOK
<1>6. CASE f \notin opened
  <2>1. UNCHANGED <<opened, streams, data>>
    BY <1>6, <1>3 DEF Close
  <2>2. TypeOK'
    BY <1>1, <2>1 DEF TypeOK, transaction, data
  <2>3. OneStream' /\ DataInv'
    BY <2>1, DataKeeps DEF OneStream
  <2> QED
    BY <1>1, <1>4, <2>2, <2>3, OtherKeepsReplies DEF TypeOK
<1> QED
  BY <1>5, <1>6

LEMMA putFileKeeps ==
  ASSUME IInv, NEW c \in Calls, NEW f \in Files, NEW new \in Contents, putFile(c, f, new)
  PROVE  IInv'
<1> USE DEF IInv, TableInv
<1>1. /\ pc[c] = "idle" /\ pc' = [pc EXCEPT ![c] = "done"]
      /\ UNCHANGED <<file, chunk, table, buffer, transaction>>
  BY DEF putFile, Goto
<1>2. /\ written \in [Files -> Contents] /\ content \in [Files -> Contents]
      /\ buffer[f] \in Chunks \cup {None} /\ Without(new, buffer[f]) \in Contents
  BY WithoutEffect DEF TypeOK
<1>3. /\ content' \in [Files -> Contents] /\ written' \in [Files -> Contents]
      /\ \A g \in Files \ {f} : content'[g] = content[g] /\ written'[g] = written[g]
      /\ \/ content'[f] = new /\ written'[f] = Without(new, buffer[f])
         \/ written'[f] = Nothing
         \/ UNCHANGED <<content, written>>
  BY <1>2, NothingType DEF putFile, saveFile
<1>4. TypeOK'
  BY <1>1, <1>3 DEF TypeOK, table, transaction
<1>5. LockInv' /\ FileInv' /\ OneStream'
  BY <1>1 DEF TypeOK, LockInv, FileInv, OneStream, table
<1>6. DataInv'
  <2>1. CASE content'[f] = new /\ written'[f] = Without(new, buffer[f])
    <3>1. Flushed(f)' = IF buffer[f] = None THEN new ELSE Put(new, buffer[f])
      BY <1>1, <2>1 DEF Flushed
    <3>2. ASSUME buffer[f] = None PROVE Promise(f)'
      BY <2>1, <3>1, <3>2 DEF Promise, Without
    <3>3. ASSUME buffer[f] # None PROVE Promise(f)'
      <4>1. /\ Without(new, buffer[f])[buffer[f].at] = None
            /\ \A o \in Offsets : o # buffer[f].at =>
                 Without(new, buffer[f])[o] = new[o] /\ Put(new, buffer[f])[o] = new[o]
        BY <1>2, <3>3, PutEffect, WithoutEffect
      <4> QED
        BY <2>1, <3>1, <3>3, <4>1 DEF Promise
    <3>4. Promise(f)'
      BY <3>2, <3>3
    <3> QED
      BY <1>1, <1>3, <3>4, OthersKeepData DEF table, DataInv
  <2>2. CASE written'[f] = Nothing
    <3>1. Promise(f)'
      BY <2>2, NothingType DEF Promise
    <3> QED
      BY <1>1, <1>3, <3>1, OthersKeepData DEF table, DataInv
  <2>3. CASE UNCHANGED <<content, written>>
    BY <1>1, <2>3, DataKeeps DEF table, data
  <2> QED
    BY <1>3, <2>1, <2>2, <2>3
<1>7. ReplyInv'
  BY <1>1, OtherKeepsReplies DEF TypeOK
<1> QED
  BY <1>4, <1>5, <1>6, <1>7
-----------------------------------------------------------------------------
(* Steps of dispatch. *)

\* The table is left alone by dispatch and the replies.
LEMMA DispatchKeepsTable ==
  ASSUME TableInv, UNCHANGED <<file, chunk, table, data>>,
         \A c \in Calls : \/ pc'[c] = pc[c]
                          \/ /\ pc[c] \in {"idle", "send", "wait"}
                             /\ pc'[c] \in {"send", "wait", "done"}
  PROVE  TableInv'
BY DataKeeps DEF TableInv, LockInv, FileInv, OneStream, table

LEMMA dispatchKeeps ==
  ASSUME IInv, NEW c \in Calls, NEW servers \in SUBSET Recipients, dispatch(c, servers)
  PROVE  IInv'
<1> USE DEF IInv
<1>1. /\ pc[c] = "idle" /\ pc' \in {[pc EXCEPT ![c] = "send"], [pc EXCEPT ![c] = "done"]}
      /\ UNCHANGED <<file, chunk, table, data, pending, notified>>
  BY DEF dispatch, Goto
<1>2. unsent[c] = {} /\ pending[c] = {}
  BY <1>1 DEF ReplyInv
<1>3. IsFiniteSet(servers)
  BY FilesAssumption, FS_Subset
<1>4. Cardinality(servers) \in Nat
  BY <1>3, FS_CardinalityType
<1>5. CASE /\ pc' = [pc EXCEPT ![c] = "send"]
           /\ recipients' = [recipients EXCEPT ![c] = servers]
           /\ unsent' = [unsent EXCEPT ![c] = servers]
           /\ repliesLeft' = [repliesLeft EXCEPT ![c] = Cardinality(servers)]
  <2>1. TypeOK'
    BY <1>1, <1>4, <1>5 DEF TypeOK, table, data
  <2>2. unsent'[c] \cup pending'[c] = servers
    BY <1>1, <1>2, <1>5 DEF TypeOK
  <2>3. ReplyInv'
    BY <1>1, <1>2, <1>5, <2>2 DEF TypeOK, ReplyInv
  <2>4. TableInv'
    BY <1>1, <1>5, DispatchKeepsTable DEF TypeOK
  <2> QED
    BY <2>1, <2>3, <2>4
<1>6. CASE pc' = [pc EXCEPT ![c] = "done"] /\ UNCHANGED <<recipients, unsent, repliesLeft>>
  <2>1. TypeOK'
    BY <1>1, <1>6 DEF TypeOK, table, data
  <2>2. ReplyInv'
    BY <1>1, <1>2, <1>6 DEF TypeOK, ReplyInv
  <2>3. TableInv'
    BY <1>1, <1>6, DispatchKeepsTable DEF TypeOK
  <2> QED
    BY <2>1, <2>2, <2>3
<1> QED
  BY <1>5, <1>6 DEF dispatch, Goto

LEMMA SendKeeps ==
  ASSUME IInv, NEW c \in Calls, Send(c)
  PROVE  IInv'
<1> USE DEF IInv
<1>1. pc[c] = "send" /\ UNCHANGED <<pc, file, chunk, table, data, recipients, repliesLeft, notified>>
  BY DEF Send
<1>2. PICK r \in unsent[c] : /\ unsent' = [unsent EXCEPT ![c] = @ \ {r}]
                             /\ pending' = [pending EXCEPT ![c] = @ \cup {r}]
  BY DEF Send
<1>3. TypeOK'
  BY <1>1, <1>2 DEF TypeOK, table, data
<1>4. /\ unsent'[c] \cup pending'[c] = unsent[c] \cup pending[c]
      /\ \A d \in Calls \ {c} : unsent'[d] = unsent[d] /\ pending'[d] = pending[d]
      /\ unsent'[c] \cap pending'[c] = {}
  BY <1>2 DEF TypeOK, ReplyInv
<1>5. ReplyInv'
  BY <1>1, <1>4 DEF ReplyInv
<1>6. TableInv'
  BY <1>1, DispatchKeepsTable
<1> QED
  BY <1>3, <1>5, <1>6

LEMMA WaitKeeps ==
  ASSUME IInv, NEW c \in Calls, Wait(c)
  PROVE  IInv'
<1> USE DEF IInv
<1>1. /\ pc[c] = "send" /\ pc' = [pc EXCEPT ![c] = "wait"] /\ unsent[c] = {}
      /\ UNCHANGED <<file, chunk, table, data, transaction>>
  BY DEF Wait, Goto
<1>2. TypeOK'
  BY <1>1 DEF TypeOK, table, data, transaction
<1>3. ReplyInv'
  BY <1>1 DEF TypeOK, ReplyInv, transaction
<1>4. TableInv'
  BY <1>1, DispatchKeepsTable DEF TypeOK
<1> QED
  BY <1>2, <1>3, <1>4

LEMMA replyReceivedKeeps ==
  ASSUME IInv, NEW c \in Calls, NEW r \in Recipients, replyReceived(c, r)
  PROVE  IInv'
<1> USE DEF IInv
<1>1. /\ r \in pending[c] /\ pc[c] # "send"
      /\ pending' = [pending EXCEPT ![c] = @ \ {r}]
      /\ repliesLeft' = [repliesLeft EXCEPT ![c] = @ - 1]
      /\ UNCHANGED <<pc, file, chunk, table, data, unsent>>
  BY DEF replyReceived, Unlocked
<1>2. unsent[c] = {} /\ repliesLeft[c] = Cardinality(pending[c])
  BY <1>1 DEF ReplyInv
<1>3. IsFiniteSet(pending[c])
  BY FilesAssumption, FS_Subset DEF TypeOK
<1>4. /\ Cardinality(pending[c]) \in Nat /\ Cardinality(pending[c] \ {r}) \in Nat
      /\ Cardinality(pending[c] \ {r}) = Cardinality(pending[c]) - 1
  BY <1>1, <1>3, FS_CardinalityType, FS_RemoveElement
<1>5. pending' \in [Calls -> SUBSET Recipients] /\ repliesLeft' \in [Calls -> Nat]
  BY <1>1, <1>2, <1>4 DEF TypeOK
<1>6. notified' \in [Calls -> BOOLEAN] /\ recipients' \in [Calls -> SUBSET Recipients]
  BY DEF replyReceived, TypeOK
<1>7. TypeOK'
  BY <1>1, <1>5, <1>6 DEF TypeOK, table, data
<1>8. ReplyInv'
  <2>1. /\ pending'[c] = pending[c] \ {r} /\ repliesLeft'[c] = repliesLeft[c] - 1
        /\ \A d \in Calls \ {c} : pending'[d] = pending[d] /\ repliesLeft'[d] = repliesLeft[d]
    BY <1>1 DEF TypeOK
  <2>2. unsent[c] \cup pending'[c] = pending[c] \ {r}
    BY <1>2, <2>1
  <2> QED
    BY <1>1, <1>2, <1>4, <2>1, <2>2 DEF ReplyInv
<1>9. TableInv'
  BY <1>1, DispatchKeepsTable
<1> QED
  BY <1>7, <1>8, <1>9

LEMMA ReturnKeeps ==
  ASSUME IInv, NEW c \in Calls, Return(c)
  PROVE  IInv'
<1> USE DEF IInv
<1>1. /\ pc[c] = "wait" /\ pc' = [pc EXCEPT ![c] = "done"] /\ repliesLeft[c] = 0
      /\ recipients' = [recipients EXCEPT ![c] = {}]
      /\ UNCHANGED <<file, chunk, table, data, unsent, pending, repliesLeft, notified>>
  BY DEF Return, Goto
<1>2. unsent[c] = {} /\ Cardinality(pending[c]) = 0 /\ IsFiniteSet(pending[c])
  BY <1>1, FilesAssumption, FS_Subset DEF ReplyInv, TypeOK
<1>3. pending[c] = {}
  BY <1>2, FS_EmptySet
<1>4. TypeOK'
  BY <1>1 DEF TypeOK, table, data
<1>5. ReplyInv'
  BY <1>1, <1>3 DEF TypeOK, ReplyInv
<1>6. TableInv'
  BY <1>1, DispatchKeepsTable DEF TypeOK
<1> QED
  BY <1>4, <1>5, <1>6
-----------------------------------------------------------------------------
(* The theorems. *)

LEMMA InitEstablishes == Init => IInv
<1> SUFFICES ASSUME Init
             PROVE  IInv
  OBVIOUS
<1>1. TypeOK
  BY NothingType DEF Init, TypeOK
<1>2. LockInv /\ FileInv /\ OneStream /\ DataInv
  BY FilesAssumption, NothingType
     DEF Init, LockInv, FileInv, OneStream, DataInv, Promise
<1>3. ReplyInv
  <2>1. Cardinality({}) = 0
    BY FS_EmptySet
  <2>2. \A c \in Calls : unsent[c] \cup pending[c] = {} /\ repliesLeft[c] = 0 /\ pc[c] = "idle"
    BY DEF Init
  <2> QED
    BY <2>1, <2>2 DEF ReplyInv
<1> QED
  BY <1>1, <1>2, <1>3 DEF IInv, TableInv

LEMMA StepKeeps == IInv /\ [Next]_vars => IInv'
<1> SUFFICES ASSUME IInv, [Next]_vars
             PROVE  IInv'
  OBVIOUS
<1>1. CASE UNCHANGED vars
  BY <1>1, DataKeeps DEF vars, table, data, transaction, IInv, TypeOK, TableInv, LockInv,
                         FileInv, OneStream, ReplyInv
<1>2. ASSUME NEW c \in Calls, Begin(c)
      PROVE  IInv'
  <2>1. ASSUME NEW d \in Data
        PROVE  [o \in Offsets |-> d] \in Contents
    BY DEF Contents
  <2> QED
    BY <1>2, <2>1, CallKeeps, putFileKeeps, dispatchKeeps DEF Begin
<1>3. ASSUME NEW c \in Calls, Continue(c)
      PROVE  IInv'
  <2>1. CASE Lock(c) \/ Find(c) \/ Open(c) \/ WriteChunk(c) \/ WriteFailed(c) \/ Close(c)
    BY <2>1, LockKeeps, FindKeeps, OpenKeeps, WriteChunkKeeps, WriteFailedKeeps, CloseKeeps
  <2>2. CASE OpenFailed(c) \/ CloseAgain(c)
    BY <2>2, UnlockKeeps DEF OpenFailed, CloseAgain
  <2>3. CASE Send(c) \/ Wait(c) \/ Return(c)
    BY <2>3, SendKeeps, WaitKeeps, ReturnKeeps
  <2> QED
    BY <1>3, <2>1, <2>2, <2>3 DEF Continue
<1>4. ASSUME NEW c \in Calls, NEW r \in Recipients, replyReceived(c, r)
      PROVE  IInv'
  BY <1>4, replyReceivedKeeps
<1> QED
  BY <1>1, <1>2, <1>3, <1>4 DEF Next

\* The invariant holds in every state.
THEOREM Invariance == Spec => []IInv
<1>1. Init => IInv
  BY InitEstablishes
<1>2. IInv /\ [Next]_vars => IInv'
  BY StepKeeps
<1> QED
  BY <1>1, <1>2, PTL DEF Spec

\* The variables have their types: no file has fewer than no streams, and no
\* Transaction waits for fewer than no replies (close, Transaction::replyReceived).
THEOREM TypeCorrect == Spec => []TypeOK
BY Invariance, PTL DEF IInv

\* A file has one stream while it is in _openedFiles and none when it is not.
THEOREM StreamsMatchTable == Spec => []OneStream
BY Invariance, PTL DEF IInv, TableInv

\* At every offset of a closed file is what was written there last, but for what a
\* failed flush, a failed write or putFile, or a putFile over an open stream has lost,
\* all of which the model has happen at any time (write, close, putFile).
THEOREM ClosedFilesComplete == Spec => []CompleteWhenClosed
<1>1. IInv => CompleteWhenClosed
  BY DEF IInv, TableInv, DataInv, Promise, Flushed, CompleteWhenClosed
<1> QED
  BY <1>1, Invariance, PTL

\* A dispatch returns, and its Transaction is destroyed, after the last of its replies.
THEOREM TransactionOutlivesCalls == Spec => []NoDanglingReply
<1>1. IInv => NoDanglingReply
  BY DEF IInv, ReplyInv, NoDanglingReply
<1> QED
  BY <1>1, Invariance, PTL

-----------------------------------------------------------------------------
(* dispatch implements Broadcast. *)

\* A step of a call that is not about a Transaction, or of nobody.
LEMMA OtherSeen ==
  ASSUME TypeOK, NEW c \in Calls, UNCHANGED <<unsent, pending>>,
         \A d \in Calls \ {c} : pc'[d] = pc[d],
         pc[c] \notin {"send", "wait", "done"}, pc'[c] \notin {"send", "wait"}
  PROVE  UNCHANGED Dispatched!vars \/ Dispatched!End(c)
<1>1. \A d \in Calls \ {c} : broadcastPhase(d)' = broadcastPhase(d)
  BY DEF broadcastPhase
<1>2. broadcastPhase(c) = "idle"
  BY DEF broadcastPhase
<1>3. CASE pc'[c] = "done"
  <2>1. broadcastPhase(c)' = "over"
    BY <1>3 DEF broadcastPhase
  <2> QED
    BY <1>1, <1>2, <2>1 DEF Dispatched!End, Dispatched!Goto
<1>4. CASE pc'[c] # "done"
  <2>1. broadcastPhase(c)' = "idle"
    BY <1>4 DEF broadcastPhase
  <2> QED
    BY <1>1, <1>2, <2>1 DEF Dispatched!vars
<1> QED
  BY <1>3, <1>4

LEMMA BeginSeen ==
  ASSUME IInv, NEW c \in Calls, Begin(c)
  PROVE  [Dispatched!Next]_(Dispatched!vars)
<1>1. ASSUME NEW servers \in SUBSET Recipients, dispatch(c, servers)
      PROVE  [Dispatched!Next]_(Dispatched!vars)
  <2>1. CASE pc' = [pc EXCEPT ![c] = "done"]
    <3>1. /\ UNCHANGED <<unsent, pending>> /\ pc[c] = "idle" /\ pc'[c] = "done"
          /\ \A d \in Calls \ {c} : pc'[d] = pc[d]
      BY <1>1, <2>1 DEF dispatch, Goto, IInv, TypeOK
    <3> QED
      BY <3>1, OtherSeen DEF Dispatched!Next, IInv
  <2>2. CASE pc' = [pc EXCEPT ![c] = "send"]
    <3>1. /\ unsent' = [unsent EXCEPT ![c] = servers] /\ UNCHANGED pending
          /\ pc[c] = "idle" /\ pc'[c] = "send"
          /\ \A d \in Calls \ {c} : pc'[d] = pc[d]
      BY <1>1, <2>2 DEF dispatch, Goto, IInv, TypeOK
    <3>2. /\ broadcastPhase(c) = "idle" /\ broadcastPhase(c)' = "open"
          /\ \A d \in Calls \ {c} : broadcastPhase(d)' = broadcastPhase(d)
      BY <3>1 DEF broadcastPhase
    <3>3. Dispatched!Begin(c, servers)
      BY <3>1, <3>2 DEF Dispatched!Begin, Dispatched!Goto
    <3> QED
      BY <3>3 DEF Dispatched!Next
  <2> QED
    BY <1>1, <2>1, <2>2 DEF dispatch, Goto
<1>2. CASE \/ \E f \in Files, k \in Chunks \cup {Bad} : Call(c, "write", f, k)
           \/ \E f \in Files : Call(c, "close", f, Bad)
           \/ \E f \in Files, d \in Data : putFile(c, f, [o \in Offsets |-> d])
  <2>1. /\ UNCHANGED <<unsent, pending>> /\ pc[c] = "idle"
        /\ pc'[c] \in {"write", "close", "done"}
        /\ \A d \in Calls \ {c} : pc'[d] = pc[d]
    BY <1>2 DEF Call, putFile, Goto, transaction, IInv, TypeOK
  <2> QED
    BY <2>1, OtherSeen DEF Dispatched!Next, IInv
<1> QED
  BY <1>1, <1>2 DEF Begin

LEMMA ContinueSeen ==
  ASSUME IInv, NEW c \in Calls, Continue(c)
  PROVE  [Dispatched!Next]_(Dispatched!vars)
<1>1. CASE \/ Lock(c) \/ Find(c) \/ Open(c) \/ OpenFailed(c) \/ WriteChunk(c)
           \/ WriteFailed(c) \/ CloseAgain(c) \/ Close(c)
  <2>1. /\ UNCHANGED <<unsent, pending>>
        /\ pc[c] \in {"write", "open", "fopen", "chunk", "fail", "close"}
        /\ pc'[c] \in {"open", "fopen", "chunk", "fail", "done"}
        /\ \A d \in Calls \ {c} : pc'[d] = pc[d]
    BY <1>1 DEF Lock, Find, Open, OpenFailed, WriteChunk, WriteFailed, CloseAgain, Close,
                Unlock, Leave, Goto, transaction, IInv, TypeOK
  <2> QED
    BY <2>1, OtherSeen DEF Dispatched!Next, IInv
<1>2. CASE Send(c)
  <2>1. PICK r \in unsent[c] : /\ unsent' = [unsent EXCEPT ![c] = @ \ {r}]
                               /\ pending' = [pending EXCEPT ![c] = @ \cup {r}]
                               /\ UNCHANGED pc
    BY <1>2 DEF Send
  <2>2. r \in Recipients
    BY DEF IInv, TypeOK
  <2>3. \A d \in Calls : broadcastPhase(d)' = broadcastPhase(d)
    BY <2>1 DEF broadcastPhase
  <2>4. Dispatched!Ask(c, r)
    BY <2>1, <2>3 DEF Dispatched!Ask
  <2> QED
    BY <2>2, <2>4 DEF Dispatched!Next
<1>3. CASE Wait(c)
  <2>1. /\ UNCHANGED <<unsent, pending>> /\ pc[c] = "send" /\ pc'[c] = "wait"
        /\ \A d \in Calls \ {c} : pc'[d] = pc[d]
    BY <1>3 DEF Wait, Goto, transaction, IInv, TypeOK
  <2>2. \A d \in Calls : broadcastPhase(d)' = broadcastPhase(d)
    BY <2>1 DEF broadcastPhase
  <2> QED
    BY <2>1, <2>2 DEF Dispatched!vars
<1>4. CASE Return(c)
  <2>1. /\ UNCHANGED <<unsent, pending>> /\ pc[c] = "wait" /\ pc'[c] = "done"
        /\ repliesLeft[c] = 0
        /\ \A d \in Calls \ {c} : pc'[d] = pc[d]
    BY <1>4 DEF Return, Goto, IInv, TypeOK
  <2>2. unsent[c] = {} /\ pending[c] = {}
    <3> DEFINE S == unsent[c] \cup pending[c]
    <3>1. S \in SUBSET Recipients
      BY DEF IInv, TypeOK
    <3>2. IsFiniteSet(S)
      BY <3>1, FilesAssumption, FS_Subset
    <3>3. Cardinality(S) = 0
      BY <2>1 DEF IInv, ReplyInv
    <3>4. S = {}
      BY <3>2, <3>3, FS_EmptySet
    <3> QED
      BY <3>4
  <2>3. /\ broadcastPhase(c) = "open" /\ broadcastPhase(c)' = "over"
        /\ \A d \in Calls \ {c} : broadcastPhase(d)' = broadcastPhase(d)
    BY <2>1 DEF broadcastPhase
  <2>4. Dispatched!Return(c)
    BY <2>1, <2>2, <2>3 DEF Dispatched!Return, Dispatched!Goto
  <2> QED
    BY <2>4 DEF Dispatched!Next
<1> QED
  BY <1>1, <1>2, <1>3, <1>4 DEF Continue

LEMMA ReplySeen ==
  ASSUME IInv, NEW c \in Calls, NEW r \in Recipients, replyReceived(c, r)
  PROVE  [Dispatched!Next]_(Dispatched!vars)
<1>1. /\ r \in pending[c] /\ pending' = [pending EXCEPT ![c] = @ \ {r}]
      /\ UNCHANGED <<pc, unsent>>
  BY DEF replyReceived
<1>2. \A d \in Calls : broadcastPhase(d)' = broadcastPhase(d)
  BY <1>1 DEF broadcastPhase
<1>3. Dispatched!Answer(c, r)
  BY <1>1, <1>2 DEF Dispatched!Answer
<1> QED
  BY <1>3 DEF Dispatched!Next

\* A dispatch sends to every recipient once and returns when each of them has answered
\* or failed and not before, in whatever order that happens: the count of the replies
\* that are left is right, and what a Transaction shows is a Broadcast
\* (FileServerImpl.cc, Transaction::run and replyReceived).
THEOREM ImplementsBroadcast == Spec => BroadcastSpec
<1>1. Init => Dispatched!Init
  <2> SUFFICES ASSUME Init
               PROVE  Dispatched!Init
    OBVIOUS
  <2>1. \A c \in Calls : broadcastPhase(c) = "idle"
    BY DEF Init, broadcastPhase
  <2> QED
    BY <2>1 DEF Init, Dispatched!Init
<1>2. IInv /\ [Next]_vars => [Dispatched!Next]_(Dispatched!vars)
  <2> SUFFICES ASSUME IInv, [Next]_vars
               PROVE  [Dispatched!Next]_(Dispatched!vars)
    OBVIOUS
  <2>1. CASE UNCHANGED vars
    <3>1. UNCHANGED <<pc, unsent, pending>>
      BY <2>1 DEF vars, transaction
    <3>2. \A d \in Calls : broadcastPhase(d)' = broadcastPhase(d)
      BY <3>1 DEF broadcastPhase
    <3> QED
      BY <3>1, <3>2 DEF Dispatched!vars
  <2> QED
    BY <2>1, BeginSeen, ContinueSeen, ReplySeen DEF Next
<1> QED
  BY <1>1, <1>2, Invariance, PTL DEF Spec, BroadcastSpec, Dispatched!Spec
=============================================================================
