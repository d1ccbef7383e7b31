------------------------ MODULE InputChecker_proofs ------------------------
(***************************************************************************)
(* What the scanner of sendCommand guarantees for commands of any length   *)
(* that hold no comments: it and Maxima's reader agree, character by       *)
(* character, on where strings, escapes and expressions begin and end.     *)
(***************************************************************************)
EXTENDS InputChecker, SequenceTheorems, TLAPS

States == {STATE_END, 0, 1, 2, 3}

\* What Maxima's reader is in when the scanner is in state s.
ModeOf(s) ==
  CASE s = 1 -> "escape"
    [] s = 2 -> "string"
    [] s = 3 -> "string escape"
    [] OTHER -> "code"

\* One character takes both to corresponding states, and an expression ends in
\* both or in neither.
LEMMA Agreement ==
  ASSUME NEW c \in {Terminator, Backslash, Quotemark, Blank, Letter},
         NEW s \in States \ {STATE_END}
  PROVE  /\ checkInputExpression(c, s) \in States
         /\ ModeOf(checkInputExpression(c, s)) = Lex(c, ModeOf(s))
         /\ checkInputExpression(c, s) = STATE_END
              <=> ModeOf(s) = "code" /\ c = Terminator
<1> USE DEF States, STATE_END, checkInputExpression, InputOf, ModeOf, Lex,
            Terminator, Backslash, Quotemark, Blank, Letter
<1>1. CASE s = 0
  <2>1. CASE c = Backslash
    BY <1>1, <2>1
  <2>2. CASE c = Quotemark
    BY <1>1, <2>2
  <2>3. CASE c = Terminator
    BY <1>1, <2>3
  <2>4. CASE c \in {Blank, Letter}
    BY <1>1, <2>4
  <2> QED
    BY <2>1, <2>2, <2>3, <2>4
<1>2. CASE s = 1
  BY <1>2
<1>3. CASE s = 2
  <2>1. CASE c = Backslash
    BY <1>3, <2>1
  <2>2. CASE c = Quotemark
    BY <1>3, <2>2
  <2>3. CASE c \in {Terminator, Blank, Letter}
    <3>1. checkInputExpression(c, s) = 2
      BY <1>3, <2>3
    <3>2. ModeOf(s) = "string" /\ Lex(c, "string") = "string"
      BY <1>3, <2>3
    <3> QED
      BY <1>3, <3>1, <3>2
  <2> QED
    BY <2>1, <2>2, <2>3
<1>4. CASE s = 3
  BY <1>4
<1> QED
  BY <1>1, <1>2, <1>3, <1>4

-----------------------------------------------------------------------------
(* The inductive invariant. *)

Scanning == phase \in {"scanning", "written"}

\* The states are those of a run of the scanner, which stops at STATE_END.
StatesInv ==
  /\ states \in Seq(States) /\ states # <<>> /\ states[1] = 0
  /\ scanned <= Len(command)
  /\ \A i \in 1..scanned :
       /\ states[i] # STATE_END
       /\ states[i + 1] = checkInputExpression(command[i], states[i])
  /\ states[Len(states)] = STATE_END => scanned = Len(command)

\* Before anything is written Maxima has read nothing.
UnreadInv ==
  pipe = <<>> /\ read = 0 /\ lexer = "code" /\ expressions = 0

\* Maxima's reader is where the scanner was at the same character.
ReadInv ==
  LET last == states[Len(states)] IN
  /\ scanned = Len(command)
  /\ pipe = IF last = STATE_END THEN command ELSE Append(command, Terminator)
  /\ read \in 0..Len(pipe)
  /\ read <= Len(command) =>
       /\ lexer = ModeOf(states[read + 1])
       /\ expressions = IF states[read + 1] = STATE_END THEN 1 ELSE 0
  /\ read > Len(command) =>
       expressions = IF ModeOf(last) = "code" THEN 1 ELSE 0

CheckerInv ==
  /\ command \in Seq(Chars)
  /\ phase \in {"called", "scanning", "rejected", "written"}
  /\ depth = 0
  /\ phase = "called" => states = <<0>>
  /\ Scanning => StatesInv
  /\ phase # "written" => UnreadInv
  /\ phase = "written" => ReadInv

\* Appending to a sequence, element by element.
LEMMA Extend ==
  ASSUME NEW S, NEW s \in Seq(S), NEW e \in S
  PROVE  /\ Append(s, e) \in Seq(S)
         /\ Append(s, e) # <<>>
         /\ Len(s) \in Nat
         /\ Len(Append(s, e)) = Len(s) + 1
         /\ \A i \in 1..Len(s) : Append(s, e)[i] = s[i]
         /\ Append(s, e)[Len(s) + 1] = e
BY AppendProperties, LenProperties

\* An element of a sequence.
LEMMA Element ==
  ASSUME NEW S, NEW s \in Seq(S)
  PROVE  /\ Len(s) \in Nat
         /\ \A i \in 1..Len(s) : s[i] \in S
BY LenProperties, ElementOfSeq

LEMMA NoComments ==
  ASSUME ~Comments
  PROVE  Chars = {Terminator, Backslash, Quotemark, Blank, Letter}
BY DEF Chars

LEMMA CheckerInit == Init => CheckerInv
<1> SUFFICES ASSUME Init
             PROVE  CheckerInv
  OBVIOUS
<1>1. command \in Seq(Chars)
  <2>1. PICK n \in 0..MaxLength : command \in [1..n -> Chars]
    BY DEF Init, Texts
  <2>2. n \in Nat
    BY CheckerAssumption DEF CheckerAssumption
  <2> QED
    BY <2>1, <2>2, SeqDef
<1> QED
  BY <1>1 DEF Init, CheckerInv, UnreadInv, Scanning

LEMMA TrimStep ==
  ASSUME CheckerInv, TrimCommand
  PROVE  CheckerInv'
<1>1. command' \in Seq(Chars)
  <2>1. PICK first \in 1..(Len(command) + 1), last \in 0..Len(command) :
          /\ first <= last \/ first = last + 1
          /\ command' = SubSeq(command, first, last)
    BY DEF TrimCommand
  <2>2. Len(command) \in Nat
    BY Element DEF CheckerInv
  <2>3. \A i \in first..last : i \in 1..Len(command)
    BY <2>1, <2>2
  <2> QED
    BY <2>1, <2>2, <2>3, SubSeqProperties DEF CheckerInv
<1>2. states' = <<0>> /\ phase' = "scanning" /\ phase = "called"
  BY DEF TrimCommand, CheckerInv
<1>3. /\ states' \in Seq(States) /\ states' # <<>> /\ Len(states') = 1
      /\ states'[1] = 0 /\ states'[Len(states')] = 0
  BY <1>2 DEF States
<1>4. Len(command') \in Nat
  BY <1>1, Element
<1>5. StatesInv'
  BY <1>3, <1>4 DEF StatesInv, scanned, STATE_END
<1> QED
  BY <1>1, <1>2, <1>5 DEF TrimCommand, CheckerInv, UnreadInv

LEMMA ScanStep ==
  ASSUME ~Comments, CheckerInv, Scan
  PROVE  CheckerInv'
<1> DEFINE n == Len(states)
           s == checkInputExpression(command[n], states[n])
<1>1. /\ StatesInv /\ phase = "scanning" /\ UnreadInv
      /\ command \in Seq(Chars) /\ states \in Seq(States) /\ depth = 0
  BY DEF Scan, CheckerInv, Scanning, StatesInv
<1>2. /\ n \in Nat /\ n >= 1 /\ Len(command) \in Nat
      /\ n \in 1..Len(command) /\ command[n] \in Chars /\ states[n] \in States
  <2>1. n \in Nat /\ n # 0
    BY <1>1, EmptySeq, LenProperties DEF StatesInv
  <2>2. Len(command) \in Nat /\ n - 1 < Len(command)
    BY <1>1, Element DEF Scan, scanned
  <2> QED
    BY <1>1, <2>1, <2>2, Element
<1>3. states[n] # STATE_END
  BY <1>1, <1>2 DEF StatesInv, scanned
<1>4. s \in States
  BY <1>2, <1>3, NoComments, Agreement
<1>5. /\ states' = Append(states, s)
      /\ UNCHANGED <<command, pipe, read, lexer, depth, expressions>>
      /\ phase' = IF s = STATE_END /\ n # Len(command) THEN "rejected" ELSE "scanning"
  BY <1>2 DEF Scan, scanned
<1>6. /\ states' \in Seq(States) /\ states' # <<>> /\ Len(states') = n + 1
      /\ \A i \in 1..n : states'[i] = states[i]
      /\ states'[n + 1] = s
  BY <1>1, <1>4, <1>5, Extend
<1>7. ASSUME phase' = "scanning"
      PROVE  StatesInv'
  <2>1. scanned' = n /\ n <= Len(command')
    BY <1>2, <1>5, <1>6 DEF scanned
  <2>2. states'[1] = 0
    BY <1>1, <1>2, <1>6 DEF StatesInv
  <2>3. ASSUME NEW i \in 1..n
        PROVE  /\ states'[i] # STATE_END
               /\ states'[i + 1] = checkInputExpression(command'[i], states'[i])
    <3>1. CASE i = n
      BY <1>2, <1>3, <1>5, <1>6, <3>1
    <3>2. CASE i # n
      <4>1. i \in 1..scanned /\ i + 1 \in 1..n
        BY <1>2, <3>2 DEF scanned
      <4> QED
        BY <1>1, <1>5, <1>6, <4>1 DEF StatesInv
    <3> QED
      BY <3>1, <3>2
  <2>4. states'[Len(states')] = STATE_END => scanned' = Len(command')
    BY <1>5, <1>6, <1>7, <2>1
  <2> QED
    BY <1>6, <2>1, <2>2, <2>3, <2>4 DEF StatesInv
<1>8. phase' \in {"scanning", "rejected"} /\ UnreadInv'
  BY <1>1, <1>5 DEF UnreadInv
<1> QED
  BY <1>1, <1>5, <1>7, <1>8 DEF CheckerInv, Scanning

LEMMA WriteStep ==
  ASSUME CheckerInv, Write
  PROVE  CheckerInv'
<1>1. /\ StatesInv /\ UnreadInv /\ scanned = Len(command) /\ depth = 0
      /\ UNCHANGED <<command, states, read, lexer, depth, expressions>>
      /\ phase' = "written"
      /\ pipe' = IF states[Len(states)] = STATE_END
                   THEN command ELSE Append(command, Terminator)
  BY DEF Write, CheckerInv, Scanning
<1>2. StatesInv'
  BY <1>1 DEF StatesInv, scanned
<1>3. /\ read' = 0 /\ Len(command) \in Nat /\ Len(pipe') \in Nat
      /\ states'[1] = 0
  <2>1. Terminator \in Chars /\ command \in Seq(Chars)
    BY DEF Chars, CheckerInv
  <2>2. pipe' \in Seq(Chars)
    BY <1>1, <2>1, Extend
  <2> QED
    BY <1>1, <2>1, <2>2, Element DEF StatesInv, UnreadInv
<1>4. lexer' = ModeOf(0) /\ expressions' = 0 /\ 0 # STATE_END
  BY <1>1 DEF UnreadInv, ModeOf, STATE_END
<1>5. ReadInv'
  BY <1>1, <1>3, <1>4 DEF ReadInv, scanned
<1> QED
  BY <1>1, <1>2, <1>5 DEF CheckerInv

LEMMA ReadStep ==
  ASSUME ~Comments, CheckerInv, ReadCharacter
  PROVE  CheckerInv'
<1> DEFINE c == pipe[read + 1]
           last == states[Len(states)]
<1>1. /\ StatesInv /\ ReadInv /\ depth = 0 /\ phase = "written" /\ read < Len(pipe)
      /\ UNCHANGED <<command, phase, states, pipe>> /\ read' = read + 1
      /\ command \in Seq(Chars) /\ states \in Seq(States)
  BY DEF ReadCharacter, CheckerInv, Scanning, StatesInv
<1>2. /\ Len(command) \in Nat /\ Len(states) = Len(command) + 1 /\ read \in Nat
      /\ last \in States
  BY <1>1, Element DEF ReadInv, scanned
<1>3. Terminator \in Chars /\ pipe \in Seq(Chars) /\ Len(pipe) \in Nat /\ c \in Chars
  <2>1. Terminator \in Chars
    BY DEF Chars
  <2>2. pipe \in Seq(Chars)
    BY <1>1, <2>1, Extend DEF ReadInv
  <2> QED
    BY <1>1, <1>2, <2>1, <2>2, Element
<1>4. /\ depth' = 0
      /\ lexer' = Lex(c, lexer)
      /\ expressions' = IF lexer = "code" /\ c = Terminator
                          THEN expressions + 1 ELSE expressions
  <2>1. c # Comment
    BY <1>3, NoComments DEF Comment, Terminator, Backslash, Quotemark, Blank, Letter
  <2> QED
    BY <1>1, <2>1 DEF ReadCharacter
<1>5. CASE read < Len(command)
  <2> DEFINE i == read + 1
  <2>1. i \in 1..Len(command) /\ i \in 1..scanned /\ i \in 1..Len(states)
    BY <1>2, <1>5 DEF scanned
  <2>2. c = command[i]
    BY <1>1, <1>3, <2>1, Extend DEF ReadInv
  <2>3. /\ states[i] # STATE_END /\ states[i] \in States
        /\ states[i + 1] = checkInputExpression(c, states[i])
    BY <1>1, <2>1, <2>2, Element DEF StatesInv
  <2>4. lexer = ModeOf(states[i]) /\ expressions = 0
    BY <1>1, <2>1, <2>3 DEF ReadInv
  <2>5. /\ lexer' = ModeOf(states[i + 1])
        /\ expressions' = IF states[i + 1] = STATE_END THEN 1 ELSE 0
    BY <1>3, <1>4, <2>3, <2>4, NoComments, Agreement
  <2>6. read' = i /\ read' <= Len(command') /\ read' \in 0..Len(pipe')
    BY <1>1, <1>2, <1>3, <2>1
  <2>7. ReadInv'
    BY <1>1, <1>2, <2>5, <2>6 DEF ReadInv, scanned
  <2> QED
    BY <1>1, <1>4, <2>7 DEF CheckerInv, Scanning, StatesInv, scanned
<1>6. CASE read >= Len(command)
  <2>1. /\ last # STATE_END /\ read = Len(command) /\ c = Terminator
        /\ Len(pipe) = Len(command) + 1
    BY <1>1, <1>2, <1>3, <1>6, Extend DEF ReadInv
  <2>2. lexer = ModeOf(last) /\ expressions = 0
    BY <1>1, <1>2, <2>1 DEF ReadInv
  <2>3. expressions' = IF ModeOf(last) = "code" THEN 1 ELSE 0
    BY <1>4, <2>1, <2>2
  <2>4. read' > Len(command') /\ read' \in 0..Len(pipe') /\ ~(read' <= Len(command'))
    BY <1>1, <1>2, <2>1
  <2>5. ReadInv'
    BY <1>1, <2>3, <2>4 DEF ReadInv, scanned
  <2> QED
    BY <1>1, <1>4, <2>5 DEF CheckerInv, Scanning, StatesInv, scanned
<1> QED
  BY <1>2, <1>5, <1>6

LEMMA CheckerStep ==
  ASSUME ~Comments, CheckerInv, [Next]_vars
  PROVE  CheckerInv'
<1>1. CASE UNCHANGED vars
  BY <1>1 DEF vars, CheckerInv, Scanning, StatesInv, UnreadInv, ReadInv, scanned
<1> QED
  BY <1>1, TrimStep, ScanStep, WriteStep, ReadStep DEF Next

LEMMA CheckerCorrect == ASSUME ~Comments PROVE Spec => []CheckerInv
BY CheckerInit, CheckerStep, PTL DEF Spec

-----------------------------------------------------------------------------
\* Whatever its length, a command without comments that sendCommand writes holds
\* at most one expression, with nothing behind it.
THEOREM AtMostOneExpression == ASSUME ~Comments PROVE Spec => []OneExpression
<1>1. CheckerInv => OneExpression
  <2> SUFFICES ASSUME CheckerInv, expressions > 0
               PROVE  expressions = 1 /\ read = Len(pipe)
    BY DEF OneExpression
  <2>1. StatesInv /\ ReadInv /\ command \in Seq(Chars)
    BY DEF CheckerInv, UnreadInv, Scanning
  <2>2. Len(command) \in Nat /\ Len(states) = Len(command) + 1 /\ Terminator \in Chars
    BY <2>1, Element DEF ReadInv, StatesInv, scanned, Chars
  <2>3. CASE read <= Len(command)
    <3>1. states[read + 1] = STATE_END /\ expressions = 1
      BY <2>1, <2>3 DEF ReadInv
    <3>2. read + 1 = Len(states)
      BY <2>1, <2>2, <2>3, <3>1 DEF ReadInv, StatesInv, scanned
    <3> QED
      BY <2>1, <2>2, <3>1, <3>2 DEF ReadInv
  <2>4. CASE read > Len(command)
    BY <2>1, <2>2, <2>4, Extend DEF ReadInv
  <2> QED
    BY <2>1, <2>2, <2>3, <2>4 DEF ReadInv
<1> QED
  BY <1>1, CheckerCorrect, PTL

\* And it holds exactly one unless it ends inside a string or behind a backslash.
THEOREM ClosedCommandsComplete ==
  ASSUME ~Comments PROVE Spec => []ClosedCommandIsComplete
<1>1. CheckerInv => ClosedCommandIsComplete
  <2> SUFFICES ASSUME CheckerInv, AllRead, states[Len(states)] \in {STATE_END, 0}
               PROVE  expressions = 1
    BY DEF ClosedCommandIsComplete
  <2>1. ReadInv /\ StatesInv /\ command \in Seq(Chars) /\ read = Len(pipe)
    BY DEF CheckerInv, AllRead, Scanning
  <2>2. Len(command) \in Nat /\ Len(states) = Len(command) + 1 /\ Terminator \in Chars
    BY <2>1, Element DEF ReadInv, StatesInv, scanned, Chars
  <2>3. CASE states[Len(states)] = STATE_END
    BY <2>1, <2>2, <2>3 DEF ReadInv
  <2>4. CASE states[Len(states)] = 0
    <3>1. states[Len(states)] # STATE_END /\ ModeOf(states[Len(states)]) = "code"
      BY <2>4 DEF STATE_END, ModeOf
    <3> QED
      BY <2>1, <2>2, <3>1, Extend DEF ReadInv
  <2> QED
    BY <2>3, <2>4
<1> QED
  BY <1>1, CheckerCorrect, PTL
=============================================================================
