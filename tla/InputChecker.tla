---------------------------- MODULE InputChecker ----------------------------
(***************************************************************************)
(* MaximaInstance::sendCommand: the text of a command is trimmed, scanned  *)
(* by checkInputExpression, refused or completed with ";", and written.    *)
(* Maxima's reader then takes expressions from the pipe, each up to a ";"  *)
(* or "$" that it does not find inside a string, a comment or behind a     *)
(* backslash.  A client that has sent a command waits for one prompt: text *)
(* with no complete expression leaves it waiting, text with two leaves a   *)
(* reply over.                                                             *)
(***************************************************************************)
EXTENDS Integers, Sequences

CONSTANTS
  MaxLength,   \* bound on the length of a command
  Comments     \* whether commands may hold comments

ASSUME CheckerAssumption == MaxLength \in Nat /\ Comments \in BOOLEAN

\* What the scanner and Maxima's reader tell apart: ";" and "$", "\", a quotation
\* mark, white space, "/*", "*/", and the rest.
Terminator == "terminator"
Backslash == "backslash"
Quotemark == "quotemark"
Blank == "blank"
Letter == "letter"
Comment == "comment"
EndComment == "endcomment"

Chars ==
  {Terminator, Backslash, Quotemark, Blank, Letter}
    \cup (IF Comments THEN {Comment, EndComment} ELSE {})

Texts == UNION {[1..n -> Chars] : n \in 0..MaxLength}

VARIABLES
  command,      \* the text of the command
  phase,        \* "called", "scanning", "rejected" or "written"
  states,       \* the values of sendCommand's variable state, first to last
  pipe,         \* the text written to Maxima
  read,         \* how much of it Maxima has read
  lexer,        \* what Maxima's reader is in
  depth,        \* how many comments it is in
  expressions   \* the complete expressions it has found

vars == <<command, phase, states, pipe, read, lexer, depth, expressions>>

-----------------------------------------------------------------------------
STATE_END == -1

InputOf(c) ==
  CASE c = Terminator -> "IN_TERMINATOR"
    [] c = Backslash -> "IN_BACKSLASH"
    [] c = Quotemark -> "IN_QUOTEMARK"
    [] OTHER -> "IN_OTHER"

\* Mutant of checkInputExpression: state 3 is not left.
checkInputExpressionStuck(c, state) ==
  CASE state = 0 -> (CASE InputOf(c) = "IN_BACKSLASH" -> 1
                       [] InputOf(c) = "IN_TERMINATOR" -> STATE_END
                       [] InputOf(c) = "IN_QUOTEMARK" -> 2
                       [] OTHER -> 0)
    [] state = 1 -> 0
    [] state = 2 -> (CASE InputOf(c) = "IN_BACKSLASH" -> 3
                       [] InputOf(c) = "IN_QUOTEMARK" -> 0
                       [] OTHER -> 2)
    [] OTHER -> state

\* Mutant of checkInputExpression: a backslash outside a string is not one.
checkInputExpressionNoEscape(c, state) ==
  CASE state = 0 -> (CASE InputOf(c) = "IN_TERMINATOR" -> STATE_END
                       [] InputOf(c) = "IN_QUOTEMARK" -> 2
                       [] OTHER -> 0)
    [] state = 2 -> (CASE InputOf(c) = "IN_BACKSLASH" -> 3
                       [] InputOf(c) = "IN_QUOTEMARK" -> 0
                       [] OTHER -> 2)
    [] state = 3 -> 2
    [] OTHER -> state

\* State 0 is outside of strings, 2 inside of one, 1 and 3 behind a backslash.
checkInputExpression(c, state) ==
  CASE state = 0 -> (CASE InputOf(c) = "IN_BACKSLASH" -> 1
                       [] InputOf(c) = "IN_TERMINATOR" -> STATE_END
                       [] InputOf(c) = "IN_QUOTEMARK" -> 2
                       [] OTHER -> 0)
    [] state = 1 -> 0
    [] state = 2 -> (CASE InputOf(c) = "IN_BACKSLASH" -> 3
                       [] InputOf(c) = "IN_QUOTEMARK" -> 0
                       [] OTHER -> 2)
    [] state = 3 -> 2
    [] OTHER -> state

-----------------------------------------------------------------------------
Init ==
  /\ command \in Texts
  /\ phase = "called"
  /\ states = <<0>>
  /\ pipe = <<>>
  /\ read = 0
  /\ lexer = "code"
  /\ depth = 0
  /\ expressions = 0

\* boost::algorithm::trim: what is left begins and ends with a solid character.
TrimCommand ==
  /\ phase = "called"
  /\ \E first \in 1..(Len(command) + 1), last \in 0..Len(command) :
       /\ \A i \in 1..Len(command) : i < first \/ i > last => command[i] = Blank
       /\ IF first <= last
            THEN command[first] # Blank /\ command[last] # Blank
            ELSE first = last + 1
       /\ command' = SubSeq(command, first, last)
  /\ phase' = "scanning"
  /\ UNCHANGED <<states, pipe, read, lexer, depth, expressions>>

\* The number of characters scanned.
scanned == Len(states) - 1

\* One turn of the loop; it throws when text follows a terminator.
Scan ==
  LET state == checkInputExpression(command[scanned + 1], states[Len(states)])
  IN  /\ phase = "scanning"
      /\ scanned < Len(command)
      /\ states' = Append(states, state)
      /\ phase' = IF state = STATE_END /\ scanned + 1 # Len(command)
                    THEN "rejected"
                    ELSE "scanning"
      /\ UNCHANGED <<command, pipe, read, lexer, depth, expressions>>

\* After the loop: ";" is added to a command that has not come to its end.
Write ==
  /\ phase = "scanning"
  /\ scanned = Len(command)
  /\ pipe' = IF states[Len(states)] = STATE_END
               THEN command
               ELSE Append(command, Terminator)
  /\ phase' = "written"
  /\ UNCHANGED <<command, states, read, lexer, depth, expressions>>

-----------------------------------------------------------------------------
(* Maxima's reader. *)

\* The reader in mode m, outside of comments, after character c.
Lex(c, m) ==
  CASE m = "code" /\ c = Backslash -> "escape"
    [] m = "code" /\ c = Quotemark -> "string"
    [] m = "string" /\ c = Backslash -> "string escape"
    [] m = "string" /\ c = Quotemark -> "code"
    [] m = "escape" -> "code"
    [] m = "string escape" -> "string"
    [] OTHER -> m

\* Comments nest, and neither strings nor escapes do anything in them.
ReadCharacter ==
  LET c == pipe[read + 1]
  IN  /\ phase = "written"
      /\ read < Len(pipe)
      /\ read' = read + 1
      /\ IF depth > 0 \/ (lexer = "code" /\ c = Comment)
           THEN /\ depth' = CASE c = Comment -> depth + 1
                              [] c = EndComment -> depth - 1
                              [] OTHER -> depth
                /\ UNCHANGED <<lexer, expressions>>
           ELSE /\ lexer' = Lex(c, lexer)
                /\ expressions' = IF lexer = "code" /\ c = Terminator
                                    THEN expressions + 1
                                    ELSE expressions
                /\ UNCHANGED depth
      /\ UNCHANGED <<command, phase, states, pipe>>

Next == TrimCommand \/ Scan \/ Write \/ ReadCharacter

Spec == Init /\ [][Next]_vars

-----------------------------------------------------------------------------
(* Properties. *)

TypeOK ==
  /\ command \in Seq(Chars)
  /\ phase \in {"called", "scanning", "rejected", "written"}
  /\ states \in Seq({STATE_END, 0, 1, 2, 3})
  /\ states # <<>>
  /\ pipe \in Seq(Chars)
  /\ read \in Nat
  /\ lexer \in {"code", "escape", "string", "string escape"}
  /\ depth \in Nat
  /\ expressions \in Nat

AllRead == phase = "written" /\ read = Len(pipe)

\* Maxima finds at most one expression in what sendCommand writes, and nothing
\* after it ("only one ;|$ terminated expression at a time is allowed",
\* MaximaInstance.cc).
OneExpression ==
  expressions > 0 => expressions = 1 /\ read = Len(pipe)

\* A command whose scan ends outside of strings and escapes, or at its terminator,
\* is one that Maxima can read to the end.
ClosedCommandIsComplete ==
  AllRead /\ states[Len(states)] \in {STATE_END, 0} => expressions = 1

\* What checkInputExpression is for: an accepted command does not hang the
\* MaximaInstance, because Maxima finds an expression in it
\* (MaximaInstance.h, checkInputExpression).
AcceptedDoesNotHang ==
  AllRead => expressions > 0
=============================================================================
