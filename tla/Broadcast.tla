------------------------------ MODULE Broadcast ------------------------------
(***************************************************************************)
(* What dispatch promises: each of the servers is asked once, by calls     *)
(* that go on at the same time, and the broadcast is over when all have    *)
(* answered and not before.                                                *)
(***************************************************************************)
CONSTANTS
  Calls,      \* the calls, each a broadcast or something else
  Recipients  \* the servers

VARIABLES
  phase,    \* "idle", "open" or "over"
  unasked,  \* the servers a broadcast has still to ask
  asked     \* the servers that have to answer

vars == <<phase, unasked, asked>>

Init ==
  /\ phase = [c \in Calls |-> "idle"]
  /\ unasked = [c \in Calls |-> {}]
  /\ asked = [c \in Calls |-> {}]

Goto(c, from, to) == phase[c] = from /\ phase' = [phase EXCEPT ![c] = to]

Begin(c, servers) ==
  /\ Goto(c, "idle", "open")
  /\ unasked' = [unasked EXCEPT ![c] = servers]
  /\ UNCHANGED asked

\* A call that is no broadcast, or has nothing to send.
End(c) == Goto(c, "idle", "over") /\ UNCHANGED <<unasked, asked>>

Ask(c, r) ==
  /\ r \in unasked[c]
  /\ unasked' = [unasked EXCEPT ![c] = @ \ {r}]
  /\ asked' = [asked EXCEPT ![c] = @ \cup {r}]
  /\ UNCHANGED phase

Answer(c, r) ==
  /\ r \in asked[c]
  /\ asked' = [asked EXCEPT ![c] = @ \ {r}]
  /\ UNCHANGED <<phase, unasked>>

Return(c) ==
  /\ unasked[c] = {} /\ asked[c] = {}
  /\ Goto(c, "open", "over")
  /\ UNCHANGED <<unasked, asked>>

Next ==
  \E c \in Calls :
    \/ \E servers \in SUBSET Recipients : Begin(c, servers)
    \/ \E r \in Recipients : Ask(c, r) \/ Answer(c, r)
    \/ End(c) \/ Return(c)

Spec == Init /\ [][Next]_vars
=============================================================================
