---------------------------- MODULE MCMaximaFactory ----------------------------
(***************************************************************************)
(* MaximaFactory for TLC: users that are known by their own names.         *)
(***************************************************************************)
EXTENDS MaximaFactory

OwnName == [u \in Users |-> u]
OwnKey(user, id) == <<user, id>>
=============================================================================
