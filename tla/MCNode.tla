------------------------------- MODULE MCNode -------------------------------
(***************************************************************************)
(* Node for TLC: the services, named in the order in which they start, and *)
(* the users, each a name and a password.                                  *)
(***************************************************************************)
EXTENDS Node

CONSTANTS First, Second, First_client, Second_client

FirstThenSecond == <<First, Second>>

\* A user gives a name and no password; another has a certificate with the same name.
NoPassword == [client |-> Second_client, password |-> "", certified |-> FALSE]
Certificate == [client |-> Second_client, password |-> "", certified |-> TRUE]

TwoUsers == {NoPassword, Certificate}
OneCertified == {Certificate}
ClientOf == [u \in Users |-> u.client]
KeyOf(user, id) == <<user.client, user.password, id>>

\* Servants are added for one of the clients.
ListsOfOne == {{client} : client \in Clients}
=============================================================================
