------------------------------- MODULE MCWorker -------------------------------
(***************************************************************************)
(* Worker for TLC: every subscription belongs to the first member.         *)
(***************************************************************************)
EXTENDS Worker, TLC

CONSTANTS member, stranger

OneMember == {member}
TwoUsers == {member, stranger}
OwnedByMember == [s \in Subs |-> member]

=============================================================================
