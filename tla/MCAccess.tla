------------------------------ MODULE MCAccess ------------------------------
(***************************************************************************)
(* Access for TLC: a member with two subscriptions that share a resource,  *)
(* and a stranger.                                                         *)
(***************************************************************************)
EXTENDS Access, TLC

CONSTANTS member, stranger, basic, extra, channel, group

OwnerOf   == [s \in {basic, extra} |-> member]
PlanOf    == (basic :> {channel, group}) @@ (extra :> {channel})
SortOrder == <<channel, group>>
OwnsGroup == {<<member, group>>}

=============================================================================
