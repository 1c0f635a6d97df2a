------------------------ MODULE MCAvatarTransactions ------------------------
(***************************************************************************)
(* Instances of AvatarTransactions for TLC.                                *)
(***************************************************************************)
EXTENDS AvatarTransactions

CONSTANTS a1, a2, a3, u1, s1, s2

MCOwner == [a \in Avatars |-> u1]
=============================================================================
