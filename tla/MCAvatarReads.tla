---------------------------- MODULE MCAvatarReads ----------------------------
(***************************************************************************)
(* Instances of AvatarReads for TLC.                                       *)
(***************************************************************************)
EXTENDS AvatarReads, AvatarRefinement, TLC

CONSTANTS a1, a2, u1, w1, d1, d2, r1

\* One user uploads every avatar: the only interaction between avatars.
MCOwner == [a \in Avatars |-> u1]

\* The avatars of one user are alike, and so are the deletions.
MCSymmetry == Permutations(Avatars) \cup Permutations(Deleters)
=============================================================================
