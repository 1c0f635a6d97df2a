-------------------------- MODULE MCAvatarPipeline --------------------------
(***************************************************************************)
(* Instances of AvatarPipeline for TLC.                                    *)
(***************************************************************************)
EXTENDS AvatarInvariant, AvatarRefinement, TLC

CONSTANTS a1, a2, u1, w1, w2, d1

\* One user uploads every avatar: the only interaction between avatars.
MCOwner == [a \in Avatars |-> u1]

\* Two worker processes start alike and are never compared.
MCWorkerSymmetry == Permutations(Workers)
=============================================================================
