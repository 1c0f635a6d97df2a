-------------------------- MODULE MCAvatarProcesses --------------------------
(***************************************************************************)
(* Instances of AvatarProcesses for TLC.                                   *)
(***************************************************************************)
EXTENDS AvatarProcesses, ImageCrop

CONSTANTS s1, w1, r1

Good == [user |-> TRUE, field |-> TRUE, size |-> 1, envelope |-> 2,
         image |-> TRUE, nameFits |-> TRUE]

\* One body for each way through the checks, some at the limits.
MCBodies ==
    {Good, [Good EXCEPT !.size = MaxFileSize],
     [Good EXCEPT !.size = MaxFileSize + 1], [Good EXCEPT !.field = FALSE],
     [Good EXCEPT !.user = FALSE], [Good EXCEPT !.image = FALSE],
     [Good EXCEPT !.nameFits = FALSE]}
-----------------------------------------------------------------------------
\* The theorem of ImageCrop on small images, wide, high and square, with corners
\* on either side of the origin.
ASSUME CropChecked ==
    \A x, y \in -1 .. 1, width, height \in 1 .. 6 :
        CropFits([x |-> x, y |-> y, width |-> width, height |-> height])
=============================================================================
