----------------------------- MODULE MCPhotoStudio -----------------------------
(***************************************************************************)
(* PhotoStudio on small instances.                                         *)
(***************************************************************************)
EXTENDS StudioClaims, TLC

CONSTANTS t1, t2, w1, w2, a1, a2, a3

\* Neither the slots nor the workers have an identity.  (Sound for safety only:
\* no run with a liveness property uses it.)
SlotSymmetry == Permutations(Attempts) \union Permutations(Workers)
================================================================================
