--------------------------- MODULE MCFlagCapture -----------------------------
(***************************************************************************)
(* FlagCapture on three flags in a row: each side's first and one in the   *)
(* middle that is nobody's. Nothing in FlagCapture tells the sides apart,  *)
(* so the course of a match and its mirror image, in which the sides have  *)
(* changed names, flags and players, need to be looked at once.            *)
(***************************************************************************)
EXTENDS FlagCapture, TLC

CONSTANTS first, last, al, ax

\* The two ways to name the sides: as they are, and the mirror image.
Mirror ==
    {p \in Permutations({first, last, al, ax, Allies, Axis}) :
        \/ \A x \in DOMAIN p : p[x] = x
        \/ /\ p[first] = last /\ p[last] = first
           /\ p[al] = ax /\ p[ax] = al
           /\ p[Allies] = Axis /\ p[Axis] = Allies}
=============================================================================
