------------------------------ MODULE MCImages ------------------------------
EXTENDS Images, TLC

CONSTANTS a1, a2, u1, u2

\* Two articles share an image's address, and one has another before it.
MCUses == a1 :> <<u1, u2>> @@ a2 :> <<u2>>

Contents == Permutations(Image)
=============================================================================
