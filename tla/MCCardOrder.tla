----------------------------- MODULE MCCardOrder -----------------------------
EXTENDS CardOrder, TLC
\* Four letters, 0 A B a: as in the alphabet of 62 the middle one is upper-case
\* and the lower-case ones come after it.
MCLetter == 0 :> 0 @@ 1 :> 1 @@ 2 :> 2 @@ 3 :> 1
MCSymmetry == Permutations(Lists) \cup Permutations(Requests) \cup Permutations(Cards)
                \cup Permutations(Clients)
=============================================================================
