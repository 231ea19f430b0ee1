------------------------ MODULE MCRateLimitedFunction ------------------------
(* Two resource keys, interchangeable.                                     *)
EXTENDS RateLimitedFunction, TLC

CONSTANTS k1, k2

MCKeys == {k1, k2}

KeySymmetry == Permutations(MCKeys)

=============================================================================
