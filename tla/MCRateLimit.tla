---------------------------- MODULE MCRateLimit ----------------------------
EXTENDS RateLimit, TLC

CONSTANTS tight, loose

Limits == tight :> 1 @@ loose :> 2

Symm == Permutations(Workers)

============================================================================
