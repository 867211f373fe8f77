---------------------------- MODULE MCRevocation ----------------------------
EXTENDS Revocation, TLC

CONSTANTS alice, short, long

\* Two tokens of one user, of different lifetime and version.
Owner    == short :> alice @@ long :> alice
Expiries == short :> 2 @@ long :> 4
Versions == short :> 1 @@ long :> 2

============================================================================
