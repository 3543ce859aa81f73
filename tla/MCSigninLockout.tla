--------------------------- MODULE MCSigninLockout ---------------------------
(* SigninLockout with three callers on two keys.                             *)
EXTENDS SigninLockout

CONSTANTS c1, c2, c3, k1, k2
MCCallers == {c1, c2, c3}
MCKeys == {k1, k2}
=============================================================================
