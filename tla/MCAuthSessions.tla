--------------------------- MODULE MCAuthSessions ---------------------------
(* AuthSessions with two requests in flight on the account of ADMIN_EMAIL. *)
EXTENDS AuthSessions, TLC

CONSTANTS c1, c2, staff
MCCallers == {c1, c2}
MCEmails == {staff}
MCSymmetry == Permutations(MCCallers)
=============================================================================
