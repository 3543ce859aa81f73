----------------------------- MODULE MCBookings -----------------------------
(* Small instances of Bookings: two bookings; two requests and two references *)
(* for the safety properties; for the liveness properties one request, and    *)
(* one reference, so that a generated one may find every reference taken.     *)
EXTENDS Bookings, TLC

CONSTANTS r1, r2, b1, b2, n1, n2

MCRequests == {r1, r2}
MCOneRequest == {r1}
MCIds == {b1, b2}
MCRefs == {n1, n2}
MCOneRef == {n1}

\* WhatsApp configured for the safety properties, in every process or not for liveness.
MCConfigured == {TRUE}
MCAnyEnvironment == BOOLEAN

\* Clearing the column is what can undo its stamp; liveness takes any date.
MCNull == {"null"}
MCNullOrDate == {"null", "date"}

\* Used by the safety run only: no symmetry where liveness is checked.
MCSymmetry == Permutations(MCRequests) \union Permutations(MCIds) \union Permutations(MCRefs)
=============================================================================
