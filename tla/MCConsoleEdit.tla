---------------------------- MODULE MCConsoleEdit ----------------------------
(* Two bookings and two calls under way at once: two bookings viewed one      *)
(* after the other, a save or a deletion with a load, two saves of one form.  *)
EXTENDS ConsoleEdit, TLC

CONSTANTS b1, b2, s1, s2

MCIds == {b1, b2}
MCSlots == {s1, s2}
MCSymmetry == Permutations(MCSlots) \union Permutations(MCIds)
=============================================================================
