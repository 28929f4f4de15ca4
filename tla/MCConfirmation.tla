--------------------------- MODULE MCConfirmation ---------------------------
(* Two browsers and one operation, whose phone has a route of its own.     *)
EXTENDS Confirmation

CONSTANTS b1, b2

MCPhone(o) == <<3, 7, 1>>
MCDestinations == << [prefix |-> <<3>>, provider |-> "near"], [prefix |-> <<3, 7>>, provider |-> "nearer"] >>
Symmetry == Permutations(Requesters)
=============================================================================
