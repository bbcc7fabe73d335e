---------------------------- MODULE MCAccessList ----------------------------
(***************************************************************************)
(* The MAC lists with two clients that are alike; an administrator posts   *)
(* the list of both.                                                       *)
(***************************************************************************)
EXTENDS AccessList, TLC

CONSTANTS m1, m2

MCMac == {m1, m2}
MCLists == {MCMac}
MCOne == {{m1}}

Symmetry == Permutations(Request) \cup Permutations(Mac)
=============================================================================
