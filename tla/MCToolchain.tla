----------------------------- MODULE MCToolchain -----------------------------
(***************************************************************************)
(* Three assemblers, one of them with -k, and two machines; at first there *)
(* is no file, or one that is no image: longer than one, as long as the    *)
(* magic string, or shorter.                                               *)
(***************************************************************************)
EXTENDS Toolchain, TLC

CONSTANTS a1, a2, a3, m1, m2

MCOldFiles == {Absent, [i \in 1 .. Whole + 2 |-> Other], <<Other, Other>>, <<Other>>}

Symmetry == Permutations(Assemblers \ NoOverwrite) \cup Permutations(Machines)
=============================================================================
