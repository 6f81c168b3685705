------------------------------ MODULE MCKvDict ------------------------------
(***************************************************************************)
(* A table of two cells that grows to four and then to eight, and labels   *)
(* whose homes collide, differ, or change when the NUL is left out.  Stray *)
(* pointers lead to one of them or to none.                                *)
(***************************************************************************)
EXTENDS KvDict, Functions, TLC

CONSTANTS a, b, c, d

MCFnv1a == Restrict((a :> 1) @@ (b :> 3) @@ (c :> 2) @@ (d :> 5), Labels)

MCValuesFor == Restrict((a :> {1, 2}) @@ (b :> {3}) @@ (c :> {4}) @@ (d :> {5}), Labels)
=============================================================================
