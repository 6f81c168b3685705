----------------------------- MODULE MCImageFile -----------------------------
(***************************************************************************)
(* Images for a machine of four cells, up to one cell too long, with words *)
(* of equal and of different bytes; versions whose bytes differ; up to     *)
(* three bytes behind the file.                                            *)
(***************************************************************************)
EXTENDS ImageFile, TLC

MCImages == UNION {[1 .. n -> {0, 257, 852}] : n \in 1 .. 5}
MCJunk   == UNION {[1 .. n -> {0, 84}] : n \in 1 .. 3}
=============================================================================
