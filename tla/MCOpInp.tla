------------------------------- MODULE MCOpInp -------------------------------
(***************************************************************************)
(* Ints of four bits written in base 3: 7 is 21 and -8 is -22, a buffer of *)
(* two characters, so that a line may fill it with or without its Newline  *)
(* or be longer than it.                                                   *)
(***************************************************************************)
EXTENDS OpInp

MCLines == {<<>>, <<1>>, <<2, 1>>, <<2, 2>>, <<Minus, 1>>, <<Minus, 2, 2>>, <<Plus, 2>>,
            <<Blank, 1>>, <<Blank, Blank>>, <<Letter>>, <<1, Letter>>}
=============================================================================
