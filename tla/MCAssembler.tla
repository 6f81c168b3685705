----------------------------- MODULE MCAssembler -----------------------------
(***************************************************************************)
(* Programs for a machine of four cells: addresses 0-3, DATs up to 39, INP *)
(* 37 and OUT 38, a hash table of two cells and ints of eight bits.        *)
(***************************************************************************)
EXTENDS Assembler, TLC

\* "wide" is a numeral of the value 2^w + 1 for an int of w bits, "half" one
\* that is negative as an int.
MCNumeralValue == ("0" :> 0) @@ ("3" :> 3) @@ ("4" :> 4) @@ ("39" :> 39) @@ ("40" :> 40)
                    @@ ("wide" :> 257) @@ ("half" :> 255)
MCNumerals == DOMAIN MCNumeralValue

\* Where a label goes without its NUL and with it (prime 435) differs.
MCFnv1a == ("x" :> 1) @@ ("X" :> 3) @@ ("y" :> 2) @@ ("add" :> 0) @@ ("BRA" :> 5)
MCNames == DOMAIN MCFnv1a

MCUpper ==
  [lexeme \in MCNames \cup MCNumerals \cup
              {"x1", "ADD", "sub", "STA", "LDA", "brz", "BRP", "INP", "out", "HLT", "DAT"}
     |-> CASE lexeme = "add" -> "ADD" [] lexeme = "sub" -> "SUB" [] lexeme = "brz" -> "BRZ"
           [] lexeme = "out" -> "OUT" [] lexeme = "x" -> "X" [] lexeme = "y" -> "Y"
           [] OTHER -> lexeme]

Good == {<<"x", "DAT", "39">>, <<"y", "DAT", "x">>, <<"X", "BRA", "y">>, <<"brz", "X">>,
         <<"x", "INP">>, <<"out">>, <<"LDA", "3">>}

Lines == Good \cup
  {<<>>,
   <<"HLT">>, <<"HLT", "0">>,        \* the second has an operand
   <<"add">>,                        \* no operand
   <<"STA", "4">>, <<"sub", "half">>, <<"BRP", "wide">>, <<"y", "DAT", "40">>,
   <<"DAT", "0">>,                   \* no label
   <<"x1", "LDA", "0">>, <<"LDA", "x1">>, <<"BRA", "add">>,
   <<"x", "y">>, <<"x">>,            \* no mnemonic
   <<"BRA", "x", "y">>, <<"x", "BRA", "y", "y">>}

\* Every program of up to two lines, the programs of three lines with at most
\* one line that is not good, four lines with up to three labels, and five.
MCPrograms ==
  UNION {[1 .. n -> Lines] : n \in 0 .. 2}
    \cup {<<l1, l2, l3>> : l1 \in Good, l2 \in Good, l3 \in Lines}
    \cup {<<l1, l2, l3>> : l1 \in Lines, l2 \in Good, l3 \in Good}
    \cup [1 .. 4 -> {line \in Good : Len(line) > 1 /\ line[1] # "LDA"}]
    \cup {<<<<"out">>, <<"out">>, l1, <<>>, <<"out">>, l2>> : l1, l2 \in Good}
=============================================================================
