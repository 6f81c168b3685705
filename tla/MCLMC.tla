-------------------------------- MODULE MCLMC --------------------------------
(***************************************************************************)
(* Programs for a machine of fourteen cells, seven of which are copied:    *)
(* INP is 127 and OUT 128, words up to 139 are storable, ints have nine    *)
(* bits and the hash table has four cells.                                 *)
(***************************************************************************)
EXTENDS LMC, TLC

MCNumeralValue == ("0" :> 0) @@ ("1" :> 1) @@ ("5" :> 5) @@ ("139" :> 139)
MCNumerals == DOMAIN MCNumeralValue

\* "a" and "y" meet in one cell of the table.
MCFnv1a == ("a" :> 1) @@ ("b" :> 3) @@ ("x" :> 2) @@ ("y" :> 5) @@ ("z" :> 0)
MCNames == DOMAIN MCFnv1a

MCUpper == [lexeme \in MCNames \cup MCNumerals \cup
                         {"INP", "OUT", "HLT", "DAT", "ADD", "SUB", "STA", "LDA",
                          "BRA", "BRZ", "BRP"} |-> lexeme]

\* The smallest int, and numbers around what a variable can hold.
MCInputs == {IntMin, -1, 0, 2, 10 * Radix}

\* Three lines between the first and the HLT, two variables behind it.
Middle == {<<"b", "ADD", "x">>, <<"SUB", "y">>, <<"STA", "x">>, <<"b", "LDA", "y">>,
           <<"BRA", "a">>, <<"BRZ", "b">>, <<"BRP", "b">>, <<"OUT">>}

TwoVariables == <<<<"x", "DAT", "1">>, <<"y", "DAT", "139">>>>

MCPrograms ==
  {<<<<"a", "INP">>, l1, l2, l3, <<"HLT">>>> \o TwoVariables : l1, l2, l3 \in Middle}
    \cup {<<<<"a", "LDA", "y">>, <<>>, l1, <<"BRA", "a">>>> \o TwoVariables : l1 \in Middle}
    \cup {\* counts down; the jump over the end leaves the text
          <<<<"INP">>, <<"a", "BRZ", "b">>, <<"SUB", "x">>, <<"BRA", "a">>,
            <<"x", "DAT", "1">>, <<"b", "OUT">>>>,
          \* a label as the value of a variable
          <<<<"LDA", "x">>, <<"OUT">>, <<"HLT">>, <<"x", "DAT", "a">>, <<"a", "HLT">>>>,
          \* nothing is promised: a program that changes itself, one that is
          \* too long to be copied, one with five labels, one that is wrong
          <<<<"a", "INP">>, <<"STA", "a">>, <<"BRA", "a">>>>,
          <<<<"LDA", "1">>, <<"OUT">>, <<>>, <<"BRA", "5">>>>,
          <<<<"BRA", "b">>, <<"OUT">>, <<"OUT">>, <<"OUT">>, <<"OUT">>, <<"OUT">>,
            <<"OUT">>, <<"b", "OUT">>, <<"HLT">>>>,
          <<<<"a", "LDA", "z">>, <<"b", "OUT">>, <<"HLT">>>> \o TwoVariables
            \o <<<<"z", "DAT", "5">>>>,
          <<<<"a", "INP">>, <<"BRA", "x">>>>}
=============================================================================
