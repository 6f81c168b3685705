------------------------------- MODULE MCLMVM -------------------------------
(***************************************************************************)
(* LMVM on a machine of six cells: addresses 0-5, words 0-59 storable, INP *)
(* is 55 and OUT is 56.  An image is six words; the copy takes three.      *)
(***************************************************************************)
EXTENDS LMVM

\* Instructions of every kind, the unused digit 4, an unknown I/O word and
\* a word of more than three digits.
Program == {5,   \* HLT (any 0xx)
            6,   \* ADD 0
            16,  \* SUB 4
            19,  \* STA 1
            20,  \* STA 2
            23,  \* STA 5
            24,  \* 4xx, unused
            31,  \* LDA 1
            36,  \* BRA 0
            41,  \* BRA 5
            42,  \* BRZ 0
            53,  \* BRP 5
            55,  \* INP
            56,  \* OUT
            57,  \* 9xx, neither INP nor OUT
            60}  \* 10xx
Full(S) == {<<w1, w2, w3, 7, 7, 7>> : w1, w2, w3 \in S}

MCImages == Full(Program)
              \cup {<<w>> : w \in Program}       \* shorter than the copy
              \cup {<<55, 56, 5, 0, 0, 0, 0>>}   \* longer than memory

\* -1, 0, 1, the largest and smallest int, OUT and the first word over 59.
MCInputs == {-1, 0, 1, 56, 60, IntMax, IntMin}
=============================================================================
