-------------------------- MODULE AssemblyLanguage --------------------------
(***************************************************************************)
(* What the assembler promises: it accepts exactly the programs of the     *)
(* language, and turns one of them into the image the language gives it.   *)
(* There are no passes here and no tokens, only what a whole program is.   *)
(* Nothing is promised for a program with more than Limit labels.          *)
(***************************************************************************)
EXTENDS LMCMachine, FiniteSets

CONSTANTS
  Programs,      \* programs: sequences of lines, a line a sequence of lexemes
  Names,         \* the lexemes made of letters only
  Numerals,      \* the lexemes made of digits only
  NumeralValue,  \* NumeralValue[numeral]
  Upper,         \* Upper[lexeme] in upper case
  Limit, None

VARIABLES source, verdict, image

vars == <<source, verdict, image>>

Alone == {"INP", "OUT", "HLT"}   \* take no operand
Digit == [ADD |-> 1, SUB |-> 2, STA |-> 3, LDA |-> 5, BRA |-> 6, BRZ |-> 7, BRP |-> 8]

Reserved(lexeme) == Upper[lexeme] \in Alone \cup DOMAIN Digit \cup {"DAT"}

-----------------------------------------------------------------------------
\* A statement is its first reserved word, with at most one word on each side.
Verb(line) == {i \in DOMAIN line : Reserved(line[i]) /\ \A j \in 1 .. i - 1 : ~Reserved(line[j])}
IsStatement(line) == \E i \in Verb(line) : i <= 2 /\ Len(line) <= i + 1

Mnemonic(line) == Upper[line[CHOOSE i \in Verb(line) : TRUE]]
Label(line)    == IF Reserved(line[1]) THEN None ELSE line[1]
Operand(line)  == IF Reserved(line[Len(line)]) /\ Len(line) \in Verb(line)
                  THEN None ELSE line[Len(line)]

\* A program without its empty lines; of its first n lines, Kept(lines)[n].
Kept(lines) ==
  LET kept[n \in 0 .. Len(lines)] ==
        IF n = 0 THEN <<>>
        ELSE IF lines[n] = <<>> THEN kept[n - 1] ELSE Append(kept[n - 1], lines[n])
  IN  kept
Code == Kept(source)[Len(source)]

Labelled == {i \in DOMAIN Code : IsStatement(Code[i]) /\ Label(Code[i]) # None}
Named(name) == {i \in Labelled : Label(Code[i]) = name}

GoodLabel(i) == IF i \in Labelled
                THEN Label(Code[i]) \in Names /\ Named(Label(Code[i])) = {i}
                ELSE Mnemonic(Code[i]) # "DAT"

Bound(i) == IF Mnemonic(Code[i]) = "DAT" THEN 10 * Radix ELSE Radix

GoodOperand(i) ==
  LET operand == Operand(Code[i])
  IN  IF Mnemonic(Code[i]) \in Alone THEN operand = None
      ELSE \/ operand \in Names /\ Named(operand) # {}
           \/ operand \in Numerals /\ NumeralValue[operand] < Bound(i)

WellFormed == /\ Len(Code) \in 1 .. EXECUTABLE_SIZE
              /\ \A i \in DOMAIN Code :
                   IsStatement(Code[i]) /\ GoodLabel(i) /\ GoodOperand(i)

-----------------------------------------------------------------------------
\* Statement i goes to address i - 1, and that is what its label stands for.
Value(operand) == IF operand \in Names THEN (CHOOSE i \in Named(operand) : TRUE) - 1
                  ELSE NumeralValue[operand]

Encoded(line) == CASE Mnemonic(line) = "INP" -> OP_LMC_IO_OP_INP
                   [] Mnemonic(line) = "OUT" -> OP_LMC_IO_OP_OUT
                   [] Mnemonic(line) = "HLT" -> OP_LMC_HLT
                   [] Mnemonic(line) = "DAT" -> Value(Operand(line))
                   [] OTHER -> Digit[Mnemonic(line)] * Radix + Value(Operand(line))

Image == [a \in Address |-> IF a < Len(Code) THEN Encoded(Code[a + 1]) ELSE 0]

-----------------------------------------------------------------------------
Init == source \in Programs /\ verdict = "pending" /\ image = None

Accept == /\ verdict = "pending" /\ WellFormed
          /\ verdict' = "accepted" /\ image' = Image
          /\ UNCHANGED source

Reject == /\ verdict = "pending" /\ ~WellFormed
          /\ verdict' = "rejected"
          /\ UNCHANGED <<source, image>>

GiveUp == /\ verdict = "pending" /\ Cardinality(Labelled) > Limit
          /\ verdict' = "undefined"
          /\ UNCHANGED <<source, image>>

Next == Accept \/ Reject \/ GiveUp

Spec == Init /\ [][Next]_vars
=============================================================================
