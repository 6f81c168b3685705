---------------------------- MODULE SourceMachine ----------------------------
(***************************************************************************)
(* What a programmer may think: the machine obeys the statements of the    *)
(* program as they stand.  A jump goes to the statement with the label, a  *)
(* variable is a name with a value; there are no words, no addresses to    *)
(* encode, no image and no tables.  Nothing is promised for a program that *)
(* names addresses by numbers, changes its own statements, lets control    *)
(* run into its variables, or is too large; and a sum beyond the range of  *)
(* an int may wrap around or be an error, as with LittleMan.               *)
(***************************************************************************)
EXTENDS LMCMachine, FiniteSets

CONSTANTS Names, Numerals, NumeralValue, MaxLabels, Inputs, None

VARIABLES
  program, \* its statements; none before it starts
  line,    \* the statement to be obeyed
  value,   \* of each variable
  acc, io,
  status   \* "text", "running", "halted", "error" or "unspecified"

vars == <<program, line, value, acc, io, status>>

Labelled  == {i \in DOMAIN program : program[i].label # None}
Data      == {i \in DOMAIN program : program[i].mnemonic = "DAT"}
Variables == {program[i].label : i \in Data}
Targets   == {program[i].label : i \in Labelled \ Data}

Verb(i)     == program[i].mnemonic
Operand(i)  == program[i].operand
Line(label) == CHOOSE i \in Labelled : program[i].label = label

\* As a number a label is that of its statement, counted from 0.
Initial(operand) == IF operand \in Names THEN Line(operand) - 1 ELSE NumeralValue[operand]

Structured ==
  /\ Len(program) <= EXECUTABLE_SIZE \div 2
  /\ Cardinality(Labelled) <= MaxLabels
  /\ 1 \notin Data
  /\ \A i \in DOMAIN program :
       /\ i + 1 \in Data => Verb(i) \in {"BRA", "HLT", "DAT"}
       /\ Verb(i) \in {"ADD", "SUB", "STA", "LDA"} => Operand(i) \in Variables
       /\ Verb(i) \in {"BRA", "BRZ", "BRP"} => Operand(i) \in Targets

Init == /\ program = <<>>
        /\ line = 1
        /\ value = None
        /\ acc = 0 /\ io = None
        /\ status = "text"

Statement == [label : Names \cup {None}, mnemonic : STRING,
              operand : Names \cup Numerals \cup {None}]

Start == /\ status = "text"
         /\ program' \in Seq(Statement)
         /\ status' = "running" /\ Structured'
         /\ value' = [name \in Variables' |-> Initial(Operand(Line(name)))']
         /\ UNCHANGED <<line, acc, io>>

\* A program for which nothing is promised starts.
StartOther == /\ status = "text" /\ status' = "unspecified"
              /\ UNCHANGED <<program, line, value, acc, io>>

-----------------------------------------------------------------------------
Obeying(verb) == status = "running" /\ line \in DOMAIN program /\ Verb(line) = verb

\* Control goes to the next line.
Advance == line' = line + 1 /\ UNCHANGED <<program, status>>

Compute(result) == acc' = result /\ Advance /\ UNCHANGED <<value, io>>

Variable == value[Operand(line)]

Fails == status' = "error" /\ line' = line + 1 /\ UNCHANGED <<program, value, acc, io>>

Calculate(exact) == \/ Compute(Wrapped(exact))
                    \/ exact \notin Register /\ Fails

Add  == Obeying("ADD") /\ Calculate(acc + Variable)
Sub  == Obeying("SUB") /\ Calculate(acc - Variable)
Load == Obeying("LDA") /\ Compute(Variable)

Store == /\ Obeying("STA") /\ acc \in Storable
         /\ value' = [value EXCEPT ![Operand(line)] = acc]
         /\ Advance
         /\ UNCHANGED <<acc, io>>

Jumps == \/ Verb(line) = "BRA"
         \/ Verb(line) = "BRZ" /\ acc = 0
         \/ Verb(line) = "BRP" /\ acc >= 0

Jump == /\ \E verb \in {"BRA", "BRZ", "BRP"} : Obeying(verb)
        /\ line' = IF Jumps THEN Line(Operand(line)) ELSE line + 1
        /\ UNCHANGED <<program, value, acc, io, status>>

Input == /\ Obeying("INP")
         /\ acc' \in Inputs
         /\ io' = <<"in", acc'>>
         /\ Advance
         /\ UNCHANGED value

Output == /\ Obeying("OUT")
          /\ io' = <<"out", acc>>
          /\ Advance
          /\ UNCHANGED <<value, acc>>

\* At the end of the text the machine halts as if there were one more HLT.
Halt == /\ \/ Obeying("HLT")
           \/ status = "running" /\ line = Len(program) + 1
        /\ status' = "halted" /\ line' = line + 1
        /\ UNCHANGED <<program, value, acc, io>>

\* The only other thing that can go wrong: a number no variable can hold.
TooLarge == Obeying("STA") /\ acc \notin Storable /\ Fails

Next == \/ Start \/ StartOther \/ Add \/ Sub \/ Load \/ Store \/ Jump
        \/ Input \/ Output \/ Halt \/ TooLarge

Spec == Init /\ [][Next]_vars
=============================================================================
