--------------------------------- MODULE LMC ---------------------------------
(***************************************************************************)
(* Assembler and virtual machine in a row: what the assembler has made of  *)
(* a source file is run.  The image file between them is a copy here; how  *)
(* it is written and read is the matter of ImageFile, and what happens     *)
(* when others touch it meanwhile that of Toolchain.                       *)
(***************************************************************************)
EXTENDS Assembler

CONSTANTS Garbage, Inputs   \* of the machine

ASSUME RunAssumption == /\ Garbage \subseteq Word /\ Garbage # {}
                        /\ Inputs \subseteq Register

VARIABLES memory, reg_ACC, reg_PC, reg_CIR, reg_MAR, opcode, result, io,
          phase   \* the stage of the machine

machine == <<memory, reg_ACC, reg_PC, reg_CIR, reg_MAR, opcode, result, io, phase>>
allVars == <<vars, machine>>

\* The words of the file: always a whole image, however short the program.
Written == IF executable = None THEN <<>>
           ELSE [i \in 1 .. EXECUTABLE_SIZE |-> executable[i - 1]]

VM == INSTANCE LMVM WITH data <- Written, stage <- phase, Images <- Seq(Word)

LMCInit == Init /\ VM!Init

Assemble == Run /\ UNCHANGED machine

\* The machine is started on an image only when there is one.
Execute == /\ stage = "done" /\ UNCHANGED vars
           /\ VM!Run \/ VM!op_inp

AllEnded == /\ Ended /\ (stage = "done" => phase = "exit")
            /\ UNCHANGED allVars

LMCNext == Assemble \/ Execute \/ AllEnded

LMCSpec == LMCInit /\ [][LMCNext]_allVars

-----------------------------------------------------------------------------
\* Properties

\* Whatever program is assembled, and whatever a grown hash table answers, the
\* machine that runs it never has a word of more than three digits in memory:
\* what the assembler guarantees is what the machine needs.
MemoryStaysDecimal == \A a \in Address : memory[a] \in Storable

\* Assembling and running a program obeys the lines of its text: the address
\* a label is given is the cell its line is put in, every branch goes to the
\* line that carries the label, and a variable is stored to and loaded from
\* where its DAT is, through passes, words, fetch, decode and execute.
Text == INSTANCE SourceMachine WITH
          MaxLabels <- INIT_CAPACITY, program <- tokens,
          line <- 1, value <- None, acc <- 0, status <- "text"

\* The machine runs a program for which something is promised.
Promised == phase # "main" /\ Text!Structured

Lines == INSTANCE SourceMachine WITH
           MaxLabels <- INIT_CAPACITY,
           program <- IF Promised THEN tokens ELSE <<>>,
           line <- IF ~Promised THEN 1
                   ELSE IF phase \in {"decode", "execute"} THEN reg_PC ELSE reg_PC + 1,
           value <- IF ~Promised THEN None
                    ELSE [name \in Text!Variables |-> memory[Text!Line(name) - 1]],
           acc <- IF Promised THEN reg_ACC ELSE 0,
           io <- IF Promised THEN io ELSE None,
           status <- CASE phase = "main" -> "text"
                       [] phase # "main" /\ ~Promised -> "unspecified"
                       [] Promised /\ phase = "exit" -> IF result = "HALT" THEN "halted" ELSE "error"
                       [] OTHER -> "running"

ObeysItsLines == Lines!Spec
=============================================================================
