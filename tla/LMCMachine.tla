----------------------------- MODULE LMCMachine -----------------------------
(***************************************************************************)
(* The machine both programs agree on: the shape of memory, the encoding   *)
(* of an instruction in a memory word and the range of the accumulator.    *)
(* An instruction is one decimal digit followed by a two digit address;    *)
(* Radix is the 100 that separates them, so 999 is 10 * Radix - 1, 901 is  *)
(* 9 * Radix + 1 and 902 is 9 * Radix + 2.                                 *)
(***************************************************************************)
EXTENDS Integers, Sequences

CONSTANTS
  EXECUTABLE_SIZE,  \* cells of memory (100)
  Radix,            \* addresses an operand can name (100)
  WordMax,          \* USHRT_MAX, the largest word a cell can hold (65535)
  IntMax            \* INT_MAX

ASSUME MachineAssumption ==
  /\ EXECUTABLE_SIZE \in Nat
  /\ Radix \in Nat /\ 3 <= Radix /\ Radix <= EXECUTABLE_SIZE
  /\ WordMax \in Nat /\ 10 * Radix - 1 <= WordMax
  /\ IntMax \in Nat /\ WordMax <= IntMax
  \* A word is too narrow to spell OP_LMC_IO_OP_INP as its leading digits.
  /\ WordMax \div Radix < 9 * Radix + 1

Address  == 0 .. EXECUTABLE_SIZE - 1
Word     == 0 .. WordMax
Storable == 0 .. 10 * Radix - 1
IntMin   == -IntMax - 1
Register == IntMin .. IntMax

OP_LMC_HLT       == 0
OP_LMC_ADD       == 1
OP_LMC_SUB       == 2
OP_LMC_STA       == 3
OP_LMC_LDA       == 5
OP_LMC_BRA       == 6
OP_LMC_BRZ       == 7
OP_LMC_BRP       == 8
OP_LMC_IO_OP     == 9
OP_LMC_IO_OP_INP == 9 * Radix + 1
OP_LMC_IO_OP_OUT == 9 * Radix + 2

\* Signed addition and subtraction of one word, as the build computes them
\* when the exact value does not fit an int.
Wrapped(v) == IF v > IntMax THEN v - 2 * (IntMax + 1)
              ELSE IF v < IntMin THEN v + 2 * (IntMax + 1)
              ELSE v
=============================================================================
