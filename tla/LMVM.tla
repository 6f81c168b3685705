-------------------------------- MODULE LMVM --------------------------------
(***************************************************************************)
(* The virtual machine: the tail of main() that copies an image into       *)
(* memory, the fetch-decode-execute loop of do_execution(), and one action *)
(* per operation of execute().  The variables are the program's registers  *)
(* and locals; stage is where control is.                                  *)
(***************************************************************************)
EXTENDS LMCMachine

CONSTANTS
  Images,   \* the word sequences a descriptor may carry
  Garbage,  \* words found where nothing was written: past an array's end
            \* or in a heap block never filled
  Inputs,   \* the numbers op_inp may read
  None      \* no input or output yet

ASSUME VMAssumption ==
  /\ Images \subseteq Seq(Word)
  /\ Garbage \subseteq Word /\ Garbage # {}
  /\ Inputs \subseteq Register

VARIABLES
  data,     \* lmcx->data, the image read from the file
  memory, reg_ACC, reg_PC, reg_CIR, reg_MAR, opcode, result,
  io,       \* the last number read or printed
  stage     \* "main", "fetch", "decode", "execute" or "exit"

vars == <<data, memory, reg_ACC, reg_PC, reg_CIR, reg_MAR, opcode, result, io, stage>>

registers == <<reg_CIR, reg_MAR, opcode>>

Results == {"INDETERMINATE", "ERROR", "ACC_CHANGED", "ACC_UNCHANGED", "BRANCHED", "HALT"}

Init == /\ data \in Images
        /\ memory = [a \in Address |-> 0]
        /\ reg_ACC = 0 /\ reg_PC = 0
        /\ reg_CIR = 0 /\ reg_MAR = 0 /\ opcode = OP_LMC_HLT
        /\ result = "INDETERMINATE"
        /\ io = None
        /\ stage = "main"

-----------------------------------------------------------------------------
\* main()

\* The copy counts EXECUTABLE_SIZE bytes and a word is two of them.
CopiedWords == EXECUTABLE_SIZE \div 2

\* main: an image longer than memory is refused with exit status 1.
RefuseImage == /\ stage = "main"
               /\ Len(data) > EXECUTABLE_SIZE
               /\ stage' = "exit"
               /\ UNCHANGED <<data, memory, reg_ACC, reg_PC, registers, result, io>>

\* main: memcpy into zeroed memory.  A shorter image leaves words of the
\* buffer it was read into that nothing has written.
LoadImage ==
  /\ stage = "main"
  /\ Len(data) <= EXECUTABLE_SIZE
  /\ \E heap \in [Len(data) .. CopiedWords - 1 -> Garbage] :
       memory' = [a \in Address |-> IF a >= CopiedWords THEN 0
                                    ELSE IF a < Len(data) THEN data[a + 1]
                                    ELSE heap[a]]
  /\ stage' = "fetch"
  /\ UNCHANGED <<data, reg_ACC, reg_PC, registers, result, io>>

-----------------------------------------------------------------------------
\* do_execution(): fetch and decode

\* Mutant: off by one.
PCOutOfRange_Late(pc) == pc > EXECUTABLE_SIZE + 1
PCOutOfRange(pc) == pc > EXECUTABLE_SIZE

\* Mutant: the increment is forgotten.
NextPC_Stuck(pc) == pc
NextPC(pc) == pc + 1

\* Mutant: ++PC where the code has PC++.
ReadCell_PreIncrement(pc) == IF pc + 1 \in Address THEN {memory[pc + 1]} ELSE Garbage

\* What memory[pc] reads: beyond the array, whatever lies there.
ReadCell(pc) == IF pc \in Address THEN {memory[pc]} ELSE Garbage

Fetch == /\ stage = "fetch"
         /\ reg_CIR' \in ReadCell(reg_PC)
         /\ reg_PC' = NextPC(reg_PC)
         /\ result' = IF PCOutOfRange(reg_PC') THEN "ERROR" ELSE result
         /\ stage' = "decode"
         /\ UNCHANGED <<data, memory, reg_ACC, reg_MAR, opcode, io>>

\* The switch value for a word: INP and OUT are told apart by the whole word.
OpcodeOf(word) == IF word \div Radix = OP_LMC_IO_OP
                     /\ word \in {OP_LMC_IO_OP_INP, OP_LMC_IO_OP_OUT}
                  THEN word ELSE word \div Radix

Decode ==
  /\ stage = "decode"
  /\ reg_MAR' = reg_CIR % Radix
  /\ opcode' = OpcodeOf(reg_CIR)
  /\ result' = IF reg_MAR' > Radix - 1 \/ opcode' = OP_LMC_IO_OP
               THEN "ERROR" ELSE result
  /\ stage' = "execute"
  /\ UNCHANGED <<data, memory, reg_ACC, reg_PC, reg_CIR, io>>

-----------------------------------------------------------------------------
\* execute() and the tail of the loop

\* Mutant: execute() is called although fetch or decode failed.
Executing_Always(op) == stage = "execute" /\ opcode = op
Executing(op) == stage = "execute" /\ result # "ERROR" /\ opcode = op

\* The checks after execute() and the loop condition, given its result and
\* the program counter it leaves.
Complete(res, pc) ==
  /\ reg_PC' = pc
  /\ result' = IF res = "INDETERMINATE" \/ (res = "BRANCHED" /\ pc > EXECUTABLE_SIZE)
               THEN "ERROR" ELSE res
  /\ stage' = IF result' \in {"HALT", "ERROR"} THEN "exit" ELSE "fetch"
  /\ UNCHANGED <<data, registers>>

\* v is the sum or difference as the build computes it; the code tests it
\* for having left the range of an int only after it has wrapped, so that the
\* error is never reported (OverflowIsAnError below).
Accumulate(v, outside) ==
  /\ reg_ACC' = IF outside THEN reg_ACC ELSE v
  /\ Complete(IF outside THEN "ERROR" ELSE "ACC_CHANGED", reg_PC)
  /\ UNCHANGED <<memory, io>>

op_add == /\ Executing(OP_LMC_ADD)
          /\ LET sum == Wrapped(reg_ACC + memory[reg_MAR])
             IN  Accumulate(sum, sum > IntMax)

op_sub == /\ Executing(OP_LMC_SUB)
          /\ LET difference == Wrapped(reg_ACC - memory[reg_MAR])
             IN  Accumulate(difference, difference < IntMin)

\* Mutant: 1000 passes for a three digit number.
FitsMemory_OffByOne(v) == ~(v < 0 \/ v > 10 * Radix)
FitsMemory(v) == ~(v < 0 \/ v > 10 * Radix - 1)

op_sta ==
  /\ Executing(OP_LMC_STA)
  /\ memory' = IF FitsMemory(reg_ACC) THEN [memory EXCEPT ![reg_MAR] = reg_ACC]
               ELSE memory
  /\ Complete(IF FitsMemory(reg_ACC) THEN "ACC_UNCHANGED" ELSE "ERROR", reg_PC)
  /\ UNCHANGED <<reg_ACC, io>>

op_lda == /\ Executing(OP_LMC_LDA)
          /\ reg_ACC' = memory[reg_MAR]
          /\ Complete("ACC_CHANGED", reg_PC)
          /\ UNCHANGED <<memory, io>>

BranchIf(taken) == /\ IF taken THEN Complete("BRANCHED", reg_MAR)
                               ELSE Complete("ACC_UNCHANGED", reg_PC)
                   /\ UNCHANGED <<memory, reg_ACC, io>>

\* Mutant: zero is not taken for positive.
Positive_Strict(v) == v > 0
Positive(v) == v >= 0

op_bra == Executing(OP_LMC_BRA) /\ BranchIf(TRUE)
op_brz == Executing(OP_LMC_BRZ) /\ BranchIf(reg_ACC = 0)
op_brp == Executing(OP_LMC_BRP) /\ BranchIf(Positive(reg_ACC))

\* Returns once the user has typed a number; the retries are not shown here.
op_inp == /\ Executing(OP_LMC_IO_OP_INP)
          /\ reg_ACC' \in Inputs
          /\ io' = <<"in", reg_ACC'>>
          /\ Complete("ACC_CHANGED", reg_PC)
          /\ UNCHANGED memory

op_out == /\ Executing(OP_LMC_IO_OP_OUT)
          /\ io' = <<"out", reg_ACC>>
          /\ Complete("ACC_UNCHANGED", reg_PC)
          /\ UNCHANGED <<memory, reg_ACC>>

op_hlt == /\ Executing(OP_LMC_HLT)
          /\ Complete("HALT", reg_PC)
          /\ UNCHANGED <<memory, reg_ACC, io>>

Operations == {OP_LMC_HLT, OP_LMC_ADD, OP_LMC_SUB, OP_LMC_STA, OP_LMC_LDA, OP_LMC_BRA,
               OP_LMC_BRZ, OP_LMC_BRP, OP_LMC_IO_OP_INP, OP_LMC_IO_OP_OUT}

\* The default case of the switch.
InvalidOpcode == /\ stage = "execute" /\ result # "ERROR"
                 /\ opcode \notin Operations
                 /\ Complete("ERROR", reg_PC)
                 /\ UNCHANGED <<memory, reg_ACC, io>>

\* Fetch or decode failed: execute() is not called.
SkipExecute == /\ stage = "execute" /\ result = "ERROR"
               /\ Complete("ERROR", reg_PC)
               /\ UNCHANGED <<memory, reg_ACC, io>>

\* The process has ended.
Exited == stage = "exit" /\ UNCHANGED vars

-----------------------------------------------------------------------------
\* What the program does by itself; op_inp waits for the user.
Run == \/ RefuseImage \/ LoadImage \/ Fetch \/ Decode
       \/ op_add \/ op_sub \/ op_sta \/ op_lda \/ op_bra \/ op_brz \/ op_brp
       \/ op_out \/ op_hlt \/ InvalidOpcode \/ SkipExecute

Next == Run \/ op_inp \/ Exited

Spec == Init /\ [][Next]_vars
FairSpec == Spec /\ WF_vars(Run)

-----------------------------------------------------------------------------
\* Safety

\* Types of the registers and locals.
TypeOK == /\ data \in Images
          /\ memory \in [Address -> Word]
          /\ reg_ACC \in Register
          /\ reg_PC \in 0 .. EXECUTABLE_SIZE + 1
          /\ reg_CIR \in Word /\ reg_MAR \in 0 .. Radix - 1
          /\ opcode \in Nat
          /\ result \in Results
          /\ io \in {None} \cup ({"in", "out"} \X Register)
          /\ stage \in {"main", "fetch", "decode", "execute", "exit"}

\* What is about to be executed is the word memory holds right now just
\* behind the program counter, even after the program rewrote it, and never
\* a word read from outside memory (do_execution fetches before it checks).
FreshInstruction ==
  stage \in {"decode", "execute"} /\ result # "ERROR" =>
    /\ reg_PC - 1 \in Address
    /\ reg_CIR = memory[reg_PC - 1]
    /\ stage = "execute" => reg_MAR = reg_CIR % Radix /\ opcode = OpcodeOf(reg_CIR)

\* The range check runs after the read, so a program may read one cell past
\* the end of memory; it never reads further than that.
OneReadPastTheEnd == stage \in {"main", "fetch"} => reg_PC <= EXECUTABLE_SIZE

StorableImage(image) == /\ Len(image) >= CopiedWords
                        /\ \A i \in 1 .. Len(image) : image[i] \in Storable

\* A machine started on a whole image of three digit words keeps three digit
\* words, although the accumulator it stores from is an unrestricted int.
CellsStayStorable ==
  StorableImage(data) => \A a \in Address : memory[a] \in Storable

\* Once fetch, decode or execute has reported an error the run is over: the
\* instruction at fault changes neither memory, accumulator nor output, and
\* nothing later in the cycle overrides the error.
ErrorIsFinal ==
  [][result = "ERROR" \/ result' = "ERROR"
       => result' = "ERROR" /\ UNCHANGED <<memory, reg_ACC, io>>]_vars

\* The loop with its registers, result codes and checks is a Little Man
\* Computer: between two fetches it obeys exactly one instruction.
LM == INSTANCE LittleMan WITH
        mem <- memory,
        acc <- reg_ACC,
        pc <- IF stage \in {"decode", "execute"} THEN reg_PC - 1 ELSE reg_PC,
        status <- CASE stage = "main" -> "off"
                    [] stage = "exit" -> IF result = "HALT" THEN "halted" ELSE "error"
                    [] OTHER -> "running"

IsALittleMan == LM!Spec

-----------------------------------------------------------------------------
\* Liveness

AwaitsInput == stage = "execute" /\ result # "ERROR" /\ opcode = OP_LMC_IO_OP_INP

\* An image whose jumps all lead forward and that stores nothing.
ForwardImage(image) ==
  /\ Len(image) >= CopiedWords
  /\ \A i \in 1 .. CopiedWords :
       /\ image[i] \div Radix # OP_LMC_STA
       /\ image[i] \div Radix \in {OP_LMC_BRA, OP_LMC_BRZ, OP_LMC_BRP}
            => image[i] % Radix >= i

\* Running such an image, the machine never computes for ever: it always gets
\* to the end, or to an INP where it waits for the user.
ForwardProgramsFinish == ForwardImage(data) => []<>(stage = "exit" \/ AwaitsInput)

-----------------------------------------------------------------------------
\* What the documents and comments say and the code does not do

\* README: the operand of a DAT "is the initial value of the variable", so
\* the program starts with every word of its image in memory.
ImageIsLoadedWhole ==
  [][stage = "main" /\ stage' = "fetch"
       => \A a \in 0 .. Len(data) - 1 : memory'[a] = data[a + 1]]_vars

\* op_add and op_sub: "check value will stay within range of int", or else
\* "Accumulator overflow".
OverflowIsAnError ==
  [][/\ op_add => (reg_ACC + memory[reg_MAR] > IntMax => result' = "ERROR")
     /\ op_sub => (reg_ACC - memory[reg_MAR] < IntMin => result' = "ERROR")]_vars
=============================================================================
