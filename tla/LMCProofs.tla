------------------------------ MODULE LMCProofs ------------------------------
(***************************************************************************)
(* Assembler and machine together, from the theorems about each: what the  *)
(* one guarantees of an image is what the other assumes of it.             *)
(***************************************************************************)
EXTENDS LMC, AssemblerProofs

VP == INSTANCE LMVMProofs WITH data <- Written, stage <- phase, Images <- Seq(Word)

\* Until the machine starts it is as it was; it starts only on an image.
LMCInv == /\ IInv
          /\ VP!IInv
          /\ phase = "main" => memory = [a \in Address |-> 0]
          /\ phase # "main" => stage = "done"

-----------------------------------------------------------------------------
LEMMA SameMachine == (VM!Run \/ VM!op_inp) = (VP!Run \/ VP!op_inp)
  BY DEF VM!Run, VP!Run, VM!op_inp, VP!op_inp, VM!RefuseImage, VP!RefuseImage,
     VM!LoadImage, VP!LoadImage, VM!Fetch, VP!Fetch, VM!Decode, VP!Decode,
     VM!op_add, VP!op_add, VM!op_sub, VP!op_sub, VM!op_sta, VP!op_sta,
     VM!op_lda, VP!op_lda, VM!op_bra, VP!op_bra, VM!op_brz, VP!op_brz,
     VM!op_brp, VP!op_brp, VM!op_out, VP!op_out, VM!op_hlt, VP!op_hlt,
     VM!InvalidOpcode, VP!InvalidOpcode, VM!SkipExecute, VP!SkipExecute,
     VM!Executing, VP!Executing, VM!Complete, VP!Complete, VM!Accumulate, VP!Accumulate,
     VM!BranchIf, VP!BranchIf, VM!Positive, VP!Positive, VM!FitsMemory, VP!FitsMemory,
     VM!ReadCell, VP!ReadCell, VM!NextPC, VP!NextPC, VM!PCOutOfRange, VP!PCOutOfRange,
     VM!OpcodeOf, VP!OpcodeOf, VM!registers, VP!registers, VM!CopiedWords, VP!CopiedWords,
     VM!Operations, VP!Operations, VM!vars, VP!vars,
     VM!OP_LMC_HLT, VP!OP_LMC_HLT, VM!OP_LMC_ADD, VP!OP_LMC_ADD,
     VM!OP_LMC_SUB, VP!OP_LMC_SUB, VM!OP_LMC_STA, VP!OP_LMC_STA,
     VM!OP_LMC_LDA, VP!OP_LMC_LDA, VM!OP_LMC_BRA, VP!OP_LMC_BRA,
     VM!OP_LMC_BRZ, VP!OP_LMC_BRZ, VM!OP_LMC_BRP, VP!OP_LMC_BRP,
     VM!OP_LMC_IO_OP, VP!OP_LMC_IO_OP, VM!OP_LMC_IO_OP_INP, VP!OP_LMC_IO_OP_INP,
     VM!OP_LMC_IO_OP_OUT, VP!OP_LMC_IO_OP_OUT, VM!Address, VP!Address,
     VM!IntMin, VP!IntMin, VM!Wrapped, VP!Wrapped

LEMMA MachineAssumptions == VP!MachineAssumption /\ VP!VMAssumption
  BY MachineAssumption, RunAssumption
  DEF Word, Register, IntMin, VP!Word, VP!Register, VP!IntMin

-----------------------------------------------------------------------------
\* What is written

LEMMA WrittenWords == ImageOrNone => Written \in Seq(Word)
<1> SUFFICES ASSUME ImageOrNone PROVE Written \in Seq(Word)
  OBVIOUS
<1>1. Storable \subseteq Word /\ EXECUTABLE_SIZE \in Nat
  BY MachineAssumption DEF Storable, Word
<1>2. CASE executable = None
  BY <1>2 DEF Written
<1>3. CASE executable # None
  <2>1. executable \in [Address -> Word]
    BY <1>1, <1>3 DEF ImageOrNone
  <2>2. \A i \in 1 .. EXECUTABLE_SIZE : executable[i - 1] \in Word
    BY <1>1, <2>1 DEF Address
  <2>3. QED
    BY <1>1, <1>3, <2>2 DEF Written
<1>4. QED
  BY <1>2, <1>3

LEMMA WrittenWordsNext == ImageOrNone' => (Written \in Seq(Word))'
  BY WrittenWords, PTL

\* What the assembler guarantees is what CellsStayStorable asks for.
LEMMA WrittenIsStorable ==
  ASSUME ImageThere, stage = "done"
  PROVE  VP!StorableImage(Written)
<1>1. /\ executable \in [Address -> Storable]
      /\ Storable \subseteq Word /\ EXECUTABLE_SIZE \in Nat
  BY MachineAssumption DEF ImageThere, Storable, Word
<1>2. executable # None
  BY <1>1, AssemblerAssumption
<1>3. Written = [i \in 1 .. EXECUTABLE_SIZE |-> executable[i - 1]]
  BY <1>2 DEF Written
<1>4. \A i \in 1 .. EXECUTABLE_SIZE : executable[i - 1] \in Storable
  BY <1>1 DEF Address
<1>5. Len(Written) = EXECUTABLE_SIZE /\ \A i \in 1 .. Len(Written) : Written[i] \in Storable
  BY <1>1, <1>3, <1>4
<1>6. QED
  BY <1>1, <1>5 DEF VP!StorableImage, VP!CopiedWords, VP!Storable, Storable

-----------------------------------------------------------------------------
\* Steps

LEMMA InitLMCInv == LMCInit => LMCInv
<1> SUFFICES ASSUME LMCInit PROVE LMCInv
  OBVIOUS
<1>1. IInv
  BY InitIInv DEF LMCInit
<1>2. VP!Init
  BY DEF LMCInit, VM!Init, VP!Init, VM!Address, VP!Address, VM!OP_LMC_HLT, VP!OP_LMC_HLT
<1>3. VP!IInv
  BY <1>2, MachineAssumptions, VP!InitIInv
<1>4. phase = "main" /\ memory = [a \in Address |-> 0]
  BY <1>2 DEF VP!Init, VP!Address, Address
<1>5. QED
  BY <1>1, <1>3, <1>4 DEF LMCInv

\* Nothing the assembler does comes after it is done.
LEMMA RunIsNotDone == Run => stage # "done"
  BY DEF Run, LexEmptyLine, LexLine, LexEnd, validate_inp_out_hlt, ParseLabel, LabelsEnd,
         CheckReferences, validate_numerical_operands, GeneratePlain, GenerateNothing,
         GenerateNumeral, GenerateLabel, GenerateEnd, FreeAll, Generating, AtToken, Check, In

LEMMA AssembleInv == LMCInv /\ Assemble => LMCInv'
<1> SUFFICES ASSUME LMCInv, Assemble PROVE LMCInv'
  OBVIOUS
<1>1. IInv'
  BY NextIInv DEF LMCInv, Assemble, Next
<1>2. phase = "main" /\ memory = [a \in Address |-> 0] /\ UNCHANGED machine
  BY RunIsNotDone DEF LMCInv, Assemble
<1>3. Written' \in Seq(Word)
  BY <1>1, WrittenWordsNext DEF IInv
<1>4. VP!TypeOK'
  BY <1>2, <1>3 DEF LMCInv, machine, VP!IInv, VP!TypeOK, VP!Address, VP!Word, Word
<1>5. VP!CellsStayStorable'
  BY <1>2, MachineAssumption
  DEF machine, VP!CellsStayStorable, VP!Address, VP!Storable, Address
<1>6. VP!FreshInstruction' /\ VP!OneReadPastTheEnd'
  BY <1>2 DEF LMCInv, machine, VP!IInv, VP!FreshInstruction, VP!OneReadPastTheEnd
<1>7. QED
  BY <1>1, <1>2, <1>4, <1>5, <1>6 DEF LMCInv, machine, VP!IInv

\* The machine never goes back to its start.
LEMMA NeverBackToMain == VP!Run \/ VP!op_inp => phase' # "main"
  BY DEF VP!Run, VP!RefuseImage, VP!LoadImage, VP!Fetch, VP!Decode, VP!op_add, VP!op_sub,
         VP!op_sta, VP!op_lda, VP!op_bra, VP!op_brz, VP!op_brp, VP!op_inp, VP!op_out,
         VP!op_hlt, VP!InvalidOpcode, VP!SkipExecute, VP!BranchIf, VP!Accumulate,
         VP!Complete

LEMMA ExecuteInv == LMCInv /\ Execute => LMCInv'
<1> SUFFICES ASSUME LMCInv, Execute PROVE LMCInv'
  OBVIOUS
<1>1. stage = "done" /\ UNCHANGED vars /\ (VP!Run \/ VP!op_inp)
  BY SameMachine DEF Execute
<1>2. IInv'
  BY <1>1, NextIInv DEF LMCInv
<1>3. VP!IInv'
  BY <1>1, MachineAssumptions, VP!NextIInv DEF LMCInv, VP!Next
<1>4. phase' # "main"
  BY <1>1, NeverBackToMain
<1>5. stage' = "done"
  BY <1>1 DEF vars
<1>6. QED
  BY <1>2, <1>3, <1>4, <1>5 DEF LMCInv

LEMMA NextLMCInv == LMCInv /\ [LMCNext]_allVars => LMCInv'
<1> SUFFICES ASSUME LMCInv, AllEnded \/ UNCHANGED allVars PROVE LMCInv'
  BY AssembleInv, ExecuteInv DEF LMCNext
<1>1. UNCHANGED vars /\ UNCHANGED machine
  BY DEF AllEnded, allVars
<1>2. IInv'
  BY <1>1, NextIInv DEF LMCInv
<1>3. UNCHANGED VP!vars
  BY <1>1 DEF vars, machine, Written, VP!vars
<1>4. VP!IInv'
  BY <1>3, MachineAssumptions, VP!NextIInv DEF LMCInv
<1>5. QED
  BY <1>1, <1>2, <1>4 DEF LMCInv, vars, machine

-----------------------------------------------------------------------------
\* No program, however it came through the assembler, ever puts a word of
\* more than three digits into memory.
THEOREM MemoryDecimal == LMCSpec => []MemoryStaysDecimal
<1>1. LMCSpec => []LMCInv
  BY InitLMCInv, NextLMCInv, PTL DEF LMCSpec
<1>2. LMCInv => MemoryStaysDecimal
  <2> SUFFICES ASSUME LMCInv, NEW a \in Address PROVE memory[a] \in Storable
    BY DEF MemoryStaysDecimal
  <2>1. CASE phase = "main"
    BY <2>1, MachineAssumption DEF LMCInv, Storable
  <2>2. CASE phase # "main"
    <3>1. VP!StorableImage(Written)
      BY <2>2, WrittenIsStorable DEF LMCInv, IInv
    <3>2. QED
      BY <3>1 DEF LMCInv, VP!IInv, VP!CellsStayStorable, VP!Address, VP!Storable,
                  Address, Storable
  <2>3. QED
    BY <2>1, <2>2
<1>3. QED
  BY <1>1, <1>2, PTL
=============================================================================
