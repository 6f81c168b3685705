----------------------------- MODULE LMVMProofs -----------------------------
(***************************************************************************)
(* Theorems about LMVM, for every memory size, radix, width of word and    *)
(* int, every image, every input and every content of the unwritten        *)
(* memory it may read: its invariants, and that it implements LittleMan.   *)
(***************************************************************************)
EXTENDS LMVM, TLAPS

\* The invariants the runs check are inductive together: FreshInstruction
\* bounds the program counter TypeOK needs after a fetch, and CellsStayStorable
\* needs the types of memory and accumulator.
IInv == TypeOK /\ FreshInstruction /\ OneReadPastTheEnd /\ CellsStayStorable

-----------------------------------------------------------------------------
\* Arithmetic of words

\* A word splits into its leading digits and an operand that is an address.
LEMMA WordSplits ==
  ASSUME NEW w \in Word
  PROVE  /\ w \div Radix \in Nat
         /\ w % Radix \in 0 .. Radix - 1
         /\ w = Radix * (w \div Radix) + (w % Radix)
  BY MachineAssumption DEF Word

\* An operand always addresses memory.
LEMMA OperandIsAddress ==
  ASSUME NEW w \in Word
  PROVE  w % Radix \in Address
  BY WordSplits, MachineAssumption DEF Address

\* Adding or subtracting one word and wrapping gives an int.
LEMMA WrappedIsRegister ==
  ASSUME NEW v \in Register, NEW w \in Word
  PROVE  Wrapped(v + w) \in Register /\ Wrapped(v - w) \in Register
  BY MachineAssumption DEF Wrapped, Register, IntMin, Word

-----------------------------------------------------------------------------
\* The invariant holds at the start and every step keeps it.

LEMMA InitIInv == Init => IInv
  BY MachineAssumption, VMAssumption
  DEF Init, IInv, TypeOK, FreshInstruction, OneReadPastTheEnd, CellsStayStorable,
      Address, Word, Register, IntMin, Storable, Results, OP_LMC_HLT

\* The copy fills memory with words of the image, of the unwritten part of the
\* buffer, or zero; only a short image leaves such an unwritten part.
LEMMA LoadImageIInv == IInv /\ LoadImage => IInv'
<1> SUFFICES ASSUME IInv, LoadImage PROVE IInv'
  OBVIOUS
<1> USE DEF IInv
<1>1. PICK heap \in [Len(data) .. CopiedWords - 1 -> Garbage] :
        memory' = [a \in Address |-> IF a >= CopiedWords THEN 0
                                     ELSE IF a < Len(data) THEN data[a + 1]
                                     ELSE heap[a]]
  BY DEF LoadImage
<1>2. data \in Seq(Word) /\ Len(data) \in Nat /\ CopiedWords \in Nat
  BY VMAssumption, MachineAssumption DEF TypeOK, CopiedWords
<1>3. ASSUME NEW a \in Address
      PROVE  /\ memory'[a] \in Word
             /\ StorableImage(data) => memory'[a] \in Storable
  <2>1. CASE a >= CopiedWords
    BY <1>1, <2>1, MachineAssumption DEF Word, Storable
  <2>2. CASE a < CopiedWords /\ a < Len(data)
    <3>1. a + 1 \in 1 .. Len(data) /\ memory'[a] = data[a + 1]
      BY <1>1, <1>2, <2>2 DEF Address
    <3>2. QED
      BY <1>2, <3>1 DEF StorableImage
  <2>3. CASE a < CopiedWords /\ ~(a < Len(data))
    <3>1. a \in Len(data) .. CopiedWords - 1 /\ memory'[a] = heap[a]
      BY <1>1, <1>2, <2>3 DEF Address
    <3>2. ~(Len(data) >= CopiedWords)
      BY <1>2, <2>3, MachineAssumption DEF Address
    <3>3. QED
      BY <3>1, <3>2, VMAssumption DEF StorableImage
  <2>4. QED
    BY <1>2, <2>1, <2>2, <2>3, MachineAssumption DEF Address
<1>4. TypeOK'
  BY <1>1, <1>3 DEF TypeOK, LoadImage, registers
<1>5. CellsStayStorable'
  BY <1>3 DEF CellsStayStorable, LoadImage, StorableImage
<1>6. FreshInstruction' /\ OneReadPastTheEnd'
  BY DEF LoadImage, FreshInstruction, OneReadPastTheEnd, TypeOK
<1>7. QED
  BY <1>4, <1>5, <1>6

LEMMA FetchIInv == IInv /\ Fetch => IInv'
<1> SUFFICES ASSUME IInv, Fetch PROVE IInv'
  OBVIOUS
<1> USE DEF IInv
<1>1. reg_CIR' \in Word
  BY VMAssumption DEF Fetch, ReadCell, TypeOK
<1>2. TypeOK'
  <2>1. reg_PC' \in 0 .. EXECUTABLE_SIZE + 1
    BY MachineAssumption DEF Fetch, NextPC, TypeOK, OneReadPastTheEnd
  <2>2. result' \in Results
    BY DEF Fetch, TypeOK, Results
  <2>3. QED
    BY <1>1, <2>1, <2>2 DEF Fetch, TypeOK
<1>3. FreshInstruction'
  <2>1. CASE reg_PC \in Address
    BY <2>1, MachineAssumption
    DEF Fetch, NextPC, ReadCell, FreshInstruction, TypeOK, Address
  <2>2. CASE reg_PC \notin Address
    BY <2>2, MachineAssumption
    DEF Fetch, NextPC, PCOutOfRange, FreshInstruction, TypeOK, Address
  <2>3. QED
    BY <2>1, <2>2
<1>4. OneReadPastTheEnd' /\ CellsStayStorable'
  BY DEF Fetch, OneReadPastTheEnd, CellsStayStorable, StorableImage
<1>5. QED
  BY <1>2, <1>3, <1>4

LEMMA DecodeIInv == IInv /\ Decode => IInv'
<1> SUFFICES ASSUME IInv, Decode PROVE IInv'
  OBVIOUS
<1> USE DEF IInv
<1>1. reg_CIR \in Word
  BY DEF TypeOK
<1>2. OpcodeOf(reg_CIR) \in Nat
  BY <1>1, WordSplits DEF OpcodeOf, Word
<1>3. TypeOK'
  BY <1>1, <1>2, WordSplits DEF Decode, TypeOK, Results
<1>4. FreshInstruction'
  BY DEF Decode, FreshInstruction, OpcodeOf
<1>5. OneReadPastTheEnd' /\ CellsStayStorable'
  BY DEF Decode, OneReadPastTheEnd, CellsStayStorable, StorableImage
<1>6. QED
  BY <1>3, <1>4, <1>5

\* The tail of the loop keeps the invariant if the operation kept the types
\* and the storable cells and left a program counter that may be fetched from.
LEMMA CompleteIInv ==
  ASSUME IInv, stage = "execute",
         NEW res \in Results, NEW pc \in 0 .. EXECUTABLE_SIZE + 1,
         res # "ERROR" => pc <= EXECUTABLE_SIZE,
         Complete(res, pc),
         memory' \in [Address -> Word],
         reg_ACC' \in Register,
         io' \in {None} \cup ({"in", "out"} \X Register),
         CellsStayStorable'
  PROVE  IInv'
<1>1. /\ result' \in Results
      /\ stage' \in {"fetch", "exit"}
      /\ stage' = "fetch" => pc <= EXECUTABLE_SIZE
  BY DEF Complete, Results
<1>2. TypeOK'
  BY <1>1 DEF IInv, TypeOK, Complete, registers
<1>3. FreshInstruction' /\ OneReadPastTheEnd'
  BY <1>1 DEF FreshInstruction, OneReadPastTheEnd, Complete
<1>4. QED
  BY <1>2, <1>3 DEF IInv

\* While an instruction executes, the program counter is behind a cell and
\* the operand addresses one.
LEMMA ExecutingState ==
  ASSUME IInv, stage = "execute", result # "ERROR"
  PROVE  /\ reg_PC \in 0 .. EXECUTABLE_SIZE + 1 /\ reg_PC <= EXECUTABLE_SIZE
         /\ reg_MAR \in Address
         /\ reg_MAR \in 0 .. EXECUTABLE_SIZE + 1 /\ reg_MAR <= EXECUTABLE_SIZE
         /\ memory[reg_MAR] \in Word /\ memory[reg_MAR] \in Register
         /\ reg_ACC \in Register
  BY MachineAssumption
  DEF IInv, TypeOK, FreshInstruction, Address, Word, Register, IntMin

\* An operation that leaves memory alone leaves its cells storable.
LEMMA SameCells ==
  ASSUME IInv, UNCHANGED <<data, memory>>
  PROVE  CellsStayStorable' /\ memory' \in [Address -> Word]
  BY DEF IInv, TypeOK, CellsStayStorable, StorableImage

LEMMA ArithmeticIInv == IInv /\ (op_add \/ op_sub) => IInv'
<1> SUFFICES ASSUME IInv, op_add \/ op_sub PROVE IInv'
  OBVIOUS
<1>1. stage = "execute" /\ result # "ERROR"
  BY DEF op_add, op_sub, Executing
<1>2. PICK v \in Register, outside \in BOOLEAN : Accumulate(v, outside)
  <2>1. CASE op_add
    <3> DEFINE sum == Wrapped(reg_ACC + memory[reg_MAR])
    <3>1. sum \in Register
      BY <1>1, ExecutingState, WrappedIsRegister
    <3>2. Accumulate(sum, sum > IntMax) /\ (sum > IntMax) \in BOOLEAN
      BY <2>1 DEF op_add
    <3>3. QED
      BY <3>1, <3>2
  <2>2. CASE op_sub
    <3> DEFINE difference == Wrapped(reg_ACC - memory[reg_MAR])
    <3>1. difference \in Register
      BY <1>1, ExecutingState, WrappedIsRegister
    <3>2. Accumulate(difference, difference < IntMin)
           /\ (difference < IntMin) \in BOOLEAN
      BY <2>2 DEF op_sub
    <3>3. QED
      BY <3>1, <3>2
  <2>3. QED
    BY <2>1, <2>2
<1>3. reg_ACC' \in Register
  BY <1>1, <1>2, ExecutingState DEF Accumulate
<1>4. UNCHANGED <<data, memory, io>>
  BY <1>2 DEF Accumulate, Complete
<1>5. PICK res \in Results : Complete(res, reg_PC)
  BY <1>2 DEF Accumulate, Results
<1>6. QED
  BY <1>1, <1>3, <1>4, <1>5, ExecutingState, SameCells, CompleteIInv DEF IInv, TypeOK

\* The only operation that writes memory: what it writes fits three digits.
LEMMA StoreIInv == IInv /\ op_sta => IInv'
<1> SUFFICES ASSUME IInv, op_sta PROVE IInv'
  OBVIOUS
<1>1. stage = "execute" /\ result # "ERROR"
  BY DEF op_sta, Executing
<1>2. FitsMemory(reg_ACC) => reg_ACC \in Storable /\ reg_ACC \in Word
  BY <1>1, ExecutingState, MachineAssumption
  DEF FitsMemory, Storable, Word, Register, IntMin
<1>3. memory' \in [Address -> Word]
  BY <1>1, <1>2, ExecutingState DEF op_sta, IInv, TypeOK
<1>4. CellsStayStorable'
  BY <1>1, <1>2, ExecutingState
  DEF op_sta, Complete, IInv, TypeOK, CellsStayStorable, StorableImage
<1>5. PICK res \in Results : Complete(res, reg_PC)
  BY DEF op_sta, Results
<1>6. UNCHANGED <<reg_ACC, io>>
  BY DEF op_sta
<1>7. QED
  BY <1>1, <1>3, <1>4, <1>5, <1>6, ExecutingState, CompleteIInv DEF IInv, TypeOK

\* Loads, jumps, input, output, halting and the two error paths.
LEMMA OtherIInv ==
  IInv /\ (op_lda \/ op_bra \/ op_brz \/ op_brp \/ op_inp \/ op_out \/ op_hlt
            \/ InvalidOpcode \/ SkipExecute) => IInv'
<1> SUFFICES ASSUME IInv,
                    \/ op_lda \/ op_bra \/ op_brz \/ op_brp \/ op_inp \/ op_out
                    \/ op_hlt \/ InvalidOpcode \/ SkipExecute
             PROVE  IInv'
  OBVIOUS
<1>1. stage = "execute"
  BY DEF op_lda, op_bra, op_brz, op_brp, op_inp, op_out, op_hlt, InvalidOpcode,
         SkipExecute, Executing
<1>2. CASE SkipExecute
  <2>1. UNCHANGED <<data, memory, reg_ACC, io>> /\ Complete("ERROR", reg_PC)
    BY <1>2 DEF SkipExecute, Complete
  <2>2. "ERROR" \in Results /\ reg_PC \in 0 .. EXECUTABLE_SIZE + 1
    BY DEF Results, IInv, TypeOK
  <2>3. QED
    BY <1>1, <2>1, <2>2, SameCells, CompleteIInv DEF IInv, TypeOK
<1>3. CASE ~SkipExecute
  <2>1. result # "ERROR"
    BY <1>3 DEF op_lda, op_bra, op_brz, op_brp, op_inp, op_out, op_hlt, InvalidOpcode,
                Executing
  <2>2. PICK res \in Results, pc \in {reg_PC, reg_MAR} : Complete(res, pc)
    BY <1>3 DEF op_lda, op_bra, op_brz, op_brp, op_inp, op_out, op_hlt, InvalidOpcode,
                BranchIf, Results
  <2>3. UNCHANGED <<data, memory>>
    BY <1>3, <2>2 DEF op_lda, op_bra, op_brz, op_brp, op_inp, op_out, op_hlt,
                      InvalidOpcode, BranchIf, Complete
  <2>4. reg_ACC' \in Register /\ io' \in {None} \cup ({"in", "out"} \X Register)
    BY <1>1, <1>3, <2>1, ExecutingState, VMAssumption
    DEF op_lda, op_bra, op_brz, op_brp, op_inp, op_out, op_hlt, InvalidOpcode,
        BranchIf, IInv, TypeOK
  <2>5. QED
    BY <1>1, <2>1, <2>2, <2>3, <2>4, ExecutingState, SameCells, CompleteIInv
<1>4. QED
  BY <1>2, <1>3

LEMMA StutterIInv ==
  ASSUME IInv, UNCHANGED vars
  PROVE  IInv'
  BY DEF IInv, TypeOK, FreshInstruction, OneReadPastTheEnd, CellsStayStorable,
         StorableImage, vars, registers

LEMMA NextIInv == IInv /\ [Next]_vars => IInv'
<1> SUFFICES ASSUME IInv, [Next]_vars PROVE IInv'
  OBVIOUS
<1>1. CASE RefuseImage
  BY <1>1 DEF RefuseImage, registers, IInv, TypeOK, FreshInstruction,
              OneReadPastTheEnd, CellsStayStorable, StorableImage
<1>2. CASE UNCHANGED vars \/ Exited
  BY <1>2, StutterIInv DEF Exited
<1>3. QED
  BY <1>1, <1>2, LoadImageIInv, FetchIInv, DecodeIInv, ArithmeticIInv, StoreIInv,
     OtherIInv DEF Next, Run

-----------------------------------------------------------------------------
\* The invariants of the specification

\* Registers and locals keep their types; the program counter never passes
\* the end of memory by more than one.
THEOREM TypeCorrect == Spec => []TypeOK
<1>1. Spec => []IInv
  BY InitIInv, NextIInv, PTL DEF Spec
<1>2. IInv => TypeOK
  BY DEF IInv
<1>3. QED
  BY <1>1, <1>2, PTL

\* Whatever is executed is the word memory holds at the address the program
\* counter came from, inside memory.
THEOREM InstructionsAreFresh == Spec => []FreshInstruction
<1>1. Spec => []IInv
  BY InitIInv, NextIInv, PTL DEF Spec
<1>2. IInv => FreshInstruction
  BY DEF IInv
<1>3. QED
  BY <1>1, <1>2, PTL

\* The late range check costs at most one read past the end of memory.
THEOREM ReadsStayClose == Spec => []OneReadPastTheEnd
<1>1. Spec => []IInv
  BY InitIInv, NextIInv, PTL DEF Spec
<1>2. IInv => OneReadPastTheEnd
  BY DEF IInv
<1>3. QED
  BY <1>1, <1>2, PTL

\* A program of three digit words can never put a longer one into memory.
THEOREM StoresKeepThreeDigits == Spec => []CellsStayStorable
<1>1. Spec => []IInv
  BY InitIInv, NextIInv, PTL DEF Spec
<1>2. IInv => CellsStayStorable
  BY DEF IInv
<1>3. QED
  BY <1>1, <1>2, PTL

-----------------------------------------------------------------------------
\* What a word spells

LEMMA DivisionIsUnique ==
  ASSUME NEW q \in Nat, NEW r \in 0 .. Radix - 1,
         NEW p \in Nat, NEW s \in 0 .. Radix - 1,
         Radix * q + r = Radix * p + s
  PROVE  q = p /\ r = s
<1>1. Radix \in Nat
  BY MachineAssumption
<1>2. ASSUME NEW x \in Nat, NEW y \in Nat, x < y
      PROVE  Radix * x + Radix <= Radix * y
  <2>1. y - x - 1 \in Nat
    BY <1>2
  <2>2. Radix * (y - x - 1) \in Nat
    BY <1>1, <2>1
  <2>3. Radix * y = Radix * x + Radix + Radix * (y - x - 1)
    BY <1>1, <1>2
  <2>4. Radix * x \in Nat /\ Radix * y \in Nat
    BY <1>1
  <2>5. QED
    BY <1>1, <2>2, <2>3, <2>4
<1>3. Radix * q \in Nat /\ Radix * p \in Nat
  BY <1>1
<1>4. ~(q < p) /\ ~(p < q)
  BY <1>1, <1>2, <1>3
<1>5. q = p
  BY <1>4
<1>6. QED
  BY <1>3, <1>5

\* 901 and 902 are digit 9 with operand 1 and 2, and nothing else is.
LEMMA IOWords ==
  ASSUME NEW w \in Word
  PROVE  /\ w = OP_LMC_IO_OP_INP <=> w \div Radix = 9 /\ w % Radix = 1
         /\ w = OP_LMC_IO_OP_OUT <=> w \div Radix = 9 /\ w % Radix = 2
<1>1. /\ w \div Radix \in Nat /\ w % Radix \in 0 .. Radix - 1
      /\ w = Radix * (w \div Radix) + (w % Radix)
  BY WordSplits
<1>2. Radix \in Nat /\ 3 <= Radix
  BY MachineAssumption
<1>3. ASSUME NEW d \in {1, 2}
      PROVE  w = 9 * Radix + d <=> w \div Radix = 9 /\ w % Radix = d
  <2>1. d \in 0 .. Radix - 1
    BY <1>2
  <2>2. ASSUME w = 9 * Radix + d PROVE w \div Radix = 9 /\ w % Radix = d
    <3>1. Radix * (w \div Radix) + (w % Radix) = Radix * 9 + d
      BY <1>1, <1>2, <2>2
    <3>2. QED
      BY <1>1, <2>1, <3>1, DivisionIsUnique
  <2>3. ASSUME w \div Radix = 9, w % Radix = d PROVE w = 9 * Radix + d
    BY <1>1, <1>2, <2>3
  <2>4. QED
    BY <2>2, <2>3
<1>4. QED
  BY <1>3 DEF OP_LMC_IO_OP_INP, OP_LMC_IO_OP_OUT

\* No word has the digits 901 or 902 before its operand.
LEMMA DigitsAreSmall ==
  ASSUME NEW w \in Word
  PROVE  w \div Radix < OP_LMC_IO_OP_INP
<1>1. WordMax \in Word /\ Radix \in Nat /\ 3 <= Radix
  BY MachineAssumption DEF Word
<1>2. /\ w \div Radix \in Nat /\ w % Radix \in 0 .. Radix - 1
      /\ w = Radix * (w \div Radix) + (w % Radix)
  BY WordSplits
<1>3. /\ WordMax \div Radix \in Nat /\ WordMax % Radix \in 0 .. Radix - 1
      /\ WordMax = Radix * (WordMax \div Radix) + (WordMax % Radix)
  BY <1>1, WordSplits
<1>4. w \div Radix <= WordMax \div Radix
  <2> DEFINE q == w \div Radix
             p == WordMax \div Radix
  <2> HIDE DEF q, p
  <2>1. SUFFICES ASSUME p < q PROVE FALSE
    BY <1>2, <1>3 DEF q, p
  <2>2. q - p - 1 \in Nat
    BY <1>2, <1>3, <2>1 DEF q, p
  <2>3. Radix * (q - p - 1) \in Nat
    BY <1>1, <2>2
  <2>4. Radix * q = Radix * p + Radix + Radix * (q - p - 1)
    BY <1>1, <1>2, <1>3, <2>1 DEF q, p
  <2>5. Radix * q \in Nat /\ Radix * p \in Nat
    BY <1>1, <1>2, <1>3 DEF q, p
  <2>6. w > WordMax
    BY <1>1, <1>2, <1>3, <2>3, <2>4, <2>5 DEF q, p
  <2>7. QED
    BY <1>1, <2>6 DEF Word
<1>5. QED
  BY <1>2, <1>3, <1>4, MachineAssumption DEF OP_LMC_IO_OP_INP

\* What decoding a word says about its digit and operand.
LEMMA Decoded ==
  ASSUME NEW w \in Word
  PROVE  /\ w \div Radix \in Nat
         /\ OpcodeOf(w) \in 0 .. 8 => w \div Radix = OpcodeOf(w)
         /\ OpcodeOf(w) = OP_LMC_IO_OP_INP <=> w \div Radix = 9 /\ w % Radix = 1
         /\ OpcodeOf(w) = OP_LMC_IO_OP_OUT <=> w \div Radix = 9 /\ w % Radix = 2
         /\ OpcodeOf(w) = OP_LMC_IO_OP
              <=> w \div Radix = 9 /\ w % Radix \notin {1, 2}
         /\ OpcodeOf(w) \notin Operations \cup {OP_LMC_IO_OP}
              => w \div Radix = 4 \/ w \div Radix > 9
<1>1. w \div Radix \in Nat /\ w \div Radix < OP_LMC_IO_OP_INP
  BY WordSplits, DigitsAreSmall
<1>2. Radix \in Nat /\ 3 <= Radix
  BY MachineAssumption
<1>3. CASE w \in {OP_LMC_IO_OP_INP, OP_LMC_IO_OP_OUT}
  <2>1. w \div Radix = OP_LMC_IO_OP /\ OpcodeOf(w) = w
    BY <1>3, IOWords DEF OpcodeOf, OP_LMC_IO_OP
  <2>2. QED
    BY <1>2, <1>3, <2>1, IOWords
    DEF OP_LMC_IO_OP, OP_LMC_IO_OP_INP, OP_LMC_IO_OP_OUT, Operations
<1>4. CASE w \notin {OP_LMC_IO_OP_INP, OP_LMC_IO_OP_OUT}
  <2>1. OpcodeOf(w) = w \div Radix
    BY <1>4 DEF OpcodeOf
  <2>2. ~(w \div Radix = 9 /\ w % Radix \in {1, 2})
    BY <1>4, IOWords
  <2>3. w \div Radix # OP_LMC_IO_OP_OUT
    BY <1>1, <1>2 DEF OP_LMC_IO_OP_INP, OP_LMC_IO_OP_OUT
  <2>4. QED
    BY <1>1, <2>1, <2>2, <2>3
    DEF Operations, OP_LMC_HLT, OP_LMC_ADD, OP_LMC_SUB, OP_LMC_STA, OP_LMC_LDA,
        OP_LMC_BRA, OP_LMC_BRZ, OP_LMC_BRP, OP_LMC_IO_OP
<1>5. QED
  BY <1>3, <1>4

-----------------------------------------------------------------------------
\* Why a run is about to fail.  Without this the refinement is not inductive:
\* an error found while fetching or decoding must be one the Little Man has.

Explained ==
  /\ stage = "main" => result = "INDETERMINATE"
  /\ stage = "fetch" => result \notin {"ERROR", "HALT"}
  /\ stage = "decode" /\ result = "ERROR" => reg_PC - 1 \notin Address
  /\ stage = "execute" /\ result = "ERROR" =>
       \/ reg_PC - 1 \notin Address
       \/ /\ reg_PC - 1 \in Address
          /\ memory[reg_PC - 1] \div Radix = 9
          /\ memory[reg_PC - 1] % Radix \notin {1, 2}

RInv == IInv /\ Explained

LEMMA InitRInv == Init => RInv
  BY InitIInv DEF Init, RInv, Explained

LEMMA CompleteExplained ==
  ASSUME NEW res, NEW pc, Complete(res, pc), stage = "execute"
  PROVE  Explained'
  BY DEF Complete, Explained

LEMMA NextRInv == RInv /\ [Next]_vars => RInv'
<1> SUFFICES ASSUME RInv, [Next]_vars PROVE RInv'
  OBVIOUS
<1>1. IInv /\ IInv' /\ Explained
  BY NextIInv DEF RInv
<1>2. CASE RefuseImage \/ LoadImage
  BY <1>1, <1>2 DEF RefuseImage, LoadImage, Explained, RInv
<1>3. CASE Fetch
  <2>1. reg_PC \in Nat /\ reg_PC' = reg_PC + 1 /\ EXECUTABLE_SIZE \in Nat
    BY <1>1, <1>3, MachineAssumption DEF Fetch, NextPC, IInv, TypeOK
  <2>2. result' = "ERROR" => reg_PC' - 1 \notin Address
    BY <1>1, <1>3, <2>1 DEF Fetch, Explained, PCOutOfRange, Address
  <2>3. QED
    BY <1>1, <1>3, <2>2 DEF Fetch, Explained, RInv
<1>4. CASE Decode
  <2>1. reg_CIR \in Word
    BY <1>1 DEF IInv, TypeOK
  <2>2. CASE result = "ERROR"
    BY <1>1, <1>4, <2>2 DEF Decode, Explained, RInv
  <2>3. CASE result # "ERROR"
    <3>1. reg_PC - 1 \in Address /\ reg_CIR = memory[reg_PC - 1]
      BY <1>1, <1>4, <2>3 DEF Decode, IInv, FreshInstruction
    <3>2. result' = "ERROR" => OpcodeOf(reg_CIR) = OP_LMC_IO_OP
      BY <1>4, <2>1, <2>3, WordSplits, MachineAssumption DEF Decode
    <3>3. result' = "ERROR" =>
            reg_CIR \div Radix = 9 /\ reg_CIR % Radix \notin {1, 2}
      BY <2>1, <3>2, Decoded
    <3>4. QED
      BY <1>1, <1>4, <3>1, <3>3 DEF Decode, Explained, RInv
  <2>4. QED
    BY <2>2, <2>3
<1>5. CASE \/ op_add \/ op_sub \/ op_sta \/ op_lda \/ op_bra \/ op_brz \/ op_brp \/ op_inp
           \/ op_out \/ op_hlt \/ InvalidOpcode \/ SkipExecute
  <2>1. stage = "execute"
    BY <1>5 DEF op_add, op_sub, op_sta, op_lda, op_bra, op_brz, op_brp, op_inp, op_out,
                op_hlt, InvalidOpcode, SkipExecute, Executing
  <2>2. PICK res \in Results, pc \in {reg_PC, reg_MAR} : Complete(res, pc)
    BY <1>5 DEF op_add, op_sub, op_sta, op_lda, op_bra, op_brz, op_brp, op_inp, op_out,
                op_hlt, InvalidOpcode, SkipExecute, Accumulate, BranchIf, Results
  <2>3. QED
    BY <1>1, <2>1, <2>2, CompleteExplained DEF RInv
<1>6. CASE Exited \/ UNCHANGED vars
  BY <1>1, <1>6 DEF Exited, vars, registers, Explained, RInv
<1>7. QED
  BY <1>2, <1>3, <1>4, <1>5, <1>6 DEF Next, Run

-----------------------------------------------------------------------------
\* Steps of the Little Man

\* The instance of the abstract machine has the same words and addresses.
LEMMA SameMachine ==
  /\ LM!Address = Address /\ LM!Word = Word /\ LM!Storable = Storable
  /\ \A v : LM!Wrapped(v) = Wrapped(v)
  BY DEF LM!Address, Address, LM!Word, Word, LM!Storable, Storable, LM!Wrapped, Wrapped,
         LM!IntMin, IntMin

\* While an instruction executes, the Little Man looks at the same word.
LEMMA Obeyed ==
  ASSUME RInv, stage = "execute", result # "ERROR"
  PROVE  /\ reg_PC - 1 \in Address /\ reg_PC \in Nat
         /\ reg_CIR = memory[reg_PC - 1] /\ reg_CIR \in Word
         /\ LM!Digit = reg_CIR \div Radix
         /\ LM!Operand = reg_MAR
         /\ reg_MAR = reg_CIR % Radix
         /\ opcode = OpcodeOf(reg_CIR)
         /\ \A digits : LM!Obeying(digits) <=> LM!Digit \in digits
<1>1. IInv
  BY DEF RInv
<1>2. /\ reg_PC - 1 \in Address /\ reg_PC \in Nat
      /\ reg_CIR = memory[reg_PC - 1] /\ reg_CIR \in Word
      /\ reg_MAR = reg_CIR % Radix /\ opcode = OpcodeOf(reg_CIR)
  BY <1>1 DEF IInv, FreshInstruction, TypeOK
<1>3. LM!Digit = reg_CIR \div Radix /\ LM!Operand = reg_MAR
  BY <1>2 DEF LM!Digit, LM!Operand
<1>4. QED
  BY <1>2, <1>3, SameMachine DEF LM!Obeying

\* What Complete does to the program counter and status of the Little Man.
LEMMA CompleteMaps ==
  ASSUME RInv, stage = "execute", NEW pc \in 0 .. EXECUTABLE_SIZE,
         NEW res \in Results \ {"INDETERMINATE"}, Complete(res, pc)
  PROVE  /\ (IF stage' \in {"decode", "execute"} THEN reg_PC' - 1 ELSE reg_PC') = pc
         /\ result' = res
         /\ stage' = IF res \in {"HALT", "ERROR"} THEN "exit" ELSE "fetch"
  BY MachineAssumption DEF Complete

\* An instruction that goes on to the next one.
LEMMA AdvanceMaps ==
  ASSUME RInv, stage = "execute", result # "ERROR",
         NEW res \in {"ACC_CHANGED", "ACC_UNCHANGED"}, Complete(res, reg_PC)
  PROVE  LM!Advance
<1>1. reg_PC \in 0 .. EXECUTABLE_SIZE
  BY ExecutingState DEF RInv
<1>2. res \in Results \ {"INDETERMINATE"}
  BY DEF Results
<1>3. /\ (IF stage' \in {"decode", "execute"} THEN reg_PC' - 1 ELSE reg_PC') = reg_PC
      /\ stage' = "fetch"
  BY <1>1, <1>2, CompleteMaps
<1>4. reg_PC = (reg_PC - 1) + 1
  BY <1>1, MachineAssumption
<1>5. QED
  BY <1>3, <1>4 DEF LM!Advance

\* An instruction that cannot be obeyed.
LEMMA FaultMaps ==
  ASSUME RInv, stage = "execute", Complete("ERROR", reg_PC),
         UNCHANGED <<memory, reg_ACC, io>>,
         reg_PC - 1 \notin Address \/ LM!Meaningless
  PROVE  LM!Fault
<1>1. reg_PC \in Nat
  BY DEF RInv, IInv, TypeOK
<1>2. reg_PC' = reg_PC /\ stage' = "exit" /\ result' = "ERROR"
  BY DEF Complete
<1>3. reg_PC = (reg_PC - 1) + 1
  BY <1>1
<1>4. QED
  BY <1>2, <1>3, SameMachine DEF LM!Fault

LEMMA ArithmeticMaps == RInv /\ (op_add \/ op_sub) => LM!Arithmetic
<1> SUFFICES ASSUME RInv, op_add \/ op_sub PROVE LM!Arithmetic
  OBVIOUS
<1>1. stage = "execute" /\ result # "ERROR"
  BY DEF op_add, op_sub, Executing
<1>2. /\ reg_ACC \in Register /\ memory[reg_MAR] \in Word
      /\ Wrapped(reg_ACC + memory[reg_MAR]) \in Register
      /\ Wrapped(reg_ACC - memory[reg_MAR]) \in Register
  BY <1>1, ExecutingState, WrappedIsRegister DEF RInv
<1>3. ~(Wrapped(reg_ACC + memory[reg_MAR]) > IntMax)
      /\ ~(Wrapped(reg_ACC - memory[reg_MAR]) < IntMin)
  BY <1>2, MachineAssumption DEF Register, IntMin
<1>4. CASE op_add
  <2>1. opcode = 1
    BY <1>4 DEF op_add, Executing, OP_LMC_ADD
  <2>2. LM!Digit = 1 /\ LM!Operand = reg_MAR /\ LM!Obeying({1, 2})
    BY <1>1, <2>1, Obeyed, Decoded
  <2>3. /\ reg_ACC' = Wrapped(reg_ACC + memory[reg_MAR])
        /\ Complete("ACC_CHANGED", reg_PC) /\ UNCHANGED <<memory, io>>
    BY <1>3, <1>4 DEF op_add, Accumulate
  <2>4. LM!Advance
    BY <1>1, <2>3, AdvanceMaps
  <2>5. QED
    BY <2>2, <2>3, <2>4, SameMachine DEF LM!Arithmetic, LM!Exact
<1>5. CASE op_sub
  <2>1. opcode = 2
    BY <1>5 DEF op_sub, Executing, OP_LMC_SUB
  <2>2. LM!Digit = 2 /\ LM!Operand = reg_MAR /\ LM!Obeying({1, 2})
    BY <1>1, <2>1, Obeyed, Decoded
  <2>3. /\ reg_ACC' = Wrapped(reg_ACC - memory[reg_MAR])
        /\ Complete("ACC_CHANGED", reg_PC) /\ UNCHANGED <<memory, io>>
    BY <1>3, <1>5 DEF op_sub, Accumulate
  <2>4. LM!Advance
    BY <1>1, <2>3, AdvanceMaps
  <2>5. QED
    BY <2>2, <2>3, <2>4, SameMachine DEF LM!Arithmetic, LM!Exact
<1>6. QED
  BY <1>4, <1>5

\* A store that does not fit three digits is a fault.
LEMMA StoreMaps == RInv /\ op_sta => LM!Store \/ LM!Fault
<1> SUFFICES ASSUME RInv, op_sta PROVE LM!Store \/ LM!Fault
  OBVIOUS
<1>1. stage = "execute" /\ result # "ERROR" /\ opcode = 3
  BY DEF op_sta, Executing, OP_LMC_STA
<1>2. LM!Digit = 3 /\ LM!Operand = reg_MAR /\ LM!Obeying({3})
  BY <1>1, Obeyed, Decoded
<1>3. reg_ACC \in Register
  BY <1>1, ExecutingState DEF RInv
<1>4. FitsMemory(reg_ACC) <=> reg_ACC \in Storable
  BY <1>3, MachineAssumption DEF FitsMemory, Storable, Register, IntMin
<1>5. CASE FitsMemory(reg_ACC)
  <2>1. /\ memory' = [memory EXCEPT ![reg_MAR] = reg_ACC]
        /\ Complete("ACC_UNCHANGED", reg_PC) /\ UNCHANGED <<reg_ACC, io>>
    BY <1>5 DEF op_sta
  <2>2. LM!Advance
    BY <1>1, <2>1, AdvanceMaps
  <2>3. QED
    BY <1>2, <1>4, <1>5, <2>1, <2>2, SameMachine DEF LM!Store
<1>6. CASE ~FitsMemory(reg_ACC)
  <2>1. Complete("ERROR", reg_PC) /\ UNCHANGED <<memory, reg_ACC, io>>
    BY <1>6 DEF op_sta
  <2>2. LM!Meaningless
    BY <1>2, <1>4, <1>6, SameMachine DEF LM!Meaningless
  <2>3. QED
    BY <1>1, <2>1, <2>2, FaultMaps
<1>7. QED
  BY <1>5, <1>6

LEMMA LoadMaps == RInv /\ op_lda => LM!Fetch
<1> SUFFICES ASSUME RInv, op_lda PROVE LM!Fetch
  OBVIOUS
<1>1. stage = "execute" /\ result # "ERROR" /\ opcode = 5
  BY DEF op_lda, Executing, OP_LMC_LDA
<1>2. LM!Operand = reg_MAR /\ LM!Obeying({5})
  BY <1>1, Obeyed, Decoded
<1>3. LM!Advance
  BY <1>1, AdvanceMaps DEF op_lda
<1>4. QED
  BY <1>2, <1>3 DEF op_lda, LM!Fetch

LEMMA BranchMaps == RInv /\ (op_bra \/ op_brz \/ op_brp) => LM!Branch
<1> SUFFICES ASSUME RInv, op_bra \/ op_brz \/ op_brp PROVE LM!Branch
  OBVIOUS
<1>1. /\ stage = "execute" /\ result # "ERROR" /\ opcode \in {6, 7, 8}
      /\ op_bra => opcode = 6
      /\ op_brz => opcode = 7
      /\ op_brp => opcode = 8
  BY DEF op_bra, op_brz, op_brp, Executing, OP_LMC_BRA, OP_LMC_BRZ, OP_LMC_BRP
<1>2. LM!Digit = opcode /\ LM!Operand = reg_MAR /\ LM!Obeying({6, 7, 8})
  BY <1>1, Obeyed, Decoded
<1>3. /\ LM!Jumps => Complete("BRANCHED", reg_MAR)
      /\ ~LM!Jumps => Complete("ACC_UNCHANGED", reg_PC)
      /\ UNCHANGED <<memory, reg_ACC, io>>
  <2>1. CASE op_bra
    BY <1>1, <1>2, <2>1 DEF op_bra, BranchIf, LM!Jumps
  <2>2. CASE op_brz
    BY <1>1, <1>2, <2>2 DEF op_brz, BranchIf, LM!Jumps
  <2>3. CASE op_brp
    BY <1>1, <1>2, <2>3 DEF op_brp, BranchIf, Positive, LM!Jumps
  <2>4. QED
    BY <2>1, <2>2, <2>3
<1>4. /\ reg_PC \in 0 .. EXECUTABLE_SIZE /\ reg_MAR \in 0 .. EXECUTABLE_SIZE
  BY <1>1, ExecutingState DEF RInv
<1>5. CASE LM!Jumps
  <2>1. /\ (IF stage' \in {"decode", "execute"} THEN reg_PC' - 1 ELSE reg_PC') = reg_MAR
        /\ stage' = "fetch"
    BY <1>1, <1>3, <1>4, <1>5, CompleteMaps DEF Results
  <2>2. QED
    BY <1>1, <1>2, <1>3, <1>5, <2>1 DEF LM!Branch
<1>6. CASE ~LM!Jumps
  <2>1. LM!Advance
    BY <1>1, <1>3, <1>6, AdvanceMaps
  <2>2. QED
    BY <1>2, <1>3, <1>6, <2>1 DEF LM!Branch, LM!Advance
<1>7. QED
  BY <1>5, <1>6

LEMMA InputOutputMaps == RInv /\ (op_inp \/ op_out) => LM!Input \/ LM!Output
<1> SUFFICES ASSUME RInv, op_inp \/ op_out PROVE LM!Input \/ LM!Output
  OBVIOUS
<1>1. stage = "execute" /\ result # "ERROR"
  BY DEF op_inp, op_out, Executing
<1>2. CASE op_inp
  <2>1. opcode = OP_LMC_IO_OP_INP /\ Complete("ACC_CHANGED", reg_PC)
    BY <1>2 DEF op_inp, Executing
  <2>2. LM!Operand = 1 /\ LM!Obeying({9})
    BY <1>1, <2>1, Obeyed, Decoded
  <2>3. LM!Advance
    BY <1>1, <2>1, AdvanceMaps
  <2>4. QED
    BY <1>2, <2>2, <2>3 DEF op_inp, LM!Input
<1>3. CASE op_out
  <2>1. opcode = OP_LMC_IO_OP_OUT /\ Complete("ACC_UNCHANGED", reg_PC)
    BY <1>3 DEF op_out, Executing
  <2>2. LM!Operand = 2 /\ LM!Obeying({9})
    BY <1>1, <2>1, Obeyed, Decoded
  <2>3. LM!Advance
    BY <1>1, <2>1, AdvanceMaps
  <2>4. QED
    BY <1>3, <2>2, <2>3 DEF op_out, LM!Output
<1>4. QED
  BY <1>2, <1>3

LEMMA HaltMaps == RInv /\ op_hlt => LM!Halt
<1> SUFFICES ASSUME RInv, op_hlt PROVE LM!Halt
  OBVIOUS
<1>1. stage = "execute" /\ result # "ERROR" /\ opcode = 0
  BY DEF op_hlt, Executing, OP_LMC_HLT
<1>2. LM!Obeying({0})
  BY <1>1, Obeyed, Decoded
<1>3. reg_PC \in Nat /\ reg_PC = (reg_PC - 1) + 1
  BY <1>1, Obeyed
<1>4. reg_PC' = reg_PC /\ stage' = "exit" /\ result' = "HALT"
  BY DEF op_hlt, Complete
<1>5. UNCHANGED <<memory, reg_ACC, io>>
  BY DEF op_hlt
<1>6. QED
  BY <1>1, <1>2, <1>3, <1>4, <1>5 DEF LM!Halt

LEMMA ErrorMaps == RInv /\ (InvalidOpcode \/ SkipExecute) => LM!Fault
<1> SUFFICES ASSUME RInv, InvalidOpcode \/ SkipExecute PROVE LM!Fault
  OBVIOUS
<1>1. /\ stage = "execute" /\ Complete("ERROR", reg_PC)
      /\ UNCHANGED <<memory, reg_ACC, io>>
  BY DEF InvalidOpcode, SkipExecute
<1>2. CASE InvalidOpcode
  <2>1. result # "ERROR" /\ opcode \notin Operations
    BY <1>2 DEF InvalidOpcode
  <2>2. /\ LM!Digit = reg_CIR \div Radix /\ LM!Operand = reg_CIR % Radix
        /\ reg_CIR \in Word /\ OpcodeOf(reg_CIR) \notin Operations
    BY <1>1, <2>1, Obeyed
  <2>3. \/ LM!Digit = 4 \/ LM!Digit > 9
        \/ LM!Digit = 9 /\ LM!Operand \notin {1, 2}
    BY <2>2, Decoded
  <2>4. QED
    BY <1>1, <2>3, FaultMaps DEF LM!Meaningless
<1>3. CASE SkipExecute
  <2>1. \/ reg_PC - 1 \notin Address
        \/ /\ memory[reg_PC - 1] \div Radix = 9
           /\ memory[reg_PC - 1] % Radix \notin {1, 2}
    BY <1>3 DEF SkipExecute, RInv, Explained
  <2>2. reg_PC - 1 \notin Address \/ LM!Meaningless
    BY <1>1, <2>1 DEF LM!Meaningless, LM!Digit, LM!Operand
  <2>3. QED
    BY <1>1, <2>2, FaultMaps
<1>4. QED
  BY <1>2, <1>3

\* Starting the machine, and the steps of the cycle it does not see.
LEMMA OtherMaps ==
  RInv /\ (RefuseImage \/ LoadImage \/ Fetch \/ Decode \/ Exited \/ UNCHANGED vars)
    => [LM!Next]_(LM!vars)
<1> SUFFICES ASSUME RInv,
                    RefuseImage \/ LoadImage \/ Fetch \/ Decode \/ Exited \/ UNCHANGED vars
             PROVE  [LM!Next]_(LM!vars)
  OBVIOUS
<1>1. CASE RefuseImage
  <2>1. LM!Refuse
    BY <1>1 DEF RefuseImage, RInv, Explained, LM!Refuse
  <2>2. QED
    BY <2>1 DEF LM!Next
<1>2. CASE LoadImage
  <2>1. memory' \in [Address -> Word]
    BY <1>2, LoadImageIInv DEF RInv, IInv, TypeOK
  <2>2. LM!Boot
    BY <1>2, <2>1, SameMachine DEF LoadImage, LM!Boot
  <2>3. QED
    BY <2>2 DEF LM!Next
<1>3. CASE Fetch
  <2>1. reg_PC \in Nat /\ reg_PC' - 1 = reg_PC
    BY <1>3 DEF Fetch, NextPC, RInv, IInv, TypeOK
  <2>2. UNCHANGED LM!vars
    BY <1>3, <2>1 DEF Fetch, LM!vars
  <2>3. QED
    BY <2>2
<1>4. CASE Decode
  <2>1. UNCHANGED LM!vars
    BY <1>4 DEF Decode, LM!vars
  <2>2. QED
    BY <2>1
<1>5. CASE Exited \/ UNCHANGED vars
  <2>1. UNCHANGED LM!vars
    BY <1>5 DEF Exited, vars, registers, LM!vars
  <2>2. QED
    BY <2>1
<1>6. QED
  BY <1>1, <1>2, <1>3, <1>4, <1>5

LEMMA StepMaps == RInv /\ [Next]_vars => [LM!Next]_(LM!vars)
  BY ArithmeticMaps, StoreMaps, LoadMaps, BranchMaps, InputOutputMaps, HaltMaps,
     ErrorMaps, OtherMaps DEF Next, Run, LM!Next

LEMMA InitMaps == Init => LM!Init
  BY SameMachine DEF Init, LM!Init

\* Between two fetches the machine obeys exactly one instruction, the one the
\* Little Man obeys, and an error leaves no trace.
THEOREM ImplementsTheLittleMan == Spec => IsALittleMan
<1>1. Spec => []RInv
  BY InitRInv, NextRInv, PTL DEF Spec
<1>2. QED
  BY <1>1, InitMaps, StepMaps, PTL DEF Spec, IsALittleMan, LM!Spec

-----------------------------------------------------------------------------
\* Errors

\* An error ends the run: nothing in the same cycle overrides it, and it
\* leaves memory, accumulator and output as they were.
THEOREM ErrorsAreFinal == Spec => ErrorIsFinal
<1> DEFINE Final == result = "ERROR" \/ result' = "ERROR"
                      => result' = "ERROR" /\ UNCHANGED <<memory, reg_ACC, io>>
<1>1. RInv /\ [Next]_vars => [Final]_vars
  <2> SUFFICES ASSUME RInv, Next, Final \/ ~Final PROVE Final
    OBVIOUS
  <2>1. CASE RefuseImage \/ LoadImage \/ Fetch \/ Decode \/ Exited
    BY <2>1 DEF RInv, Explained, RefuseImage, LoadImage, Fetch, Decode, Exited, vars,
                registers
  <2>2. CASE op_add \/ op_sub
    BY <2>2 DEF op_add, op_sub, Executing, Accumulate, Complete
  <2>3. CASE op_sta
    BY <2>3 DEF op_sta, Executing, Complete
  <2>4. CASE op_lda \/ op_inp \/ op_out \/ op_hlt
    BY <2>4 DEF op_lda, op_inp, op_out, op_hlt, Executing, Complete
  <2>5. CASE op_bra \/ op_brz \/ op_brp
    BY <2>5 DEF op_bra, op_brz, op_brp, Executing, BranchIf, Complete
  <2>6. CASE InvalidOpcode \/ SkipExecute
    BY <2>6 DEF InvalidOpcode, SkipExecute, Complete
  <2>7. QED
    BY <2>1, <2>2, <2>3, <2>4, <2>5, <2>6 DEF Next, Run
<1>2. Spec => []RInv
  BY InitRInv, NextRInv, PTL DEF Spec
<1>3. QED
  BY <1>1, <1>2, PTL DEF Spec, ErrorIsFinal
=============================================================================
