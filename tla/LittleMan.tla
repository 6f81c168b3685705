------------------------------ MODULE LittleMan ------------------------------
(***************************************************************************)
(* What the virtual machine promises: a Little Man Computer that obeys one *)
(* instruction per step.  It has no instruction register, no result codes  *)
(* and no order of checks; an instruction that cannot be obeyed stops the  *)
(* machine and leaves no trace in memory, accumulator or output.  What     *)
(* happens when a sum leaves the range of an int is left open: it may be   *)
(* such an error, as the program means it to be, or wrap around.  Which of *)
(* the two it is is the question of LMVM's OverflowIsAnError.              *)
(***************************************************************************)
EXTENDS LMCMachine

CONSTANTS Inputs, None

VARIABLES mem, acc, pc, status, io

vars == <<mem, acc, pc, status, io>>

Init == /\ mem = [a \in Address |-> 0]
        /\ acc = 0
        /\ pc = 0
        /\ status = "off"
        /\ io = None

Boot == /\ status = "off"
        /\ status' = "running"
        /\ mem' \in [Address -> Word]
        /\ UNCHANGED <<acc, pc, io>>

\* The image was refused before the machine was switched on.
Refuse == /\ status = "off"
          /\ status' = "error"
          /\ UNCHANGED <<mem, acc, pc, io>>

Digit   == mem[pc] \div Radix
Operand == mem[pc] % Radix

Obeying(digits) == status = "running" /\ pc \in Address /\ Digit \in digits

Advance == pc' = pc + 1 /\ UNCHANGED status

Exact == IF Digit = 1 THEN acc + mem[Operand] ELSE acc - mem[Operand]

Arithmetic ==
  /\ Obeying({1, 2})
  /\ \/ acc' = Wrapped(Exact) /\ Advance
     \/ Exact \notin Register /\ acc' = acc /\ pc' = pc + 1 /\ status' = "error"
  /\ UNCHANGED <<mem, io>>

Store == /\ Obeying({3})
         /\ acc \in Storable
         /\ mem' = [mem EXCEPT ![Operand] = acc]
         /\ Advance
         /\ UNCHANGED <<acc, io>>

Fetch == /\ Obeying({5})
         /\ acc' = mem[Operand]
         /\ Advance
         /\ UNCHANGED <<mem, io>>

Jumps == \/ Digit = 6
         \/ Digit = 7 /\ acc = 0
         \/ Digit = 8 /\ acc >= 0

Branch == /\ Obeying({6, 7, 8})
          /\ pc' = IF Jumps THEN Operand ELSE pc + 1
          /\ UNCHANGED <<mem, acc, status, io>>

Input == /\ Obeying({9}) /\ Operand = 1
         /\ acc' \in Inputs
         /\ io' = <<"in", acc'>>
         /\ Advance
         /\ UNCHANGED mem

Output == /\ Obeying({9}) /\ Operand = 2
          /\ io' = <<"out", acc>>
          /\ Advance
          /\ UNCHANGED <<mem, acc>>

Halt == /\ Obeying({0})
        /\ pc' = pc + 1
        /\ status' = "halted"
        /\ UNCHANGED <<mem, acc, io>>

Meaningless == \/ Digit = 4
               \/ Digit > 9
               \/ Digit = 9 /\ Operand \notin {1, 2}
               \/ Digit = 3 /\ acc \notin Storable

Fault == /\ status = "running"
         /\ pc \notin Address \/ Meaningless
         /\ pc' = pc + 1
         /\ status' = "error"
         /\ UNCHANGED <<mem, acc, io>>

Next == \/ Boot \/ Refuse
        \/ Arithmetic \/ Store \/ Fetch \/ Branch
        \/ Input \/ Output \/ Halt \/ Fault

Spec == Init /\ [][Next]_vars
=============================================================================
