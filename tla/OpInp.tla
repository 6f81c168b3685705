-------------------------------- MODULE OpInp --------------------------------
(***************************************************************************)
(* The inside of op_inp: the loop that reads standard input through fgets  *)
(* until it finds a number.  The buffer is as long as the longest int has  *)
(* digits, so one line may be several chunks and one number is not always  *)
(* one line.  LMVM shows op_inp as one step that returns some number; this *)
(* module says which.                                                      *)
(***************************************************************************)
EXTENDS Integers, FiniteSets, SequencesExt

CONSTANTS
  IntMax,     \* INT_MAX
  Base,       \* 10
  Minus, Plus, Blank, Newline, Letter,  \* characters; the digits are 0 .. Base - 1
  Lines,      \* what a user may type before Return
  MaxLines,   \* bound on the lines typed
  MaxNumbers  \* bound on the INPs executed

Digit  == 0 .. Base - 1
Others == {Minus, Plus, Blank, Letter}
IntMin == -IntMax - 1
Register == IntMin .. IntMax

ASSUME InpAssumption ==
  /\ IntMax \in Nat /\ Base \in Nat /\ 1 < Base /\ Base <= IntMax
  /\ IsInjective(<<Minus, Plus, Blank, Newline, Letter>>)
  /\ {Minus, Plus, Blank, Newline, Letter} \cap Digit = {}
  /\ Lines \subseteq Seq(Digit \cup Others)
  /\ MaxLines \in Nat /\ MaxNumbers \in Nat

VARIABLES
  stdin,    \* the characters not yet read
  closed,   \* no more will come
  asking,   \* op_inp is in its loop
  numbers,  \* what the INPs so far have put into the accumulator
  typed     \* the lines typed so far

vars == <<stdin, closed, asking, numbers, typed>>

Init == /\ stdin = <<>> /\ closed = FALSE
        /\ asking = FALSE
        /\ numbers = <<>> /\ typed = <<>>

-----------------------------------------------------------------------------
\* accept_digits: how often an int can be divided by the base before it is 0,
\* which is once and once more for every power of the base up to it.
Digits(v) == 1 + Cardinality({n \in 1 .. v : Base ^ n <= v})
accept_digits == IF Digits(-IntMin) > Digits(IntMax) THEN Digits(-IntMin) ELSE Digits(IntMax)

\* fgets: as many characters as fit, but none after a Newline.  While nothing
\* of this has been typed it waits.
ChunkEnds == {n \in DOMAIN stdin : stdin[n] = Newline \/ n = accept_digits}
ChunkLength == CHOOSE n \in ChunkEnds : \A m \in ChunkEnds : n <= m
Chunk == SubSeq(stdin, 1, ChunkLength)

\* strtol: blanks, a sign, then the digits up to the first other character.
Blanks(text) == CHOOSE n \in 0 .. Len(text) : /\ \A i \in 1 .. n : text[i] = Blank
                                              /\ n < Len(text) => text[n + 1] # Blank
Signed(text) == Blanks(text) < Len(text) /\ text[Blanks(text) + 1] \in {Minus, Plus}
FirstDigit(text) == Blanks(text) + (IF Signed(text) THEN 2 ELSE 1)
NumDigits(text) ==
  CHOOSE n \in 0 .. Len(text) + 1 - FirstDigit(text) :
    LET after == FirstDigit(text) + n
    IN  /\ \A i \in FirstDigit(text) .. after - 1 : text[i] \in Digit
        /\ after <= Len(text) => text[after] \notin Digit
Numeral(text) == SubSeq(text, FirstDigit(text), FirstDigit(text) + NumDigits(text) - 1)
\* The value of the first n digits.
Value(digits) ==
  LET value[n \in 0 .. Len(digits)] ==
        IF n = 0 THEN 0 ELSE value[n - 1] * Base + digits[n]
  IN  value
Magnitude(text) == Value(Numeral(text))[Len(Numeral(text))]
strtol(text) == IF Signed(text) /\ text[FirstDigit(text) - 1] = Minus
                THEN -Magnitude(text) ELSE Magnitude(text)

\* Mutant: end_ptr is not looked at.
IsNumber_Unchecked(text) == TRUE
IsNumber(text) == NumDigits(text) > 0

\* Mutant: the number is used as the long that strtol returns.
AsInt_Long(v) == v
\* int input = strtol(...): modulo the width of an int.
AsInt(v) == ((v + IntMax + 1) % (2 * (IntMax + 1))) - (IntMax + 1)

-----------------------------------------------------------------------------
\* The user types a line, or ends the input.
Type == /\ ~closed /\ Len(typed) < MaxLines
        /\ \E line \in Lines :
             /\ typed' = Append(typed, line)
             /\ stdin' = stdin \o Append(line, Newline)
        /\ UNCHANGED <<closed, asking, numbers>>

Close == /\ ~closed /\ closed' = TRUE
         /\ UNCHANGED <<stdin, asking, numbers, typed>>

\* The machine executes an INP.
Ask == /\ ~asking /\ Len(numbers) < MaxNumbers
       /\ asking' = TRUE
       /\ UNCHANGED <<stdin, closed, numbers, typed>>

Return(number) == asking' = FALSE /\ numbers' = Append(numbers, number)

\* Mutant: what is not a number is not taken from the input.
AfterChunk_Unread == IF IsNumber(Chunk) THEN SubSeq(stdin, ChunkLength + 1, Len(stdin)) ELSE stdin
AfterChunk == SubSeq(stdin, ChunkLength + 1, Len(stdin))

\* One round of the loop: a number is returned, anything else is complained of.
ReadChunk == /\ asking /\ ChunkEnds # {}
             /\ IF IsNumber(Chunk) THEN Return(AsInt(strtol(Chunk)))
                ELSE UNCHANGED <<asking, numbers>>
             /\ stdin' = AfterChunk
             /\ UNCHANGED <<closed, typed>>

AtEnd == asking /\ closed /\ stdin = <<>>

\* fgets returns NULL.  If errno happens to be set the loop goes round; if not,
\* in_buf is parsed though nothing was read into it.
ReadPastEnd == /\ AtEnd
               /\ \/ UNCHANGED <<asking, numbers>>
                  \/ \E stale \in Register : Return(stale)
               /\ UNCHANGED <<stdin, closed, typed>>

\* As many INPs as the bound allows have been executed.
Done == ~asking /\ Len(numbers) = MaxNumbers /\ UNCHANGED vars

\* fgets waits for the user.
Waits == asking /\ ~closed /\ ChunkEnds = {} /\ Len(typed) = MaxLines /\ UNCHANGED vars

Next == Type \/ Close \/ Ask \/ ReadChunk \/ ReadPastEnd \/ Done \/ Waits

\* op_inp goes on reading while there is something to read.
Spec == Init /\ [][Next]_vars /\ WF_vars(ReadChunk)

-----------------------------------------------------------------------------
\* Properties

\* Types; what is unread is the rest of whole lines, and a number is an int.
TypeOK == /\ stdin \in Seq(Digit \cup Others \cup {Newline})
          /\ stdin # <<>> => Last(stdin) = Newline
          /\ closed \in BOOLEAN /\ asking \in BOOLEAN
          /\ numbers \in Seq(Register) /\ Len(numbers) <= MaxNumbers
          /\ typed \in Seq(Lines) /\ Len(typed) <= MaxLines

\* The number a line spells, if it is nothing but a number.
Spells(line) == /\ line # <<>> /\ IsNumber(line)
                /\ FirstDigit(line) + NumDigits(line) = Len(line) + 1
                /\ strtol(line) \in Register

NumbersOn(line) == IF Spells(line) THEN <<strtol(line)>> ELSE <<>>

\* The numbers that the first n lines spell.
Spelling(lines) ==
  LET spelled[n \in 0 .. Len(lines)] ==
        IF n = 0 THEN <<>> ELSE spelled[n - 1] \o NumbersOn(lines[n])
  IN  spelled
Spelled == Spelling(typed)[Len(typed)]

Fits(line) == Len(line) <= accept_digits

\* Lines of plain numbers, and lines that are none at all.
Plain == \A i \in DOMAIN typed : Spells(typed[i]) \/ NumDigits(Append(typed[i], Newline)) = 0

\* If every line fits into the buffer, the INPs get the numbers typed, in
\* order, none twice and none left out, whatever is typed between them and
\* although the Newline of a full line arrives in a chunk of its own; at the
\* end of the input only numbers nobody typed may follow.
OneNumberPerLine ==
  Plain /\ (\A i \in DOMAIN typed : Fits(typed[i])) =>
    /\ stdin # <<>> \/ ~closed => IsPrefix(numbers, Spelled)
    /\ stdin = <<>> => IsPrefix(Spelled, numbers)

\* An INP for which a number is waiting is answered.
Answered ==
  (/\ asking /\ Plain /\ \A i \in DOMAIN typed : Fits(typed[i])
   /\ Len(numbers) < Len(Spelled))
  ~> ~asking
=============================================================================
