------------------------------ MODULE Assembler ------------------------------
(***************************************************************************)
(* The assembler between reading the source file and writing the image:    *)
(* lex(), the passes of parse_tokens() and generate_executable(), with the *)
(* labels in the hash table of KvDict.  A source file is its lines, a line *)
(* the lexemes left when comment and blanks are taken away.  A loop over   *)
(* tokens that only reads them is one step; the loops that build something *)
(* take a step per element.                                                *)
(***************************************************************************)
EXTENDS LMCMachine, FiniteSets, SequencesExt

CONSTANTS
  Programs,      \* the source files: sequences of sequences of lexemes
  Names,         \* the lexemes made of letters only
  Numerals,      \* the lexemes made of digits only
  NumeralValue,  \* NumeralValue[numeral]: what strtol returns, a long
  Upper,         \* Upper[lexeme]: after toupper
  None,
  INIT_CAPACITY, FNV1A_PRIME, Fnv1a, NULL, Stray, Wild  \* of the hash table

VARIABLES
  source,      \* code_buffer
  stage,       \* the pass that is running
  cursor,      \* the line or token it has come to
  tokens,      \* the list of tokens
  known,       \* known_labels
  executable,  \* the image, None if there is none
  report,      \* "none", "error", or "internal" for an Internal Error
  entries, size, capacity, allocated, answer,
  condition    \* state of the hash table

Dict == INSTANCE KvDict WITH
          Labels <- Names, Aliases <- Names, Addresses <- Address, state <- condition,
          MaxSets <- EXECUTABLE_SIZE, ValuesFor <- [name \in Names |-> Address]

dict == <<entries, size, capacity, allocated, answer, condition>>
vars == <<source, stage, cursor, tokens, known, executable, report, dict>>

Lexemes == DOMAIN Upper

ASSUME AssemblerAssumption ==
  /\ EXECUTABLE_SIZE <= Radix
  /\ Programs \subseteq Seq(Seq(Lexemes))
  /\ Names \subseteq Lexemes /\ Numerals \subseteq Lexemes \ Names
  /\ NumeralValue \in [Numerals -> Nat]
  /\ None \notin Lexemes /\ None \notin [Address -> Word]

ASSUME TableAssumption ==
  /\ INIT_CAPACITY \in Nat \ {0}
  /\ \E bits \in 0 .. INIT_CAPACITY : INIT_CAPACITY = 2 ^ bits
  /\ FNV1A_PRIME \in Nat /\ Fnv1a \in [Names -> Nat] /\ IsFiniteSet(Names)
  /\ NULL \notin Names /\ NULL \notin Address
  /\ Stray \notin Names \cup {NULL} /\ Wild \notin Address \cup {NULL}

mnemonic_to_prefix ==
  [ADD |-> OP_LMC_ADD, SUB |-> OP_LMC_SUB, STA |-> OP_LMC_STA, LDA |-> OP_LMC_LDA,
   BRA |-> OP_LMC_BRA, BRZ |-> OP_LMC_BRZ, BRP |-> OP_LMC_BRP]

\* The mnemonics without operand and their words.
plain == [INP |-> OP_LMC_IO_OP_INP, OUT |-> OP_LMC_IO_OP_OUT, HLT |-> OP_LMC_HLT]

Mnemonics == DOMAIN mnemonic_to_prefix \cup DOMAIN plain \cup {"DAT"}
Token == [label : Lexemes \cup {None}, mnemonic : Mnemonics, operand : Lexemes \cup {None}]

Init == /\ source \in Programs
        /\ stage = "lex" /\ cursor = 1
        /\ tokens = <<>> /\ known = {}
        /\ executable = None
        /\ report = "none"
        /\ Dict!Init

\* In the given pass, neither crashed nor caught in a probe loop.
In(pass) == stage = pass /\ condition = "ready"

\* main returns or exits with status 1.
Fail == stage' = "failed" /\ report' = "error"

-----------------------------------------------------------------------------
\* lex()

\* Mutant: an empty line is looked at for ever.
AfterEmptyLine_Stuck == cursor
AfterEmptyLine == cursor + 1

LexEmptyLine == /\ In("lex") /\ cursor <= Len(source) /\ source[cursor] = <<>>
                /\ cursor' = AfterEmptyLine
                /\ UNCHANGED <<source, stage, tokens, known, executable, report, dict>>

\* lex_line: where the mnemonic is, 0 if it is in neither place.
MnemonicAt(line) == IF Upper[line[1]] \in Mnemonics THEN 1
                    ELSE IF Len(line) > 1 /\ Upper[line[2]] \in Mnemonics THEN 2
                    ELSE 0

\* Neither a missing mnemonic nor too many lexemes around it.
Lexes(line) == MnemonicAt(line) > 0 /\ Len(line) <= MnemonicAt(line) + 1

TokenOf(line) == LET at == MnemonicAt(line)
                 IN  [label    |-> IF at = 1 THEN None ELSE line[1],
                      mnemonic |-> Upper[line[at]],
                      operand  |-> IF Len(line) > at THEN line[at + 1] ELSE None]

\* Mutant: one token too many is let through.
FitsInMemory_OffByOne == Len(tokens) <= EXECUTABLE_SIZE
FitsInMemory == Len(tokens) < EXECUTABLE_SIZE

LexLine == /\ In("lex") /\ cursor <= Len(source) /\ source[cursor] # <<>>
           /\ LET line == source[cursor]
              IN  IF Lexes(line) /\ FitsInMemory
                  THEN /\ tokens' = Append(tokens, TokenOf(line))
                       /\ cursor' = cursor + 1
                       /\ UNCHANGED <<stage, report>>
                  ELSE Fail /\ UNCHANGED <<tokens, cursor>>
           /\ UNCHANGED <<source, known, executable, dict>>

LexEnd == /\ In("lex") /\ cursor > Len(source)
          /\ IF tokens = <<>> THEN Fail
             ELSE stage' = "inp_out_hlt" /\ UNCHANGED report
          /\ UNCHANGED <<source, cursor, tokens, known, executable, dict>>

-----------------------------------------------------------------------------
\* parse_tokens()

\* A pass that only looks at the tokens: it fails if there is a bad one.
Check(pass, bad, next) == /\ In(pass)
                          /\ IF bad # {} THEN Fail ELSE stage' = next /\ UNCHANGED report

validate_inp_out_hlt ==
  /\ Check("inp_out_hlt",
           {i \in DOMAIN tokens : /\ tokens[i].mnemonic \in DOMAIN plain
                                  /\ tokens[i].operand # None},
           "labels")
  /\ cursor' = 1
  /\ UNCHANGED <<source, tokens, known, executable, dict>>

\* Mutant: a label may be declared twice.
LabelOK_Twice(label) == label \in Names
LabelOK(label) == label \in Names /\ label \notin known

\* Mutant: tokens are counted from 1.
AddressHere_FromOne == cursor
AddressHere == cursor - 1

\* parse_labels, first loop, one token: its label must be a new name, and goes
\* into the table with the address of the instruction.
ParseLabel ==
  /\ In("labels") /\ cursor <= Len(tokens)
  /\ LET t == tokens[cursor]
     IN  IF t.label = None /\ t.mnemonic # "DAT"
         THEN /\ cursor' = cursor + 1
              /\ UNCHANGED <<stage, known, report, dict>>
         ELSE IF t.label # None /\ LabelOK(t.label)
         THEN /\ Dict!set_item(t.label, AddressHere)
              /\ known' = known \cup {t.label}
              /\ cursor' = cursor + 1
              /\ UNCHANGED <<stage, report>>
         ELSE Fail /\ UNCHANGED <<cursor, known, dict>>
  /\ UNCHANGED <<source, tokens, executable>>

LabelsEnd == /\ In("labels") /\ cursor > Len(tokens)
             /\ stage' = "references"
             /\ UNCHANGED <<source, cursor, tokens, known, executable, report, dict>>

\* Mutant: a label need not be declared.
Dangling_Never(t) == FALSE
Dangling(t) == t.operand \in Names /\ t.operand \notin known

\* parse_labels, second loop: every label used was declared.
CheckReferences == /\ Check("references", {i \in DOMAIN tokens : Dangling(tokens[i])}, "numbers")
                   /\ known' = {}
                   /\ UNCHANGED <<source, cursor, tokens, executable, dict>>

MaxOperand(t) == IF t.mnemonic = "DAT" THEN 10 * Radix - 1 ELSE Radix - 1

\* The cast (int) strtol(...): the value modulo the width of an int.
AsInt(v) == ((v + IntMax + 1) % (2 * (IntMax + 1))) - (IntMax + 1)

BadNumber(t) == /\ t.operand \notin Names \cup {None}
                /\ t.operand \in Numerals =>
                     AsInt(NumeralValue[t.operand]) \notin 0 .. MaxOperand(t)

validate_numerical_operands ==
  /\ Check("numbers", {i \in DOMAIN tokens : BadNumber(tokens[i])}, "generate")
  /\ cursor' = 1
  /\ executable' = [a \in Address |-> 0]
  /\ UNCHANGED <<source, tokens, known, dict>>

-----------------------------------------------------------------------------
\* generate_executable(), one token

\* It gives up and returns NULL.
InternalError == /\ executable' = None
                 /\ stage' = "free" /\ report' = "internal"
                 /\ UNCHANGED cursor

Emit(word) == /\ executable' = [executable EXCEPT ![cursor - 1] = word]
              /\ cursor' = cursor + 1
              /\ UNCHANGED <<stage, report>>

\* Mutant: an operand is not checked again.
OperandFits_Trusted(t, value) == TRUE
\* operand_value is a size_t, so never below 0.
OperandFits(t, value) == value \in 0 .. MaxOperand(t)

EmitWithOperand(t, value) ==
  IF ~OperandFits(t, value) THEN InternalError
  ELSE IF t.mnemonic = "DAT" THEN Emit(value)
  ELSE IF t.mnemonic \notin DOMAIN mnemonic_to_prefix THEN InternalError  \* prefix -1
  ELSE Emit(mnemonic_to_prefix[t.mnemonic] * Radix + value)

\* At the next token, with UNCHANGED what this function never touches.
AtToken == /\ In("generate") /\ cursor <= Len(tokens)
           /\ UNCHANGED <<source, tokens, known>>

\* index >= EXECUTABLE_SIZE
TooManyTokens == cursor > EXECUTABLE_SIZE

Generating == AtToken /\ ~TooManyTokens

GeneratePlain == /\ Generating /\ tokens[cursor].mnemonic \in DOMAIN plain
                 /\ Emit(plain[tokens[cursor].mnemonic])
                 /\ UNCHANGED dict

TakesOperand == tokens[cursor].mnemonic \notin DOMAIN plain

\* The two errors found before there is a value: too many tokens, no operand.
GenerateNothing == /\ AtToken
                   /\ ~TooManyTokens => TakesOperand /\ tokens[cursor].operand = None
                   /\ InternalError
                   /\ UNCHANGED dict

GenerateNumeral ==
  /\ Generating /\ TakesOperand /\ tokens[cursor].operand \in Numerals
  /\ EmitWithOperand(tokens[cursor], NumeralValue[tokens[cursor].operand])
  /\ UNCHANGED dict

\* A pointer read from beyond the table leads to any number.
Pointee(value) == IF value = Wild THEN 0 .. 10 * Radix ELSE {value}

GenerateLabel ==
  /\ Generating /\ TakesOperand /\ tokens[cursor].operand \in Names
  /\ Dict!get_item(tokens[cursor].operand)
  /\ CASE condition' # "ready" -> UNCHANGED <<executable, cursor, stage, report>>
       [] answer'.value = NULL -> InternalError
       [] OTHER -> \E value \in Pointee(answer'.value) :
                     EmitWithOperand(tokens[cursor], value)

GenerateEnd == /\ In("generate") /\ cursor > Len(tokens)
               /\ stage' = "free"
               /\ UNCHANGED <<source, cursor, tokens, known, executable, report, dict>>

Grown == capacity > INIT_CAPACITY

\* main frees tokens and table, which fails on a heap the table has spoilt,
\* and only then looks whether there is an executable.
FreeAll == /\ In("free")
           /\ condition' \in Dict!Fates("ready", Grown)
           /\ stage' = IF condition' # "ready" THEN stage
                       ELSE IF executable = None THEN "failed" ELSE "done"
           /\ UNCHANGED <<source, cursor, tokens, known, executable, report,
                          entries, size, capacity, allocated, answer>>

\* Nothing more happens: the process has ended, or it probes for ever.
Ended == stage \in {"done", "failed"} \/ condition # "ready"
Stays == Ended /\ UNCHANGED vars

-----------------------------------------------------------------------------
Run == \/ LexEmptyLine \/ LexLine \/ LexEnd
       \/ validate_inp_out_hlt \/ ParseLabel \/ LabelsEnd
       \/ CheckReferences \/ validate_numerical_operands
       \/ GeneratePlain \/ GenerateNothing \/ GenerateNumeral \/ GenerateLabel
       \/ GenerateEnd \/ FreeAll

Next == Run \/ Stays

Spec == Init /\ [][Next]_vars
FairSpec == Spec /\ WF_vars(Run)

-----------------------------------------------------------------------------
\* Properties

Passes == {"lex", "inp_out_hlt", "labels", "references", "numbers", "generate", "free",
           "done", "failed"}

\* Types; there are never more tokens than cells of memory.
TypeOK == /\ source \in Programs
          /\ stage \in Passes
          /\ cursor \in Nat \ {0}
          /\ tokens \in Seq(Token) /\ Len(tokens) <= EXECUTABLE_SIZE
          /\ known \in SUBSET Names
          /\ executable \in {None} \cup [Address -> Word]
          /\ report \in {"none", "error", "internal"}
          /\ Dict!TypeOK

\* Whatever the table answers, even after it has grown and answers with junk,
\* an image that is written holds words of three digits, which is what the
\* virtual machine needs to keep its memory so.
ImagesAreStorable == stage = "done" => executable \in [Address -> Storable]

\* get_item, which never ends when a full table lacks the label, is asked only
\* for labels that are there: until the table grows it does not spin.
NeverSpins == condition = "spinning" => Grown

\* Of what the generator's five Internal Errors guard against, lexer and
\* validators let only two things through: unless the table has grown, one
\* means that an operand is missing, or is a number that is in range only after
\* it was cast to an int; never too many tokens, an unknown mnemonic or a label
\* that is not in the table or has no address an operand can name.
TwoThingsSlipThrough ==
  report = "internal" /\ ~Grown =>
    \/ tokens[cursor].operand = None
    \/ /\ tokens[cursor].operand \in Numerals
       /\ NumeralValue[tokens[cursor].operand] > IntMax

\* With at most INIT_CAPACITY labels the assembler accepts exactly the
\* programs of the language and gives each the image the language gives it,
\* though its checks are spread over lexer, three validators and generator,
\* some in the wrong one, and one of them reads numbers modulo 2^32.
Language == INSTANCE AssemblyLanguage WITH
              Limit <- INIT_CAPACITY,
              verdict <- CASE Grown -> "undefined"
                           [] ~Grown /\ stage = "done" -> "accepted"
                           [] ~Grown /\ stage = "failed" -> "rejected"
                           [] OTHER -> "pending",
              image <- IF ~Grown /\ stage = "done" THEN executable ELSE None

AssemblesTheLanguage == Language!Spec

\* Every run ends, in an image, a message, a crash or a spoilt table's loop.
Finishes == <>Ended
=============================================================================
