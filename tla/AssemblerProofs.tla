--------------------------- MODULE AssemblerProofs ---------------------------
(***************************************************************************)
(* Theorems about Assembler, for every language of lexemes and every       *)
(* program.  What is written is sound whatever the hash table answers; the *)
(* rest rests on what KvDictProofs proves of the table.  The second half   *)
(* shows what every pass has found out about the program of the language,  *)
(* and so that the assembler implements AssemblyLanguage.                  *)
(***************************************************************************)
EXTENDS Assembler, TLAPS, FiniteSetTheorems

DP == INSTANCE KvDictProofs WITH
        Labels <- Names, Aliases <- Names, Addresses <- Address, state <- condition,
        MaxSets <- EXECUTABLE_SIZE, ValuesFor <- [name \in Names |-> Address]

ImageOrNone == executable \in {None} \cup [Address -> Storable]

TokensOK == tokens \in Seq(Token) /\ cursor \in Nat \ {0}

\* While it is generated, and when it is done, there is an image.
ImageThere == stage \in {"generate", "done"} => executable \in [Address -> Storable]

IInv == source \in Programs /\ TokensOK /\ ImageOrNone /\ ImageThere

-----------------------------------------------------------------------------
\* Words

LEMMA ZeroIsStorable == 0 \in Storable
  BY MachineAssumption DEF Storable

LEMMA PlainIsStorable == \A m \in DOMAIN plain : plain[m] \in Storable
  BY MachineAssumption
  DEF plain, Storable, OP_LMC_IO_OP_INP, OP_LMC_IO_OP_OUT, OP_LMC_HLT

\* What a token is turned into, given the number its operand stands for.
Encoding(t, value) == IF t.mnemonic = "DAT" THEN value
                      ELSE mnemonic_to_prefix[t.mnemonic] * Radix + value

\* The word of an instruction whose operand fits.
LEMMA EncodingIsStorable ==
  ASSUME NEW t \in Token, t.mnemonic \notin DOMAIN plain,
         NEW value, OperandFits(t, value)
  PROVE  Encoding(t, value) \in Storable
<1>1. CASE t.mnemonic = "DAT"
  BY <1>1, MachineAssumption DEF Encoding, OperandFits, MaxOperand, Storable
<1>2. CASE t.mnemonic # "DAT"
  <2>1. value \in 0 .. Radix - 1
    BY <1>2 DEF OperandFits, MaxOperand
  <2>2. t.mnemonic \in DOMAIN mnemonic_to_prefix
    BY <1>2 DEF Token, Mnemonics
  <2>3. mnemonic_to_prefix[t.mnemonic] \in 1 .. 8
    BY <2>2 DEF mnemonic_to_prefix, OP_LMC_ADD, OP_LMC_SUB, OP_LMC_STA, OP_LMC_LDA,
                OP_LMC_BRA, OP_LMC_BRZ, OP_LMC_BRP
  <2>4. \A p \in 1 .. 8 : p * Radix + value \in Storable
    BY <2>1, MachineAssumption DEF Storable
  <2>5. QED
    BY <1>2, <2>3, <2>4 DEF Encoding
<1>3. QED
  BY <1>1, <1>2

\* Every mnemonic that takes an operand has a prefix or is DAT, so that only
\* the operand can be at fault.
LEMMA EmitsOrRefuses ==
  ASSUME NEW t \in Token, t.mnemonic \notin DOMAIN plain,
         NEW value, EmitWithOperand(t, value)
  PROVE  IF OperandFits(t, value) THEN Emit(Encoding(t, value)) ELSE InternalError
<1>1. t.mnemonic = "DAT" \/ t.mnemonic \in DOMAIN mnemonic_to_prefix
  BY DEF Token, Mnemonics
<1>2. QED
  BY <1>1 DEF EmitWithOperand, Encoding

-----------------------------------------------------------------------------
\* Steps

LEMMA InitIInv == Init => IInv
  BY DEF Init, IInv, TokensOK, ImageOrNone, ImageThere

LEMMA TokenOfIsAToken ==
  ASSUME NEW line \in Seq(Lexemes), line # <<>>, Lexes(line)
  PROVE  TokenOf(line) \in Token
<1>1. Len(line) \in Nat \ {0} /\ \A i \in 1 .. Len(line) : line[i] \in Lexemes
  OBVIOUS
<1>2. CASE MnemonicAt(line) = 1
  <2>1. Upper[line[1]] \in Mnemonics
    BY <1>2 DEF MnemonicAt
  <2>2. QED
    BY <1>1, <1>2, <2>1 DEF TokenOf, Token, Lexes
<1>3. CASE MnemonicAt(line) = 2
  <2>1. Len(line) > 1 /\ Upper[line[2]] \in Mnemonics
    BY <1>3 DEF MnemonicAt
  <2>2. QED
    BY <1>1, <1>3, <2>1 DEF TokenOf, Token, Lexes
<1>4. MnemonicAt(line) \in {1, 2}
  BY DEF Lexes, MnemonicAt
<1>5. QED
  BY <1>2, <1>3, <1>4

LEMMA LexLineIInv == IInv /\ LexLine => IInv'
<1> SUFFICES ASSUME IInv, LexLine PROVE IInv'
  OBVIOUS
<1> DEFINE line == source[cursor]
<1>1. line \in Seq(Lexemes) /\ line # <<>>
  BY AssemblerAssumption DEF IInv, TokensOK, LexLine
<1>2. CASE Lexes(line) /\ FitsInMemory
  <2>1. tokens' = Append(tokens, TokenOf(line)) /\ cursor' = cursor + 1 /\ stage' = stage
    BY <1>2 DEF LexLine
  <2>2. TokensOK'
    BY <1>1, <1>2, <2>1, TokenOfIsAToken DEF IInv, TokensOK
  <2>3. QED
    BY <2>1, <2>2 DEF IInv, LexLine, ImageOrNone, ImageThere
<1>3. CASE ~(Lexes(line) /\ FitsInMemory)
  BY <1>3 DEF LexLine, Fail, IInv, TokensOK, ImageOrNone, ImageThere
<1>4. QED
  BY <1>2, <1>3

\* The steps before and after the generator.
LEMMA OtherStepsIInv ==
  ASSUME IInv, LexEmptyLine \/ LexEnd \/ LabelsEnd \/ GenerateEnd \/ FreeAll \/ Stays
               \/ UNCHANGED vars
  PROVE  IInv'
<1>1. CASE LexEmptyLine
  BY <1>1 DEF LexEmptyLine, AfterEmptyLine, IInv, TokensOK, ImageOrNone, ImageThere
<1>2. CASE LexEnd
  BY <1>2 DEF LexEnd, Fail, IInv, TokensOK, ImageOrNone, ImageThere
<1>3. CASE LabelsEnd
  BY <1>3 DEF LabelsEnd, IInv, TokensOK, ImageOrNone, ImageThere
<1>4. CASE GenerateEnd
  BY <1>4 DEF GenerateEnd, In, IInv, TokensOK, ImageOrNone, ImageThere
<1>5. CASE FreeAll
  BY <1>5 DEF FreeAll, In, IInv, TokensOK, ImageOrNone, ImageThere
<1>6. CASE Stays \/ UNCHANGED vars
  BY <1>6 DEF Stays, vars, IInv, TokensOK, ImageOrNone, ImageThere
<1>7. QED
  BY <1>1, <1>2, <1>3, <1>4, <1>5, <1>6

\* The passes of the parser.
LEMMA ParserIInv ==
  ASSUME IInv, validate_inp_out_hlt \/ ParseLabel \/ CheckReferences
               \/ validate_numerical_operands
  PROVE  IInv'
<1>1. CASE validate_inp_out_hlt
  BY <1>1 DEF validate_inp_out_hlt, Check, Fail, IInv, TokensOK, ImageOrNone, ImageThere
<1>2. CASE ParseLabel
  <2>1. /\ source' = source /\ tokens' = tokens /\ executable' = executable
        /\ cursor' \in {cursor, cursor + 1}
        /\ stage' \in {stage, "failed"}
    BY <1>2 DEF ParseLabel, Fail
  <2>2. QED
    BY <2>1 DEF IInv, TokensOK, ImageOrNone, ImageThere
<1>3. CASE CheckReferences
  BY <1>3 DEF CheckReferences, Check, Fail, IInv, TokensOK, ImageOrNone, ImageThere
<1>4. CASE validate_numerical_operands
  <2>1. /\ source' = source /\ tokens' = tokens /\ cursor' = 1
        /\ executable' = [a \in Address |-> 0]
    BY <1>4 DEF validate_numerical_operands
  <2>2. QED
    BY <2>1, ZeroIsStorable DEF IInv, TokensOK, ImageOrNone, ImageThere
<1>5. QED
  BY <1>1, <1>2, <1>3, <1>4

\* What the generator does with the executable keeps it an image or gives it up.
LEMMA EmitIInv ==
  ASSUME IInv, In("generate"), UNCHANGED <<source, tokens>>,
         InternalError \/ \E word \in Storable : Emit(word)
  PROVE  IInv'
<1>1. executable \in [Address -> Storable]
  BY DEF IInv, ImageThere, In
<1>2. CASE InternalError
  BY <1>2 DEF InternalError, IInv, TokensOK, ImageOrNone, ImageThere
<1>3. CASE \E word \in Storable : Emit(word)
  <2>1. PICK word \in Storable : Emit(word)
    BY <1>3
  <2>2. executable' \in [Address -> Storable] /\ cursor' = cursor + 1 /\ stage' = stage
    BY <1>1, <2>1 DEF Emit
  <2>3. QED
    BY <2>2 DEF IInv, TokensOK, ImageOrNone, ImageThere
<1>4. QED
  BY <1>2, <1>3

LEMMA OperandIInv ==
  ASSUME IInv, Generating, TakesOperand, NEW value,
         EmitWithOperand(tokens[cursor], value)
  PROVE  IInv'
<1> DEFINE t == tokens[cursor]
<1>1. t \in Token /\ t.mnemonic \notin DOMAIN plain
  BY DEF Generating, AtToken, TakesOperand, IInv, TokensOK
<1>2. In("generate") /\ UNCHANGED <<source, tokens>>
  BY DEF Generating, AtToken
<1>3. InternalError \/ \E word \in Storable : Emit(word)
  BY <1>1, EncodingIsStorable, EmitsOrRefuses
<1>4. QED
  BY <1>2, <1>3, EmitIInv

LEMMA GeneratorIInv ==
  ASSUME IInv, GeneratePlain \/ GenerateNothing \/ GenerateNumeral \/ GenerateLabel
  PROVE  IInv'
<1>1. CASE GeneratePlain
  <2>1. In("generate") /\ UNCHANGED <<source, tokens>>
    BY <1>1 DEF GeneratePlain, Generating, AtToken
  <2>2. \E word \in Storable : Emit(word)
    BY <1>1, PlainIsStorable DEF GeneratePlain
  <2>3. QED
    BY <2>1, <2>2, EmitIInv
<1>2. CASE GenerateNothing
  BY <1>2, EmitIInv DEF GenerateNothing, AtToken
<1>3. CASE GenerateNumeral
  BY <1>3, OperandIInv DEF GenerateNumeral
<1>4. CASE GenerateLabel
  <2>1. Generating /\ TakesOperand /\ In("generate") /\ UNCHANGED <<source, tokens>>
    BY <1>4 DEF GenerateLabel, Generating, AtToken
  <2>2. CASE UNCHANGED <<executable, cursor, stage, report>>
    BY <2>1, <2>2 DEF IInv, TokensOK, ImageOrNone, ImageThere
  <2>3. CASE InternalError
    BY <2>1, <2>3, EmitIInv
  <2>4. CASE \E value \in Pointee(answer'.value) : EmitWithOperand(tokens[cursor], value)
    BY <2>1, <2>4, OperandIInv
  <2>5. QED
    BY <1>4, <2>2, <2>3, <2>4 DEF GenerateLabel
<1>5. QED
  BY <1>1, <1>2, <1>3, <1>4

LEMMA NextIInv == IInv /\ [Next]_vars => IInv'
  BY LexLineIInv, OtherStepsIInv, ParserIInv, GeneratorIInv DEF Next, Run

-----------------------------------------------------------------------------
\* The table, as the assembler uses it

LEMMA SameSet ==
  ASSUME NEW key, NEW value
  PROVE  Dict!set_item(key, value) = DP!set_item(key, value)
  BY DEF Dict!set_item, DP!set_item, Dict!SetInPlace, DP!SetInPlace,
     Dict!SetGrowing, DP!SetGrowing, Dict!SetCrashes, DP!SetCrashes,
     Dict!Put, DP!Put, Dict!MustGrow, DP!MustGrow, Dict!SizeAfterSet, DP!SizeAfterSet,
     Dict!Migrated, DP!Migrated, Dict!After, DP!After, Dict!Rehash, DP!Rehash,
     Dict!RawSet, DP!RawSet, Dict!Hash, DP!Hash, Dict!HashWithNul, DP!HashWithNul,
     Dict!Home, DP!Home, Dict!Probe, DP!Probe, Dict!EndsAfter, DP!EndsAfter,
     Dict!Stops, DP!Stops, Dict!Endless, DP!Endless, Dict!LooksBeyond, DP!LooksBeyond,
     Dict!Fates, DP!Fates, Dict!Cells, DP!Cells, Dict!Empty, DP!Empty, Dict!Junk, DP!Junk,
     Dict!dict, DP!dict

LEMMA SameGet ==
  ASSUME NEW key
  PROVE  Dict!get_item(key) = DP!get_item(key)
  BY DEF Dict!get_item, DP!get_item, Dict!Answers, DP!Answers, Dict!Spins, DP!Spins,
     Dict!HashWithNul, DP!HashWithNul, Dict!Home, DP!Home, Dict!Probe, DP!Probe,
     Dict!EndsAfter, DP!EndsAfter, Dict!Stops, DP!Stops, Dict!Endless, DP!Endless,
     Dict!LooksBeyond, DP!LooksBeyond, Dict!Fates, DP!Fates, Dict!Cells, DP!Cells,
     Dict!Empty, DP!Empty, Dict!dict, DP!dict

LEMMA SameTable ==
  /\ Dict!Init = DP!Init
  /\ Dict!TypeOK = DP!TypeOK
  /\ Grown = DP!Grown
  /\ Dict!Fates("ready", Grown) = DP!Fates("ready", Grown)
  BY DEF Dict!Init, DP!Init, Dict!TypeOK, DP!TypeOK, Grown, DP!Grown, Dict!Fates, DP!Fates,
     Dict!Cells, DP!Cells, Dict!Empty, DP!Empty, Dict!Junk, DP!Junk, Dict!Entry, DP!Entry

LEMMA TableAssumptions == DP!DictAssumption /\ DP!ClientAssumption
  BY TableAssumption, MachineAssumption DEF DP!IsFiniteSet, IsFiniteSet

Held(name) == DP!Holding(name) # {}

TableInv == /\ DP!SoundInv /\ DP!IInv
            /\ NeverSpins

\* The pass over the labels takes every declared name into the table, the pass
\* over the references finds every name that is used among them; so the
\* generator asks for no name that the table does not hold.
NamesHeld ==
  ~Grown =>
    /\ stage \in {"lex", "inp_out_hlt", "labels", "references"} => \A name \in known : Held(name)
    /\ stage \in {"numbers", "generate"} =>
         \A i \in DOMAIN tokens : tokens[i].operand \in Names => Held(tokens[i].operand)

NumbersChecked == stage = "generate" => \A i \in DOMAIN tokens : ~BadNumber(tokens[i])

InternalErrorEnds == report = "internal" => stage \in {"free", "failed", "done"}

Counted == /\ Len(tokens) <= EXECUTABLE_SIZE
           /\ known \in SUBSET Names
           /\ stage \in Passes
           /\ report \in {"none", "error", "internal"}

\* TwoThingsSlipThrough needs what the passes have established when the
\* generator fails; NeverSpins needs the names that the table holds.
PassInv == /\ IInv /\ TableInv
           /\ Counted /\ NamesHeld /\ NumbersChecked
           /\ InternalErrorEnds /\ TwoThingsSlipThrough

LEMMA InitPassInv == Init => PassInv
<1> SUFFICES ASSUME Init PROVE PassInv
  OBVIOUS
<1>1. IInv
  BY InitIInv
<1>2. DP!SoundInv /\ DP!IInv
  BY SameTable, TableAssumptions, DP!InitIsSound, DP!InitIInv DEF Init
<1>3. condition = "ready"
  BY DEF Init, Dict!Init
<1>4. Counted
  BY MachineAssumption DEF Init, Counted, Passes
<1>5. QED
  BY <1>1, <1>2, <1>3, <1>4
  DEF Init, PassInv, TableInv, NeverSpins, NamesHeld, NumbersChecked, InternalErrorEnds,
      TwoThingsSlipThrough

\* A step that leaves the table alone.
LEMMA TableStays ==
  ASSUME TableInv, UNCHANGED dict
  PROVE  /\ TableInv' /\ Grown' = Grown /\ condition' = condition
         /\ \A name : Held(name)' = Held(name)
<1>1. UNCHANGED DP!vars /\ capacity' = capacity /\ condition' = condition /\ entries' = entries
  BY DEF dict, DP!vars, DP!dict
<1>2. DP!SoundInv' /\ DP!IInv'
  BY <1>1, TableAssumptions, DP!NextIsSound, DP!NextIInv DEF TableInv
<1>3. QED
  BY <1>1, <1>2 DEF TableInv, NeverSpins, Grown, Held, DP!Holding

\* The lexer: as many tokens as memory holds, and no name known yet.
LEMMA LexerPassInv ==
  ASSUME PassInv, LexEmptyLine \/ LexLine \/ LexEnd
  PROVE  PassInv'
<1>1. IInv'
  BY LexLineIInv, OtherStepsIInv DEF PassInv
<1>2. TableInv' /\ Grown' = Grown /\ \A name : Held(name)' = Held(name)
  BY TableStays DEF PassInv, LexEmptyLine, LexLine, LexEnd
<1>3. /\ stage = "lex" /\ known' = known /\ stage' \in {"lex", "inp_out_hlt", "failed"}
      /\ report' \in {report, "error"}
  BY DEF LexEmptyLine, LexLine, LexEnd, In, Fail
<1>4. Len(tokens') <= EXECUTABLE_SIZE
  <2>1. tokens \in Seq(Token) /\ EXECUTABLE_SIZE \in Nat /\ Len(tokens) <= EXECUTABLE_SIZE
    BY MachineAssumption DEF PassInv, IInv, TokensOK, Counted
  <2>2. CASE tokens' = tokens
    BY <2>1, <2>2
  <2>3. CASE FitsInMemory /\ tokens' = Append(tokens, TokenOf(source[cursor]))
    BY <2>1, <2>3 DEF FitsInMemory
  <2>4. QED
    BY <2>2, <2>3 DEF LexEmptyLine, LexLine, LexEnd
<1>5. Counted'
  BY <1>3, <1>4 DEF PassInv, Counted, Passes
<1>6. NamesHeld' /\ NumbersChecked' /\ InternalErrorEnds' /\ TwoThingsSlipThrough'
  BY <1>2, <1>3
  DEF PassInv, NamesHeld, NumbersChecked, InternalErrorEnds, TwoThingsSlipThrough
<1>7. QED
  BY <1>1, <1>2, <1>5, <1>6 DEF PassInv

\* The passes that only look at the tokens, and the end of the one over the
\* labels.
LEMMA ValidatorPassInv ==
  ASSUME PassInv, validate_inp_out_hlt \/ LabelsEnd \/ CheckReferences
                  \/ validate_numerical_operands
  PROVE  PassInv'
<1>1. IInv'
  BY ParserIInv, OtherStepsIInv DEF PassInv
<1>2. TableInv' /\ Grown' = Grown /\ \A name : Held(name)' = Held(name)
  BY TableStays
  DEF PassInv, validate_inp_out_hlt, LabelsEnd, CheckReferences, validate_numerical_operands
<1>3. /\ tokens' = tokens /\ known' \in {known, {}}
      /\ stage \in {"inp_out_hlt", "labels", "references", "numbers"}
      /\ stage' \in {"labels", "references", "numbers", "generate", "failed"}
      /\ report' \in {report, "error"}
  BY DEF validate_inp_out_hlt, LabelsEnd, CheckReferences, validate_numerical_operands,
         Check, Fail, In
<1>4. Counted' /\ InternalErrorEnds' /\ TwoThingsSlipThrough'
  BY <1>3 DEF PassInv, Counted, Passes, InternalErrorEnds, TwoThingsSlipThrough
<1>5. NamesHeld'
  <2>1. CASE validate_inp_out_hlt \/ LabelsEnd
    BY <1>2, <2>1
    DEF PassInv, NamesHeld, validate_inp_out_hlt, LabelsEnd, Check, Fail, In
  <2>2. CASE CheckReferences
    <3>1. CASE stage' = "failed"
      BY <1>2, <3>1 DEF NamesHeld
    <3>2. CASE stage' # "failed"
      <4>1. /\ stage = "references" /\ stage' = "numbers"
            /\ \A i \in DOMAIN tokens : tokens[i].operand \in Names =>
                                         tokens[i].operand \in known
        BY <2>2, <3>2 DEF CheckReferences, Check, Fail, In, Dangling
      <4>2. QED
        BY <1>2, <1>3, <4>1 DEF PassInv, NamesHeld
    <3>3. QED
      BY <3>1, <3>2
  <2>3. CASE validate_numerical_operands
    <3>1. stage = "numbers" /\ stage' \in {"generate", "failed"}
      BY <2>3 DEF validate_numerical_operands, Check, Fail, In
    <3>2. QED
      BY <1>2, <1>3, <3>1 DEF PassInv, NamesHeld
  <2>4. QED
    BY <2>1, <2>2, <2>3
<1>6. NumbersChecked'
  <2>1. stage' = "generate" => \A i \in DOMAIN tokens : ~BadNumber(tokens[i])
    BY DEF validate_inp_out_hlt, LabelsEnd, CheckReferences, validate_numerical_operands,
           Check, Fail
  <2>2. QED
    BY <1>3, <2>1 DEF NumbersChecked, BadNumber, MaxOperand
<1>7. QED
  BY <1>1, <1>2, <1>4, <1>5, <1>6 DEF PassInv

\* A label goes into the table with an address of memory.
LEMMA ParseLabelPassInv ==
  ASSUME PassInv, ParseLabel
  PROVE  PassInv'
<1>1. IInv'
  BY ParserIInv DEF PassInv
<1>2. /\ stage = "labels" /\ stage' \in {"labels", "failed"} /\ tokens' = tokens
      /\ report' \in {report, "error"} /\ known' \subseteq known \cup Names
  BY DEF ParseLabel, In, Fail, LabelOK
<1>3. Counted' /\ NumbersChecked' /\ InternalErrorEnds'
  BY <1>2 DEF PassInv, Counted, Passes, NumbersChecked, InternalErrorEnds
<1>4. TwoThingsSlipThrough'
  BY <1>2 DEF PassInv, InternalErrorEnds, TwoThingsSlipThrough
<1>5. TableInv' /\ NamesHeld'
  <2>1. CASE UNCHANGED dict /\ known' = known
    <3>1. TableInv' /\ Grown' = Grown /\ \A name : Held(name)' = Held(name)
      BY <2>1, TableStays DEF PassInv
    <3>2. QED
      BY <1>2, <2>1, <3>1 DEF PassInv, NamesHeld
  <2>2. CASE ~(UNCHANGED dict /\ known' = known)
    <3>1. PICK label \in Names, address \in {AddressHere} :
            /\ known' = known \cup {label}
            /\ DP!set_item(label, address) /\ cursor <= Len(tokens)
      BY <2>2, SameSet DEF ParseLabel, LabelOK
    <3>2. address \in Address
      <4>1. cursor \in Nat \ {0} /\ tokens \in Seq(Token) /\ Len(tokens) <= EXECUTABLE_SIZE
        BY DEF PassInv, IInv, TokensOK, Counted
      <4>2. QED
        BY <3>1, <4>1, MachineAssumption DEF AddressHere, Address
    <3>3. DP!SoundInv' /\ DP!IInv'
      BY <3>1, <3>2, TableAssumptions, DP!SetIsSound, DP!SetIInv DEF PassInv, TableInv
    <3>4. ~Grown' => /\ condition' = "ready"
                     /\ Held(label)'
                     /\ \A name \in Names : Held(name) => Held(name)'
      <4> SUFFICES ASSUME ~Grown'
                   PROVE  /\ condition' = "ready"
                          /\ Held(label)'
                          /\ \A name \in Names : Held(name) => Held(name)'
        OBVIOUS
      <4>1. ~DP!Grown'
        BY DEF Grown, DP!Grown
      <4>2. DP!IInv
        BY DEF PassInv, TableInv
      <4>3. QED
        BY <3>1, <3>2, <4>1, <4>2, TableAssumptions, DP!SetIsRemembered DEF Held
    <3>5. ~Grown' => ~Grown
      <4>1. capacity' \in {capacity, 2 * capacity} /\ capacity \in Nat
        BY <3>1
        DEF DP!set_item, DP!SetInPlace, DP!SetGrowing, DP!SetCrashes, DP!Put, DP!dict,
            PassInv, TableInv, DP!SoundInv, DP!CellsAreSound
      <4>2. QED
        BY <4>1, TableAssumption DEF Grown
    <3>6. TableInv'
      BY <3>3, <3>4 DEF TableInv, NeverSpins
    <3>7. NamesHeld'
      <4> SUFFICES ASSUME ~Grown' PROVE \A name \in known' : Held(name)'
        BY <1>2 DEF NamesHeld
      <4>1. known \subseteq Names /\ \A name \in known : Held(name)
        BY <1>2, <3>5 DEF PassInv, NamesHeld, Counted
      <4>2. QED
        BY <3>1, <3>4, <4>1
    <3>8. QED
      BY <3>6, <3>7
  <2>3. QED
    BY <2>1, <2>2
<1>6. QED
  BY <1>1, <1>3, <1>4, <1>5 DEF PassInv

\* The cast to int changes no number that an int can hold.
LEMMA AsIntOfAnInt ==
  ASSUME NEW v \in 0 .. IntMax
  PROVE  AsInt(v) = v
<1>1. IntMax \in Nat
  BY MachineAssumption
<1>2. \A m \in Nat \ {0} : \A k \in 0 .. m - 1 : k % m = k
  OBVIOUS
<1>3. (v + IntMax + 1) % (2 * (IntMax + 1)) = v + IntMax + 1
  <2>1. 2 * (IntMax + 1) \in Nat \ {0} /\ v + IntMax + 1 \in 0 .. 2 * (IntMax + 1) - 1
    BY <1>1
  <2>2. QED
    BY <1>2, <2>1
<1>4. QED
  BY <1>1, <1>3 DEF AsInt

\* So a numeral that passed and does not fit is too large for an int.
LEMMA NumeralSlipsThrough ==
  ASSUME PassInv, Generating, tokens[cursor].operand \in Numerals,
         ~OperandFits(tokens[cursor], NumeralValue[tokens[cursor].operand])
  PROVE  NumeralValue[tokens[cursor].operand] > IntMax
<1> DEFINE t == tokens[cursor]
           v == NumeralValue[t.operand]
<1>1. v \in Nat /\ IntMax \in Nat /\ t.operand \notin Names \cup {None}
  BY AssemblerAssumption, MachineAssumption
<1>2. ~BadNumber(t)
  <2>1. cursor \in DOMAIN tokens
    BY DEF PassInv, IInv, TokensOK, Generating, AtToken
  <2>2. QED
    BY <2>1 DEF PassInv, NumbersChecked, Generating, AtToken, In
<1>3. AsInt(v) \in 0 .. MaxOperand(t)
  BY <1>1, <1>2 DEF BadNumber
<1>4. AsInt(v) # v
  BY <1>3 DEF OperandFits
<1>5. QED
  BY <1>1, <1>4, AsIntOfAnInt

\* A value of the table is an address, and an address fits any operand.
LEMMA AddressFits ==
  ASSUME NEW t, NEW value \in Address
  PROVE  OperandFits(t, value)
  BY MachineAssumption, AssemblerAssumption DEF OperandFits, MaxOperand, Address

\* The lexer has left no more tokens than there are cells.
LEMMA TokensFit ==
  ASSUME PassInv, AtToken
  PROVE  ~TooManyTokens /\ Generating
<1>1. cursor \in Nat /\ Len(tokens) \in Nat /\ EXECUTABLE_SIZE \in Nat
  BY MachineAssumption DEF PassInv, IInv, TokensOK
<1>2. cursor <= Len(tokens) /\ Len(tokens) <= EXECUTABLE_SIZE
  BY DEF AtToken, PassInv, Counted
<1>3. QED
  BY <1>1, <1>2 DEF TooManyTokens, Generating

\* What a step of the generator leaves as it was.
LEMMA GeneratorFrame ==
  ASSUME PassInv, Generating, TableInv', Grown => Grown',
         \/ UNCHANGED <<executable, cursor, stage, report>>
         \/ \E word : Emit(word)
         \/ InternalError /\ (~Grown' => \/ tokens[cursor].operand = None
                                        \/ /\ tokens[cursor].operand \in Numerals
                                           /\ NumeralValue[tokens[cursor].operand] > IntMax),
         ~Grown' => \A name \in Names : Held(name) => Held(name)',
         IInv'
  PROVE  PassInv'
<1>1. /\ stage = "generate" /\ tokens' = tokens /\ known' = known
      /\ \/ stage' = "generate" /\ report' = report
         \/ /\ stage' = "free" /\ report' = "internal" /\ cursor' = cursor
            /\ ~Grown' => \/ tokens[cursor].operand = None
                          \/ /\ tokens[cursor].operand \in Numerals
                             /\ NumeralValue[tokens[cursor].operand] > IntMax
  BY DEF Generating, AtToken, In, Emit, InternalError
<1>2. report # "internal"
  BY <1>1 DEF PassInv, InternalErrorEnds
<1>3. Counted' /\ InternalErrorEnds'
  BY <1>1, <1>2 DEF PassInv, Counted, Passes, InternalErrorEnds
<1>4. TwoThingsSlipThrough'
  BY <1>1, <1>2 DEF TwoThingsSlipThrough
<1>5. NumbersChecked'
  BY <1>1 DEF PassInv, NumbersChecked, BadNumber, MaxOperand
<1>6. NamesHeld'
  BY <1>1 DEF PassInv, NamesHeld
<1>7. QED
  BY <1>3, <1>4, <1>5, <1>6 DEF PassInv

LEMMA GeneratorPassInv ==
  ASSUME PassInv, GeneratePlain \/ GenerateNothing \/ GenerateNumeral
  PROVE  PassInv'
<1>1. IInv' /\ Generating
  BY GeneratorIInv, TokensFit DEF PassInv, GeneratePlain, GenerateNothing, GenerateNumeral
<1>2. TableInv' /\ Grown' = Grown /\ \A name : Held(name)' = Held(name)
  BY TableStays DEF PassInv, GeneratePlain, GenerateNothing, GenerateNumeral
<1>3. CASE GeneratePlain
  BY <1>1, <1>2, <1>3, GeneratorFrame DEF GeneratePlain
<1>4. CASE GenerateNothing
  BY <1>1, <1>2, <1>4, GeneratorFrame DEF GenerateNothing, Generating
<1>5. CASE GenerateNumeral
  <2> DEFINE t == tokens[cursor]
             v == NumeralValue[t.operand]
  <2>1. t.operand \in Numerals
        /\ IF OperandFits(t, v) THEN Emit(Encoding(t, v)) ELSE InternalError
    <3>1. t \in Token
      BY <1>1 DEF PassInv, IInv, TokensOK, Generating, AtToken
    <3>2. QED
      BY <1>5, <3>1, EmitsOrRefuses DEF GenerateNumeral, TakesOperand
  <2>2. CASE OperandFits(t, v)
    <3>1. \E word : Emit(word)
      BY <2>1, <2>2
    <3>2. QED
      BY <1>1, <1>2, <3>1, GeneratorFrame
  <2>3. CASE ~OperandFits(t, v)
    <3>1. InternalError /\ v > IntMax
      BY <1>1, <2>1, <2>3, NumeralSlipsThrough
    <3>2. QED
      BY <1>1, <1>2, <2>1, <3>1, GeneratorFrame
  <2>4. QED
    BY <2>2, <2>3
<1>6. QED
  BY <1>3, <1>4, <1>5

\* The table is asked for a name it holds, and answers with its address.
LEMMA GenerateLabelPassInv ==
  ASSUME PassInv, GenerateLabel
  PROVE  PassInv'
<1> DEFINE t == tokens[cursor]
<1>1. IInv' /\ Generating
  BY GeneratorIInv DEF PassInv, GenerateLabel
<1>2. PICK name \in Names : name = t.operand /\ DP!get_item(name)
  BY SameGet DEF GenerateLabel
<1>3. DP!SoundInv' /\ DP!IInv'
  BY <1>2, TableAssumptions, DP!GetIsSound, DP!GetIInv DEF PassInv, TableInv
<1>4. Grown' = Grown /\ \A other : Held(other)' = Held(other)
  BY <1>2 DEF DP!get_item, DP!dict, Grown, Held, DP!Holding
<1>5. ~Grown => condition' = "ready" /\ answer'.value \in Address
  <2> SUFFICES ASSUME ~Grown PROVE condition' = "ready" /\ answer'.value \in Address
    OBVIOUS
  <2>1. cursor \in DOMAIN tokens /\ stage = "generate"
    BY <1>1 DEF PassInv, IInv, TokensOK, Generating, AtToken, In
  <2>2. Held(name)
    BY <1>2, <2>1 DEF PassInv, NamesHeld
  <2>3. ~DP!Grown /\ DP!IInv
    BY DEF Grown, DP!Grown, PassInv, TableInv
  <2>4. QED
    BY <1>2, <2>2, <2>3, TableAssumptions, DP!GetIsAnswered DEF Held
<1>6. TableInv'
  BY <1>3, <1>4, <1>5 DEF TableInv, NeverSpins
<1>7. CASE Grown
  <2>1. \/ UNCHANGED <<executable, cursor, stage, report>>
        \/ InternalError
        \/ \E word : Emit(word)
    BY DEF GenerateLabel, EmitWithOperand
  <2>2. QED
    BY <1>1, <1>4, <1>6, <1>7, <2>1, GeneratorFrame
<1>8. CASE ~Grown
  <2>1. answer'.value # NULL /\ Pointee(answer'.value) = {answer'.value}
    BY <1>5, <1>8, TableAssumption DEF Pointee
  <2>2. EmitWithOperand(t, answer'.value)
    BY <1>5, <1>8, <2>1 DEF GenerateLabel
  <2>3. \E word : Emit(word)
    <3>1. t \in Token /\ t.mnemonic \notin DOMAIN plain
      BY <1>1 DEF PassInv, IInv, TokensOK, Generating, AtToken, GenerateLabel, TakesOperand
    <3>2. QED
      BY <1>5, <1>8, <2>2, <3>1, AddressFits, EmitsOrRefuses
  <2>4. QED
    BY <1>1, <1>4, <1>6, <2>3, GeneratorFrame
<1>9. QED
  BY <1>7, <1>8

LEMMA EndPassInv ==
  ASSUME PassInv, GenerateEnd \/ FreeAll \/ Stays \/ UNCHANGED vars
  PROVE  PassInv'
<1>1. IInv'
  BY OtherStepsIInv DEF PassInv
<1>2. TableInv' /\ Grown' = Grown /\ \A name : Held(name)' = Held(name)
  <2>1. CASE UNCHANGED dict
    BY <2>1, TableStays DEF PassInv
  <2>2. CASE FreeAll
    <3>1. /\ UNCHANGED <<entries, size, capacity, allocated, answer>>
          /\ condition = "ready" /\ condition' \in DP!Fates("ready", DP!Grown)
      BY <2>2, SameTable DEF FreeAll, In
    <3>2. DP!SoundInv' /\ DP!IInv'
      BY <3>1, TableAssumptions, DP!FreeingIsSound DEF PassInv, TableInv, DP!dict
    <3>3. condition' \in {"ready", "crashed"}
      BY <3>1 DEF DP!Fates
    <3>4. QED
      BY <3>1, <3>2, <3>3 DEF TableInv, NeverSpins, Grown, Held, DP!Holding
  <2>3. QED
    BY <2>1, <2>2 DEF GenerateEnd, Stays, vars
<1>3. /\ tokens' = tokens /\ cursor' = cursor /\ known' = known /\ report' = report
      /\ stage' \in {stage, "free", "failed", "done"}
      /\ stage' = stage \/ stage \in {"generate", "free"}
      /\ stage = "free" => stage' \in {"free", "failed", "done"}
  BY DEF GenerateEnd, FreeAll, Stays, vars, In
<1>4. Counted' /\ InternalErrorEnds'
  BY <1>3 DEF PassInv, Counted, Passes, InternalErrorEnds
<1>5. TwoThingsSlipThrough'
  BY <1>2, <1>3 DEF PassInv, TwoThingsSlipThrough
<1>6. NumbersChecked'
  BY <1>3 DEF PassInv, NumbersChecked, BadNumber, MaxOperand
<1>7. NamesHeld'
  BY <1>2, <1>3 DEF PassInv, NamesHeld
<1>8. QED
  BY <1>1, <1>2, <1>4, <1>5, <1>6, <1>7 DEF PassInv

LEMMA NextPassInv == PassInv /\ [Next]_vars => PassInv'
  BY LexerPassInv, ValidatorPassInv, ParseLabelPassInv, GeneratorPassInv,
     GenerateLabelPassInv, EndPassInv DEF Next, Run

LEMMA AlwaysPassInv == Spec => []PassInv
  BY InitPassInv, NextPassInv, PTL DEF Spec

-----------------------------------------------------------------------------
\* Whatever is written into the file, by a table in order or by a spoilt one,
\* is a word of three digits.
THEOREM ImagesStorable == Spec => []ImagesAreStorable
<1>1. Spec => []IInv
  BY InitIInv, NextIInv, PTL DEF Spec
<1>2. IInv => ImagesAreStorable
  BY DEF IInv, ImageThere, ImagesAreStorable
<1>3. QED
  BY <1>1, <1>2, PTL

\* The types; there are never more tokens than cells of memory, and the table
\* stays a table however often it grows.
THEOREM TypesOK == Spec => []TypeOK
<1>1. PassInv => TypeOK
  <2> SUFFICES ASSUME PassInv PROVE TypeOK
    OBVIOUS
  <2>1. Storable \subseteq Word
    BY MachineAssumption DEF Storable, Word
  <2>2. executable \in {None} \cup [Address -> Word]
    BY <2>1 DEF PassInv, IInv, ImageOrNone
  <2>3. Dict!TypeOK
    BY SameTable
    DEF PassInv, TableInv, DP!SoundInv, DP!CellsAreSound, DP!Cell, DP!OwnCell,
        DP!AnswerIsSound, DP!TypeOK
  <2>4. QED
    BY <2>2, <2>3 DEF PassInv, IInv, TokensOK, Counted, TypeOK
<1>2. QED
  BY <1>1, AlwaysPassInv, PTL

\* Until the table grows, the assembler is never caught in a probe loop: it
\* asks only for labels it has put in.
THEOREM NoSpinning == Spec => []NeverSpins
<1>1. PassInv => NeverSpins
  BY DEF PassInv, TableInv
<1>2. QED
  BY <1>1, AlwaysPassInv, PTL

\* Until the table grows, an Internal Error has one of two causes.
THEOREM TwoThings == Spec => []TwoThingsSlipThrough
<1>1. PassInv => TwoThingsSlipThrough
  BY DEF PassInv
<1>2. QED
  BY <1>1, AlwaysPassInv, PTL

-----------------------------------------------------------------------------
\* The lines of a program without the empty ones

LEMMA KeptIsDefined ==
  ASSUME NEW lines \in Seq(Seq(Lexemes))
  PROVE  Language!Kept(lines) =
           [n \in 0 .. Len(lines) |->
              IF n = 0 THEN <<>>
              ELSE IF lines[n] = <<>> THEN Language!Kept(lines)[n - 1]
              ELSE Append(Language!Kept(lines)[n - 1], lines[n])]
<1> DEFINE none == <<>>
           With(before, n) == IF lines[n] = <<>> THEN before ELSE Append(before, lines[n])
           Longer(f, n) == IF n = 0 THEN none ELSE With(f[n - 1], n)
           Defined == {k \in Nat : \E f : f = [n \in 0 .. k |-> Longer(f, n)]}
<1> HIDE DEF none, With
<1>1. 0 \in Defined
  <2>1. [n \in 0 .. 0 |-> none] = [n \in 0 .. 0 |-> Longer([m \in 0 .. 0 |-> none], n)]
    OBVIOUS
  <2>2. QED
    BY <2>1
<1>2. ASSUME NEW k \in Nat, k \in Defined PROVE k + 1 \in Defined
  <2>1. PICK f : f = [n \in 0 .. k |-> Longer(f, n)]
    BY <1>2
  <2> DEFINE last == With(f[k], k + 1)
             g == [n \in 0 .. k + 1 |-> IF n <= k THEN f[n] ELSE last]
  <2>2. ASSUME NEW n \in 0 .. k + 1 PROVE g[n] = Longer(g, n)
    <3>1. CASE n = 0
      BY <2>1, <3>1
    <3>2. CASE n \in 1 .. k
      <4>1. g[n] = f[n] /\ g[n - 1] = f[n - 1]
        BY <3>2
      <4>2. f[n] = Longer(f, n)
        BY <2>1, <3>2
      <4>3. QED
        BY <3>2, <4>1, <4>2
    <3>3. CASE n = k + 1
      <4>1. g[n] = last /\ g[k] = f[k] /\ n - 1 = k /\ n # 0
        BY <3>3
      <4>2. QED
        BY <3>3, <4>1
    <3>4. QED
      BY <3>1, <3>2, <3>3
  <2>3. g = [n \in 0 .. k + 1 |-> Longer(g, n)]
    BY <2>2
  <2>4. \E h : h = [n \in 0 .. k + 1 |-> Longer(h, n)]
    <3> HIDE DEF g
    <3>1. QED
      BY <2>3
  <2>5. k + 1 \in Nat
    OBVIOUS
  <2>6. QED
    BY <2>4, <2>5, Zenon
<1>3. Len(lines) \in Defined
  <2> HIDE DEF Defined
  <2>1. \A n \in Nat : n \in Defined
    BY <1>1, <1>2, TableAssumptions, DP!NatInductionOnSets
  <2>2. QED
    BY <2>1
<1>4. QED
  BY <1>3 DEF Language!Kept, none, With

LEMMA KeptStep ==
  ASSUME NEW lines \in Seq(Seq(Lexemes))
  PROVE  /\ Language!Kept(lines)[0] = <<>>
         /\ \A n \in Nat : n + 1 <= Len(lines) =>
              Language!Kept(lines)[n + 1] =
                IF lines[n + 1] = <<>> THEN Language!Kept(lines)[n]
                ELSE Append(Language!Kept(lines)[n], lines[n + 1])
<1>1. \A n \in 0 .. Len(lines) :
        Language!Kept(lines)[n] =
          IF n = 0 THEN <<>>
          ELSE IF lines[n] = <<>> THEN Language!Kept(lines)[n - 1]
          ELSE Append(Language!Kept(lines)[n - 1], lines[n])
  BY KeptIsDefined
<1>2. Language!Kept(lines)[0] = <<>>
  <2>1. 0 \in 0 .. Len(lines)
    OBVIOUS
  <2>2. QED
    BY <1>1, <2>1, Zenon
<1>3. ASSUME NEW n \in Nat, n + 1 <= Len(lines)
      PROVE  Language!Kept(lines)[n + 1] =
               IF lines[n + 1] = <<>> THEN Language!Kept(lines)[n]
               ELSE Append(Language!Kept(lines)[n], lines[n + 1])
  <2>1. n + 1 \in 0 .. Len(lines) /\ n + 1 # 0 /\ (n + 1) - 1 = n
    BY <1>3
  <2>2. QED
    BY <1>1, <2>1, Zenon
<1>4. QED
  BY <1>2, <1>3

Code(n) == Language!Kept(source)[n]

Statement == Seq(Lexemes) \ {<<>>}

LEMMA Appended ==
  ASSUME NEW S, NEW s \in Seq(S), NEW e \in S
  PROVE  /\ Append(s, e) \in Seq(S) /\ Len(Append(s, e)) = Len(s) + 1 /\ Len(s) \in Nat
         /\ \A i \in 1 .. Len(s) : Append(s, e)[i] = s[i]
         /\ Append(s, e)[Len(s) + 1] = e
  OBVIOUS

LEMMA CodeStep ==
  ASSUME source \in Programs
  PROVE  /\ source \in Seq(Seq(Lexemes)) /\ Len(source) \in Nat
         /\ Code(0) = <<>> /\ Language!Code = Code(Len(source))
         /\ \A n \in Nat : n + 1 <= Len(source) =>
              /\ source[n + 1] = <<>> \/ source[n + 1] \in Statement
              /\ source[n + 1] = <<>> => Code(n + 1) = Code(n)
              /\ source[n + 1] # <<>> => Code(n + 1) = Append(Code(n), source[n + 1])
<1>1. source \in Seq(Seq(Lexemes)) /\ Len(source) \in Nat
  BY AssemblerAssumption
<1>2. ASSUME NEW n \in Nat, n + 1 <= Len(source)
      PROVE  source[n + 1] = <<>> \/ source[n + 1] \in Statement
  BY <1>1, <1>2 DEF Statement
<1>3. QED
  BY <1>1, <1>2, KeptStep DEF Code, Language!Code

\* The lines kept are statements, none of them empty.
LEMMA KeptLines ==
  ASSUME source \in Programs
  PROVE  \A n \in Nat : n <= Len(source) =>
           /\ Code(n) \in Seq(Statement) /\ Len(Code(n)) \in Nat
<1> DEFINE Kept == {n \in Nat : n <= Len(source) => Code(n) \in Seq(Statement)}
<1>1. 0 \in Kept
  <2>1. <<>> \in Seq(Statement)
    OBVIOUS
  <2>2. QED
    BY <2>1, CodeStep
<1>2. ASSUME NEW n \in Nat, n \in Kept PROVE n + 1 \in Kept
  <2> SUFFICES ASSUME n + 1 <= Len(source) PROVE Code(n + 1) \in Seq(Statement)
    OBVIOUS
  <2>1. Code(n) \in Seq(Statement)
    BY <1>2, CodeStep
  <2>2. QED
    BY <2>1, CodeStep, Appended
<1>3. QED
  <2> HIDE DEF Kept
  <2>1. \A n \in Nat : n \in Kept
    BY <1>1, <1>2, TableAssumptions, DP!NatInductionOnSets
  <2>2. \A n \in Nat : n <= Len(source) => Code(n) \in Seq(Statement)
    BY <2>1 DEF Kept
  <2>3. QED
    BY <2>2

\* They stay where they are when other lines follow.
LEMMA KeptGrows ==
  ASSUME source \in Programs, NEW m \in Nat, m <= Len(source)
  PROVE  /\ Len(Code(m)) <= Len(Code(Len(source)))
         /\ \A i \in 1 .. Len(Code(m)) : Code(Len(source))[i] = Code(m)[i]
<1> DEFINE Longer == {n \in Nat : m + n <= Len(source) =>
                        /\ Len(Code(m)) <= Len(Code(m + n))
                        /\ \A i \in 1 .. Len(Code(m)) : Code(m + n)[i] = Code(m)[i]}
<1>1. source \in Seq(Seq(Lexemes)) /\ Len(source) \in Nat
  BY AssemblerAssumption
<1>2. 0 \in Longer
  <2>1. Code(m + 0) = Code(m) /\ Len(Code(m)) \in Nat
    BY KeptLines
  <2>2. QED
    BY <2>1
<1>3. ASSUME NEW n \in Nat, n \in Longer PROVE n + 1 \in Longer
  <2> SUFFICES ASSUME m + (n + 1) <= Len(source)
               PROVE  /\ Len(Code(m)) <= Len(Code(m + (n + 1)))
                      /\ \A i \in 1 .. Len(Code(m)) : Code(m + (n + 1))[i] = Code(m)[i]
    OBVIOUS
  <2> DEFINE o == m + n
  <2>1. o \in Nat /\ o + 1 <= Len(source) /\ o <= Len(source) /\ m + (n + 1) = o + 1
    BY <1>1
  <2>2. /\ Code(o) \in Seq(Statement) /\ Len(Code(o)) \in Nat
        /\ Len(Code(m)) \in Nat /\ Len(Code(m)) <= Len(Code(o))
        /\ \A i \in 1 .. Len(Code(m)) : Code(o)[i] = Code(m)[i]
    BY <1>1, <1>3, <2>1, KeptLines
  <2> HIDE DEF o
  <2>3. CASE source[o + 1] = <<>>
    <3>1. Code(o + 1) = Code(o)
      BY <2>1, <2>3, CodeStep
    <3>2. QED
      BY <2>1, <2>2, <3>1
  <2>4. CASE source[o + 1] # <<>>
    <3>1. Code(o + 1) = Append(Code(o), source[o + 1]) /\ source[o + 1] \in Statement
      BY <2>1, <2>4, CodeStep
    <3>2. /\ Len(Code(o + 1)) = Len(Code(o)) + 1
          /\ \A i \in 1 .. Len(Code(o)) : Code(o + 1)[i] = Code(o)[i]
      BY <2>2, <3>1, Appended
    <3>3. QED
      BY <2>1, <2>2, <3>2
  <2>5. QED
    BY <2>3, <2>4
<1>4. Len(source) - m \in Nat /\ m + (Len(source) - m) = Len(source)
  BY <1>1
<1>5. QED
  <2> HIDE DEF Longer
  <2>1. \A n \in Nat : n \in Longer
    BY <1>2, <1>3, TableAssumptions, DP!NatInductionOnSets
  <2>2. Len(source) - m \in Longer
    BY <1>4, <2>1
  <2>3. QED
    BY <1>4, <2>2 DEF Longer

-----------------------------------------------------------------------------
\* Lines and tokens

LEMMA SameWords ==
  /\ Language!Alone = DOMAIN plain
  /\ DOMAIN Language!Digit = DOMAIN mnemonic_to_prefix
  /\ \A m \in DOMAIN mnemonic_to_prefix : Language!Digit[m] = mnemonic_to_prefix[m]
  /\ \A m \in DOMAIN plain : m # "DAT" /\ m \notin DOMAIN mnemonic_to_prefix
  /\ \A m \in DOMAIN mnemonic_to_prefix : m # "DAT"
  BY DEF Language!Alone, Language!Digit, plain, mnemonic_to_prefix,
         OP_LMC_ADD, OP_LMC_SUB, OP_LMC_STA, OP_LMC_LDA, OP_LMC_BRA, OP_LMC_BRZ, OP_LMC_BRP

LEMMA SameReserved ==
  ASSUME NEW lexeme
  PROVE  Language!Reserved(lexeme) <=> Upper[lexeme] \in Mnemonics
<1>1. Mnemonics = Language!Alone \cup DOMAIN Language!Digit \cup {"DAT"}
  BY SameWords DEF Mnemonics
<1>2. QED
  BY <1>1 DEF Language!Reserved

\* The lexer looks for the mnemonic at two places and counts the words; the
\* language has it as the first word that is reserved.
LEMMA LineIsToken ==
  ASSUME NEW line \in Statement
  PROVE  /\ Language!IsStatement(line) <=> Lexes(line)
         /\ Lexes(line) => /\ TokenOf(line) \in Token
                           /\ Language!Mnemonic(line) = TokenOf(line).mnemonic
                           /\ Language!Label(line) = TokenOf(line).label
                           /\ Language!Operand(line) = TokenOf(line).operand
<1>1. Len(line) \in Nat \ {0} /\ \A i \in 1 .. Len(line) : line[i] \in Lexemes
  BY DEF Statement
<1> DEFINE Is(i) == Upper[line[i]] \in Mnemonics
<1>2. \A i \in 1 .. Len(line) :
        i \in Language!Verb(line) <=> Is(i) /\ \A j \in 1 .. i - 1 : ~Is(j)
  BY <1>1, SameReserved DEF Language!Verb
<1>3. Language!Verb(line) \subseteq 1 .. Len(line)
  BY <1>1 DEF Language!Verb
<1>4. MnemonicAt(line) \in {0, 1, 2}
  BY DEF MnemonicAt
<1>5. \A i, j \in Language!Verb(line) : i = j
  BY <1>1, <1>2, <1>3
<1> HIDE DEF Is
<1>6. \A i \in Language!Verb(line) : (CHOOSE k \in Language!Verb(line) : TRUE) = i
  BY <1>5
<1>7. \A i \in {1, 2} : i \in Language!Verb(line) <=> MnemonicAt(line) = i
  <2>1. MnemonicAt(line) = IF Is(1) THEN 1 ELSE IF Len(line) > 1 /\ Is(2) THEN 2 ELSE 0
    BY DEF MnemonicAt, Is
  <2>2. 1 \in Language!Verb(line) <=> Is(1)
    BY <1>1, <1>2
  <2>3. 2 \in Language!Verb(line) <=> Len(line) > 1 /\ Is(2) /\ ~Is(1)
    BY <1>1, <1>2, <1>3
  <2>4. QED
    BY <2>1, <2>2, <2>3
<1>8. Language!IsStatement(line) <=> Lexes(line)
  <2>1. ASSUME Language!IsStatement(line) PROVE Lexes(line)
    <3>1. PICK i \in Language!Verb(line) : i <= 2 /\ Len(line) <= i + 1
      BY <2>1 DEF Language!IsStatement
    <3>2. i \in {1, 2}
      BY <1>1, <1>3, <3>1
    <3>3. QED
      BY <1>7, <3>1, <3>2 DEF Lexes
  <2>2. ASSUME Lexes(line) PROVE Language!IsStatement(line)
    BY <1>4, <1>7, <2>2 DEF Lexes, Language!IsStatement
  <2>3. QED
    BY <2>1, <2>2
<1>9. ASSUME Lexes(line)
      PROVE  /\ TokenOf(line) \in Token
             /\ Language!Mnemonic(line) = TokenOf(line).mnemonic
             /\ Language!Label(line) = TokenOf(line).label
             /\ Language!Operand(line) = TokenOf(line).operand
  <2> DEFINE at == MnemonicAt(line)
  <2>1. at \in {1, 2} /\ Len(line) <= at + 1 /\ at \in Language!Verb(line)
    BY <1>4, <1>7, <1>9 DEF Lexes
  <2>2. at <= Len(line)
    BY <1>1, <1>3, <2>1
  <2>3. TokenOf(line) = [label    |-> IF at = 1 THEN None ELSE line[1],
                         mnemonic |-> Upper[line[at]],
                         operand  |-> IF Len(line) > at THEN line[at + 1] ELSE None]
    BY DEF TokenOf
  <2>4. TokenOf(line) \in Token
    BY <1>9, TokenOfIsAToken DEF Statement
  <2>5. Language!Mnemonic(line) = Upper[line[at]]
    BY <1>6, <2>1 DEF Language!Mnemonic
  <2>6. Language!Label(line) = IF at = 1 THEN None ELSE line[1]
    <3>1. Language!Reserved(line[1]) <=> Is(1)
      BY SameReserved DEF Is
    <3>2. 1 \in Language!Verb(line) <=> Is(1)
      BY <1>1, <1>2
    <3>3. at = 1 <=> 1 \in Language!Verb(line)
      BY <1>7
    <3>4. QED
      BY <3>1, <3>2, <3>3 DEF Language!Label
  <2>7. Language!Operand(line) = IF Len(line) > at THEN line[at + 1] ELSE None
    <3>1. CASE Len(line) = at
      <4>1. Is(at)
        BY <1>2, <2>1, <2>2, <1>1
      <4>2. Language!Reserved(line[Len(line)]) /\ Len(line) \in Language!Verb(line)
        BY <2>1, <3>1, <4>1, SameReserved DEF Is
      <4>3. ~(Len(line) > at)
        BY <1>1, <3>1
      <4>4. QED
        BY <4>2, <4>3 DEF Language!Operand
    <3>2. CASE Len(line) = at + 1
      <4>1. Len(line) \notin Language!Verb(line)
        BY <1>5, <2>1, <3>2
      <4>2. Len(line) > at
        BY <2>1, <3>2
      <4>3. QED
        BY <3>2, <4>1, <4>2 DEF Language!Operand
    <3>3. QED
      BY <1>1, <2>1, <2>2, <3>1, <3>2
  <2>8. QED
    BY <2>3, <2>4, <2>5, <2>6, <2>7
<1>10. QED
  BY <1>8, <1>9

-----------------------------------------------------------------------------
\* The program, as its tokens show it

\* The tokens are those of the first n lines.
LexedTo(n) ==
  /\ Len(tokens) = Len(Code(n))
  /\ \A i \in 1 .. Len(tokens) : Lexes(Code(n)[i]) /\ tokens[i] = TokenOf(Code(n)[i])

Lexed == LexedTo(Len(source))

\* Among the first n tokens, token i has a label of its own where one is due.
LabelFine(i, n) ==
  IF tokens[i].label = None THEN tokens[i].mnemonic # "DAT"
  ELSE /\ tokens[i].label \in Names
       /\ \A j \in 1 .. n : tokens[j].label = tokens[i].label => j = i

Declared(name) == \E j \in 1 .. Len(tokens) : tokens[j].label = name

OperandFine(t) ==
  IF t.mnemonic \in DOMAIN plain THEN t.operand = None
  ELSE \/ t.operand \in Names /\ Declared(t.operand)
       \/ t.operand \in Numerals /\ NumeralValue[t.operand] <= MaxOperand(t)

LabelledTo(n) == {i \in 1 .. n : tokens[i].label # None}

LEMMA Distinct ==
  /\ None \notin Names /\ None \notin Numerals
  /\ \A name \in Names : name \notin Numerals
  /\ \A n \in Numerals : NumeralValue[n] \in Nat
  /\ Radix \in Nat /\ EXECUTABLE_SIZE \in Nat
  BY AssemblerAssumption, MachineAssumption

LEMMA TokensAreTheCode ==
  ASSUME source \in Programs, tokens \in Seq(Token), Lexed
  PROVE  /\ Len(tokens) \in Nat /\ Len(Language!Code) = Len(tokens)
         /\ DOMAIN Language!Code = 1 .. Len(tokens)
         /\ \A i \in 1 .. Len(tokens) :
              /\ Language!IsStatement(Language!Code[i])
              /\ Language!Mnemonic(Language!Code[i]) = tokens[i].mnemonic
              /\ Language!Label(Language!Code[i]) = tokens[i].label
              /\ Language!Operand(Language!Code[i]) = tokens[i].operand
         /\ Language!Labelled = LabelledTo(Len(tokens))
         /\ \A name \in Names :
              Language!Named(name) = {i \in 1 .. Len(tokens) : tokens[i].label = name}
<1>1. /\ Language!Code \in Seq(Statement) /\ Len(Language!Code) = Len(tokens)
      /\ Len(tokens) \in Nat /\ Language!Code = Code(Len(source))
  BY CodeStep, KeptLines DEF Lexed, LexedTo
<1>2. DOMAIN Language!Code = 1 .. Len(tokens)
  BY <1>1
<1>3. ASSUME NEW i \in 1 .. Len(tokens)
      PROVE  /\ Language!IsStatement(Language!Code[i])
             /\ Language!Mnemonic(Language!Code[i]) = tokens[i].mnemonic
             /\ Language!Label(Language!Code[i]) = tokens[i].label
             /\ Language!Operand(Language!Code[i]) = tokens[i].operand
  <2>1. Language!Code[i] \in Statement
    BY <1>1
  <2>2. Lexes(Language!Code[i]) /\ tokens[i] = TokenOf(Language!Code[i])
    BY <1>1 DEF Lexed, LexedTo
  <2>3. QED
    BY <2>1, <2>2, LineIsToken
<1>4. Language!Labelled = LabelledTo(Len(tokens))
  BY <1>2, <1>3 DEF Language!Labelled, LabelledTo
<1>5. ASSUME NEW name \in Names
      PROVE  Language!Named(name) = {i \in 1 .. Len(tokens) : tokens[i].label = name}
  BY <1>3, <1>4, Distinct DEF Language!Named, LabelledTo
<1>6. QED
  BY <1>1, <1>2, <1>3, <1>4, <1>5

LEMMA WellFormedTokens ==
  ASSUME source \in Programs, tokens \in Seq(Token), Lexed
  PROVE  Language!WellFormed <=>
           /\ Len(tokens) \in 1 .. EXECUTABLE_SIZE
           /\ \A i \in 1 .. Len(tokens) : LabelFine(i, Len(tokens)) /\ OperandFine(tokens[i])
<1> DEFINE n == Len(tokens)
           C == Language!Code
<1>1. /\ n \in Nat /\ Len(C) = n /\ DOMAIN C = 1 .. n
      /\ \A i \in 1 .. n : /\ Language!IsStatement(C[i])
                           /\ Language!Mnemonic(C[i]) = tokens[i].mnemonic
                           /\ Language!Label(C[i]) = tokens[i].label
                           /\ Language!Operand(C[i]) = tokens[i].operand
      /\ Language!Labelled = LabelledTo(n)
      /\ \A name \in Names : Language!Named(name) = {i \in 1 .. n : tokens[i].label = name}
  BY TokensAreTheCode
<1> HIDE DEF n, C
<1>2. ASSUME NEW i \in 1 .. n
      PROVE  Language!GoodLabel(i) <=> LabelFine(i, n)
  <2>1. i \in Language!Labelled <=> tokens[i].label # None
    BY <1>1 DEF LabelledTo
  <2>2. Language!Label(C[i]) = tokens[i].label /\ Language!Mnemonic(C[i]) = tokens[i].mnemonic
    BY <1>1
  <2>3. tokens[i].label \in Names =>
          (Language!Named(tokens[i].label) = {i} <=>
             \A j \in 1 .. n : tokens[j].label = tokens[i].label => j = i)
    BY <1>1
  <2>4. QED
    BY <2>1, <2>2, <2>3 DEF Language!GoodLabel, LabelFine, C
<1>3. ASSUME NEW i \in 1 .. n
      PROVE  Language!GoodOperand(i) <=> OperandFine(tokens[i])
  <2>1. Language!Operand(C[i]) = tokens[i].operand /\ Language!Mnemonic(C[i]) = tokens[i].mnemonic
    BY <1>1
  <2>2. tokens[i].operand \in Names =>
          (Language!Named(tokens[i].operand) # {} <=> Declared(tokens[i].operand))
    BY <1>1 DEF Declared, n
  <2>3. Language!Bound(i) = MaxOperand(tokens[i]) + 1 /\ MaxOperand(tokens[i]) \in Int
    BY <2>1, Distinct DEF Language!Bound, MaxOperand, C
  <2>4. tokens[i].operand \in Numerals =>
          (NumeralValue[tokens[i].operand] < Language!Bound(i) <=>
             NumeralValue[tokens[i].operand] <= MaxOperand(tokens[i]))
    BY <2>3, Distinct
  <2>5. QED
    BY <2>1, <2>2, <2>4, SameWords DEF Language!GoodOperand, OperandFine, C
<1>4. QED
  BY <1>1, <1>2, <1>3 DEF Language!WellFormed, n, C

LEMMA EncodedTokens ==
  ASSUME source \in Programs, tokens \in Seq(Token), Lexed, NEW i \in 1 .. Len(tokens)
  PROVE  /\ tokens[i].mnemonic \in DOMAIN plain =>
              Language!Encoded(Language!Code[i]) = plain[tokens[i].mnemonic]
         /\ tokens[i].mnemonic \notin DOMAIN plain /\ tokens[i].operand \in Numerals =>
              Language!Encoded(Language!Code[i]) =
                Encoding(tokens[i], NumeralValue[tokens[i].operand])
         /\ \A j \in 1 .. Len(tokens) :
              /\ tokens[i].mnemonic \notin DOMAIN plain /\ tokens[i].operand \in Names
              /\ tokens[j].label = tokens[i].operand /\ LabelFine(j, Len(tokens))
              => Language!Encoded(Language!Code[i]) = Encoding(tokens[i], j - 1)
<1> DEFINE t == tokens[i]
           line == Language!Code[i]
<1>1. /\ Language!Mnemonic(line) = t.mnemonic /\ Language!Operand(line) = t.operand
      /\ t.mnemonic \in Mnemonics
      /\ \A name \in Names :
           Language!Named(name) = {j \in 1 .. Len(tokens) : tokens[j].label = name}
  <2>1. t \in Token
    BY TokensAreTheCode
  <2>2. t.mnemonic \in Mnemonics
    BY <2>1 DEF Token
  <2>3. QED
    BY <2>2, TokensAreTheCode
<1>2. CASE t.mnemonic \in DOMAIN plain
  <2>1. t.mnemonic \in {"INP", "OUT", "HLT"}
    BY <1>2 DEF plain
  <2>2. Language!Encoded(line) = plain[t.mnemonic]
    BY <1>1, <2>1
    DEF Language!Encoded, plain, OP_LMC_IO_OP_INP, OP_LMC_IO_OP_OUT, OP_LMC_HLT,
        Language!OP_LMC_IO_OP_INP, Language!OP_LMC_IO_OP_OUT, Language!OP_LMC_HLT
  <2>3. QED
    BY <1>2, <2>2
<1>3. CASE t.mnemonic \notin DOMAIN plain
  <2>1. t.mnemonic \notin {"INP", "OUT", "HLT"}
    BY <1>3 DEF plain
  <2>2. t.mnemonic # "DAT" => Language!Digit[t.mnemonic] = mnemonic_to_prefix[t.mnemonic]
    BY <1>1, <1>3, SameWords DEF Mnemonics
  <2>3. Language!Encoded(line) = Encoding(t, Language!Value(t.operand))
    BY <1>1, <2>1, <2>2 DEF Language!Encoded, Encoding
  <2>4. t.operand \in Numerals => Language!Value(t.operand) = NumeralValue[t.operand]
    BY Distinct DEF Language!Value
  <2>5. ASSUME NEW j \in 1 .. Len(tokens), t.operand \in Names,
               tokens[j].label = t.operand, LabelFine(j, Len(tokens))
        PROVE  Language!Value(t.operand) = j - 1
    <3>1. Language!Named(t.operand) = {j}
      BY <1>1, <2>5, Distinct DEF LabelFine
    <3>2. (CHOOSE k \in Language!Named(t.operand) : TRUE) = j
      BY <3>1
    <3>3. QED
      BY <2>5, <3>2 DEF Language!Value
  <2>6. QED
    BY <1>3, <2>3, <2>4, <2>5
<1>4. QED
  BY <1>2, <1>3

-----------------------------------------------------------------------------
\* What the passes have found out

\* The labels of the first n tokens are new names, and stored with their place.
Resolved(n) ==
  \A i \in 1 .. n : /\ LabelFine(i, n)
                    /\ tokens[i].label # None => DP!Stored(tokens[i].label) = i - 1

LabelsOf(n) == {tokens[i].label : i \in LabelledTo(n)}

\* The first n cells of the executable are what the language puts there.
Generated(n) ==
  /\ \A i \in 1 .. n : /\ OperandFine(tokens[i])
                       /\ executable[i - 1] = Language!Encoded(Language!Code[i])
  /\ \A a \in Address : a >= n => executable[a] = 0

PassMeaning ==
  /\ stage = "lex" => cursor <= Len(source) + 1 /\ LexedTo(cursor - 1)
  /\ stage \in {"lex", "inp_out_hlt"} => known = {} /\ size = 0
  /\ stage \in {"inp_out_hlt", "labels", "references", "numbers", "generate"} =>
       Lexed /\ tokens # <<>>
  /\ stage \in {"labels", "references", "numbers", "generate"} =>
       \A i \in 1 .. Len(tokens) : tokens[i].mnemonic \in DOMAIN plain => tokens[i].operand = None
  /\ stage = "labels" =>
       /\ cursor <= Len(tokens) + 1 /\ Resolved(cursor - 1)
       /\ known = LabelsOf(cursor - 1) /\ size = Cardinality(LabelledTo(cursor - 1))
  /\ stage = "references" => known = LabelsOf(Len(tokens))
  /\ stage \in {"references", "numbers", "generate"} => Resolved(Len(tokens))
  /\ stage \in {"numbers", "generate"} =>
       \A i \in 1 .. Len(tokens) : tokens[i].operand \in Names => Declared(tokens[i].operand)
  /\ stage = "generate" => cursor <= Len(tokens) + 1 /\ Generated(cursor - 1)

\* What the assembler ends with is what the language says of the program.
EndMeaning ==
  /\ stage = "free" => IF executable = None THEN ~Language!WellFormed
                       ELSE Language!WellFormed /\ executable = Language!Image
  /\ stage = "done" => Language!WellFormed /\ executable = Language!Image
  /\ stage = "failed" => ~Language!WellFormed

MeaningInv == ~Grown => PassMeaning /\ EndMeaning

LEMMA InitMeaningInv == Init => MeaningInv
<1> SUFFICES ASSUME Init PROVE MeaningInv
  OBVIOUS
<1>1. source \in Programs /\ stage = "lex" /\ cursor = 1 /\ tokens = <<>> /\ known = {}
      /\ size = 0
  BY DEF Init, Dict!Init
<1>2. Code(0) = <<>> /\ Len(source) \in Nat
  BY <1>1, CodeStep
<1>3. LexedTo(0)
  BY <1>1, <1>2 DEF LexedTo
<1>4. QED
  BY <1>1, <1>2, <1>3 DEF MeaningInv, PassMeaning, EndMeaning

\* Nobody writes to the source.
LEMMA SourceStays ==
  ASSUME source' = source
  PROVE  /\ Language!WellFormed' = Language!WellFormed
         /\ Language!Image' = Language!Image
         /\ Language!Labelled' = Language!Labelled
         /\ Language!Code' = Language!Code
         /\ \A line : Language!Encoded(line)' = Language!Encoded(line)
<1>1. Language!Code' = Language!Code
  BY DEF Language!Code
<1>2. Language!Labelled' = Language!Labelled
  BY <1>1 DEF Language!Labelled
<1>3. \A name : Language!Named(name)' = Language!Named(name)
  BY <1>1, <1>2 DEF Language!Named
<1>4. \A i : /\ Language!GoodLabel(i)' = Language!GoodLabel(i)
             /\ Language!GoodOperand(i)' = Language!GoodOperand(i)
  BY <1>1, <1>2, <1>3 DEF Language!GoodLabel, Language!GoodOperand, Language!Bound
<1>5. Language!WellFormed' = Language!WellFormed
  BY <1>1, <1>4 DEF Language!WellFormed
<1>6. \A line : Language!Encoded(line)' = Language!Encoded(line)
  <2>1. ASSUME NEW operand PROVE Language!Value(operand)' = Language!Value(operand)
    <3>1. Language!Named(operand)' = Language!Named(operand)
      BY <1>3
    <3>2. QED
      BY <3>1 DEF Language!Value
  <2>2. QED
    BY <2>1 DEF Language!Encoded
<1>7. Language!Image' = Language!Image
  BY <1>1, <1>6 DEF Language!Image
<1>8. QED
  BY <1>1, <1>2, <1>5, <1>6, <1>7

LEMMA GrownStays ==
  ASSUME PassInv, [Next]_vars, ~Grown'
  PROVE  ~Grown
<1>1. capacity \in Nat /\ INIT_CAPACITY \in Nat
  BY TableAssumption DEF PassInv, TableInv, DP!SoundInv, DP!CellsAreSound
<1>2. CASE capacity' = capacity
  BY <1>2 DEF Grown
<1>3. CASE ParseLabel
  <2>1. capacity' \in {capacity, 2 * capacity}
    BY <1>3, SameSet
    DEF ParseLabel, dict, DP!set_item, DP!SetInPlace, DP!SetGrowing, DP!SetCrashes, DP!Put,
        DP!dict
  <2>2. QED
    BY <1>1, <2>1 DEF Grown
<1>4. CASE ~ParseLabel
  <2>1. capacity' = capacity
    BY <1>4, SameGet
    DEF Next, Run, Stays, vars, dict, LexEmptyLine, LexLine, LexEnd, validate_inp_out_hlt,
        LabelsEnd, CheckReferences, validate_numerical_operands, GeneratePlain,
        GenerateNothing, GenerateNumeral, GenerateLabel, GenerateEnd, FreeAll,
        DP!get_item, DP!dict
  <2>2. QED
    BY <1>2, <2>1
<1>5. QED
  BY <1>3, <1>4

LEMMA PassTypes ==
  ASSUME PassInv
  PROVE  /\ source \in Programs /\ tokens \in Seq(Token) /\ Len(tokens) \in Nat
         /\ cursor \in Nat \ {0} /\ Len(source) \in Nat
         /\ Len(tokens) <= EXECUTABLE_SIZE
         /\ known \subseteq Names /\ size \in Nat
         /\ \A i \in 1 .. Len(tokens) : tokens[i] \in Token
<1>1. source \in Programs /\ tokens \in Seq(Token) /\ cursor \in Nat \ {0}
      /\ Len(tokens) <= EXECUTABLE_SIZE /\ known \subseteq Names
  BY DEF PassInv, IInv, TokensOK, Counted
<1>2. size \in Nat
  BY DEF PassInv, TableInv, DP!SoundInv, DP!TypeOK
<1>3. QED
  BY <1>1, <1>2, CodeStep

LEMMA LexerMeaning ==
  ASSUME PassInv, PassMeaning, LexEmptyLine \/ LexLine \/ LexEnd
  PROVE  PassMeaning' /\ EndMeaning'
<1> DEFINE n == cursor - 1
           line == source[n + 1]
<1>1. /\ source \in Programs /\ tokens \in Seq(Token) /\ Len(tokens) \in Nat
      /\ cursor \in Nat \ {0} /\ Len(source) \in Nat
  BY PassTypes
<1>2. /\ stage = "lex" /\ LexedTo(n) /\ known = {} /\ size = 0
      /\ n \in Nat /\ n <= Len(source) /\ n + 1 = cursor
  BY <1>1 DEF PassMeaning, LexEmptyLine, LexLine, LexEnd, In
<1>3. known' = {} /\ size' = 0 /\ source' = source
  BY <1>2 DEF LexEmptyLine, LexLine, LexEnd, dict
<1>4. Code(n) \in Seq(Statement) /\ Len(Code(n)) = Len(tokens)
  BY <1>1, <1>2, KeptLines DEF LexedTo
<1> HIDE DEF n
<1>5. CASE LexEmptyLine
  <2>1. n + 1 <= Len(source) /\ line = <<>> /\ cursor' = n + 2 /\ tokens' = tokens
        /\ stage' = "lex"
    BY <1>2, <1>5 DEF LexEmptyLine, AfterEmptyLine
  <2>2. Code(n + 1) = Code(n)
    BY <1>1, <1>2, <2>1, CodeStep
  <2>3. LexedTo(n + 1)
    BY <1>2, <2>2 DEF LexedTo
  <2>4. cursor' <= Len(source') + 1 /\ LexedTo(cursor - 1)'
    <3>1. cursor' - 1 = n + 1 /\ n + 2 <= Len(source) + 1
      BY <1>1, <1>2, <2>1
    <3>2. QED
      BY <1>3, <2>1, <2>3, <3>1 DEF LexedTo, Code
  <2>5. QED
    BY <1>3, <2>1, <2>4 DEF PassMeaning, EndMeaning
<1>6. CASE LexLine
  <2>1. n + 1 <= Len(source) /\ line # <<>> /\ line = source[cursor]
    BY <1>2, <1>6 DEF LexLine
  <2>2. Code(n + 1) = Append(Code(n), line) /\ line \in Statement
    BY <1>1, <1>2, <2>1, CodeStep
  <2>3. /\ Len(Code(n + 1)) = Len(tokens) + 1
        /\ \A i \in 1 .. Len(tokens) : Code(n + 1)[i] = Code(n)[i]
        /\ Code(n + 1)[Len(tokens) + 1] = line
    BY <1>4, <2>2, Appended
  <2> HIDE DEF line
  <2>4. CASE Lexes(line) /\ FitsInMemory
    <3>1. tokens' = Append(tokens, TokenOf(line)) /\ cursor' = n + 2 /\ stage' = "lex"
      BY <1>2, <1>6, <2>1, <2>4 DEF LexLine
    <3>2. TokenOf(line) \in Token
      BY <2>2, <2>4, LineIsToken
    <3>3. /\ Len(tokens') = Len(tokens) + 1
          /\ \A i \in 1 .. Len(tokens) : tokens'[i] = tokens[i]
          /\ tokens'[Len(tokens) + 1] = TokenOf(line)
      BY <1>1, <3>1, <3>2, Appended
    <3>4. /\ Len(tokens') = Len(Code(n + 1))
          /\ \A i \in 1 .. Len(tokens') : /\ Lexes(Code(n + 1)[i])
                                          /\ tokens'[i] = TokenOf(Code(n + 1)[i])
      <4>1. Len(tokens') = Len(Code(n + 1))
        BY <2>3, <3>3
      <4>2. ASSUME NEW i \in 1 .. Len(tokens')
            PROVE  Lexes(Code(n + 1)[i]) /\ tokens'[i] = TokenOf(Code(n + 1)[i])
        <5>1. i \in 1 .. Len(tokens) \/ i = Len(tokens) + 1
          BY <1>1, <3>3
        <5>2. CASE i \in 1 .. Len(tokens)
          BY <1>2, <2>3, <3>3, <5>2 DEF LexedTo
        <5>3. CASE i = Len(tokens) + 1
          BY <2>3, <2>4, <3>3, <5>3
        <5>4. QED
          BY <5>1, <5>2, <5>3
      <4>3. QED
        BY <4>1, <4>2
    <3>5. cursor' <= Len(source') + 1 /\ LexedTo(cursor - 1)'
      <4>1. cursor' - 1 = n + 1 /\ n + 2 <= Len(source) + 1
        BY <1>1, <1>2, <2>1, <3>1
      <4>2. QED
        BY <1>3, <3>1, <3>4, <4>1 DEF LexedTo, Code
    <3>6. QED
      BY <1>3, <3>1, <3>5 DEF PassMeaning, EndMeaning
  <2>5. CASE ~(Lexes(line) /\ FitsInMemory)
    <3>1. stage' = "failed"
      BY <1>6, <2>1, <2>5 DEF LexLine, Fail
    <3>2. /\ Len(tokens) + 1 <= Len(Language!Code)
          /\ Language!Code[Len(tokens) + 1] = line
          /\ Language!Code \in Seq(Statement) /\ Len(Language!Code) \in Nat
      <4>1. n + 1 \in Nat /\ Len(tokens) + 1 \in 1 .. Len(tokens) + 1
        BY <1>1, <1>2
      <4>2. /\ Len(Code(n + 1)) <= Len(Code(Len(source)))
            /\ \A i \in 1 .. Len(Code(n + 1)) : Code(Len(source))[i] = Code(n + 1)[i]
        BY <1>1, <2>1, <4>1, KeptGrows
      <4>3. QED
        BY <1>1, <2>3, <4>1, <4>2, KeptLines, CodeStep
    <3>3. ~Language!WellFormed
      <4>1. CASE ~Lexes(line)
        <5>1. Len(tokens) + 1 \in DOMAIN Language!Code
          BY <1>1, <3>2
        <5>2. ~Language!IsStatement(Language!Code[Len(tokens) + 1])
          BY <2>2, <3>2, <4>1, LineIsToken
        <5>3. QED
          BY <5>1, <5>2 DEF Language!WellFormed
      <4>2. CASE ~FitsInMemory
        <5>1. Len(Language!Code) > EXECUTABLE_SIZE
          BY <1>1, <3>2, <4>2, MachineAssumption DEF FitsInMemory
        <5>2. QED
          BY <3>2, <5>1, MachineAssumption DEF Language!WellFormed
      <4>3. QED
        BY <2>5, <4>1, <4>2
    <3>4. QED
      BY <1>3, <3>1, <3>3, SourceStays DEF PassMeaning, EndMeaning
  <2>6. QED
    BY <2>4, <2>5
<1>7. CASE LexEnd
  <2>1. n = Len(source)
    BY <1>1, <1>2, <1>7 DEF LexEnd
  <2>2. Lexed
    BY <1>2, <2>1 DEF Lexed
  <2>3. CASE tokens = <<>>
    <3>1. Len(Language!Code) = 0
      BY <1>1, <2>2, <2>3, TokensAreTheCode
    <3>2. ~Language!WellFormed /\ stage' = "failed"
      BY <1>7, <2>3, <3>1 DEF LexEnd, Fail, Language!WellFormed
    <3>3. QED
      BY <1>3, <3>2, SourceStays DEF PassMeaning, EndMeaning
  <2>4. CASE tokens # <<>>
    <3>1. stage' = "inp_out_hlt" /\ tokens' = tokens
      BY <1>7, <2>4 DEF LexEnd
    <3>2. Lexed'
      BY <1>3, <2>2, <3>1 DEF Lexed, LexedTo, Code
    <3>3. QED
      BY <1>3, <2>4, <3>1, <3>2 DEF PassMeaning, EndMeaning
  <2>5. QED
    BY <2>3, <2>4
<1>8. QED
  BY <1>5, <1>6, <1>7

\* A step that changes neither the source nor the tokens.
LEMMA TokensStay ==
  ASSUME UNCHANGED <<source, tokens>>
  PROVE  /\ Lexed' = Lexed
         /\ \A n : LabelledTo(n)' = LabelledTo(n) /\ LabelsOf(n)' = LabelsOf(n)
         /\ \A i, n : LabelFine(i, n)' = LabelFine(i, n)
         /\ \A name : Declared(name)' = Declared(name)
         /\ \A t : OperandFine(t)' = OperandFine(t)
<1>1. Lexed' = Lexed
  BY DEF Lexed, LexedTo, Code
<1>2. \A n : LabelledTo(n)' = LabelledTo(n) /\ LabelsOf(n)' = LabelsOf(n)
  BY DEF LabelledTo, LabelsOf
<1>3. \A i, n : LabelFine(i, n)' = LabelFine(i, n)
  BY DEF LabelFine
<1>4. \A name : Declared(name)' = Declared(name)
  BY DEF Declared
<1>5. \A t : OperandFine(t)' = OperandFine(t)
  BY <1>4 DEF OperandFine, MaxOperand
<1>6. QED
  BY <1>1, <1>2, <1>3, <1>4, <1>5

LEMMA ResolvedStays ==
  ASSUME UNCHANGED <<tokens, entries, capacity>>, NEW n
  PROVE  Resolved(n)' = Resolved(n)
<1>1. \A name : DP!Stored(name)' = DP!Stored(name)
  BY DEF DP!Stored, DP!Holding
<1>2. \A i : LabelFine(i, n)' = LabelFine(i, n)
  BY DEF LabelFine
<1>3. QED
  BY <1>1, <1>2 DEF Resolved

\* One operand that is not fine and the program is not of the language.
LEMMA OneBadOperand ==
  ASSUME PassInv, Lexed, NEW i \in 1 .. Len(tokens), ~OperandFine(tokens[i])
  PROVE  ~Language!WellFormed
  BY PassTypes, WellFormedTokens

LEMMA BadNumberIsBad ==
  ASSUME NEW t \in Token, BadNumber(t), t.mnemonic \in DOMAIN plain => t.operand = None
  PROVE  ~OperandFine(t)
<1>1. t.mnemonic \notin DOMAIN plain /\ t.operand \notin Names
  BY DEF BadNumber
<1>2. ASSUME t.operand \in Numerals, NumeralValue[t.operand] <= MaxOperand(t) PROVE FALSE
  <2> DEFINE v == NumeralValue[t.operand]
  <2>1. v \in Nat /\ MaxOperand(t) \in Nat /\ MaxOperand(t) <= IntMax /\ IntMax \in Nat
    BY <1>2, Distinct, MachineAssumption DEF MaxOperand
  <2>2. v \in 0 .. IntMax /\ v \in 0 .. MaxOperand(t)
    BY <1>2, <2>1
  <2>3. AsInt(v) = v
    BY <2>2, AsIntOfAnInt
  <2>4. QED
    BY <1>2, <2>2, <2>3 DEF BadNumber
<1>3. QED
  BY <1>1, <1>2 DEF OperandFine

LEMMA ValidatorMeaning ==
  ASSUME PassInv, PassMeaning,
         validate_inp_out_hlt \/ LabelsEnd \/ CheckReferences \/ validate_numerical_operands
  PROVE  PassMeaning' /\ EndMeaning'
<1>1. /\ source \in Programs /\ tokens \in Seq(Token) /\ Len(tokens) \in Nat
      /\ cursor \in Nat \ {0} /\ DOMAIN tokens = 1 .. Len(tokens)
      /\ \A i \in 1 .. Len(tokens) : tokens[i] \in Token
  BY PassTypes
<1>2. /\ UNCHANGED <<source, tokens, entries, size, capacity>>
      /\ Lexed /\ tokens # <<>>
  BY DEF PassMeaning, validate_inp_out_hlt, LabelsEnd, CheckReferences,
         validate_numerical_operands, Check, In, dict
<1>3. Lexed' /\ tokens' # <<>>
  BY <1>2, TokensStay
<1>4. /\ \A n : LabelledTo(n)' = LabelledTo(n) /\ LabelsOf(n)' = LabelsOf(n)
      /\ \A name : Declared(name)' = Declared(name)
      /\ \A n : Resolved(n)' = Resolved(n)
  BY <1>2, TokensStay, ResolvedStays
<1>5. CASE stage' = "failed" /\ \E i \in 1 .. Len(tokens) : ~OperandFine(tokens[i])
  <2>1. ~Language!WellFormed'
    BY <1>2, <1>5, OneBadOperand, SourceStays
  <2>2. QED
    BY <1>5, <2>1 DEF PassMeaning, EndMeaning
<1>6. CASE validate_inp_out_hlt
  <2>1. stage = "inp_out_hlt" /\ known = {} /\ size = 0 /\ known' = known /\ cursor' = 1
    BY <1>6 DEF PassMeaning, validate_inp_out_hlt, Check, In
  <2>2. CASE \E i \in 1 .. Len(tokens) : tokens[i].mnemonic \in DOMAIN plain
                                         /\ tokens[i].operand # None
    <3>1. stage' = "failed" /\ \E i \in 1 .. Len(tokens) : ~OperandFine(tokens[i])
      BY <1>1, <1>6, <2>2 DEF validate_inp_out_hlt, Check, Fail, OperandFine
    <3>2. QED
      BY <1>5, <3>1
  <2>3. CASE ~\E i \in 1 .. Len(tokens) : tokens[i].mnemonic \in DOMAIN plain
                                          /\ tokens[i].operand # None
    <3>1. stage' = "labels"
      BY <1>1, <1>6, <2>3 DEF validate_inp_out_hlt, Check
    <3>2. LabelledTo(0) = {} /\ LabelsOf(0) = {} /\ Resolved(0)
      BY DEF LabelledTo, LabelsOf, Resolved
    <3>3. Cardinality(LabelledTo(0)) = 0
      BY <3>2, FS_EmptySet
    <3>4. /\ cursor' <= Len(tokens') + 1 /\ Resolved(cursor - 1)'
          /\ known' = LabelsOf(cursor - 1)' /\ size' = Cardinality(LabelledTo(cursor - 1))'
      BY <1>1, <1>2, <1>4, <2>1, <3>2, <3>3 DEF LabelledTo, LabelsOf, Resolved
    <3>5. QED
      BY <1>2, <1>3, <2>3, <3>1, <3>4 DEF PassMeaning, EndMeaning
  <2>4. QED
    BY <2>2, <2>3
<1>7. CASE LabelsEnd
  <2>1. /\ stage = "labels" /\ stage' = "references" /\ cursor - 1 = Len(tokens)
        /\ known' = known
    BY <1>1, <1>7 DEF PassMeaning, LabelsEnd, In
  <2>2. known = LabelsOf(Len(tokens)) /\ Resolved(Len(tokens))
    BY <2>1 DEF PassMeaning
  <2>3. known' = LabelsOf(Len(tokens))' /\ Resolved(Len(tokens))'
    BY <1>2, <1>4, <2>1, <2>2 DEF LabelledTo, LabelsOf, Resolved
  <2>4. QED
    BY <1>2, <1>3, <2>1, <2>3 DEF PassMeaning, EndMeaning
<1>8. CASE CheckReferences
  <2>1. stage = "references" /\ known = LabelsOf(Len(tokens)) /\ Resolved(Len(tokens))
    BY <1>8 DEF PassMeaning, CheckReferences, Check, In
  <2>2. Resolved(Len(tokens))'
    BY <1>2, <1>4, <2>1 DEF Resolved
  <2>3. \A i \in 1 .. Len(tokens) :
          Dangling(tokens[i]) <=> /\ tokens[i].operand \in Names
                                  /\ ~Declared(tokens[i].operand)
    BY <2>1, Distinct DEF Dangling, Declared, LabelsOf, LabelledTo
  <2>4. CASE \E i \in 1 .. Len(tokens) : Dangling(tokens[i])
    <3>1. stage' = "failed"
      BY <1>1, <1>8, <2>4 DEF CheckReferences, Check, Fail
    <3>2. \E i \in 1 .. Len(tokens) : ~OperandFine(tokens[i])
      BY <2>3, <2>4, Distinct DEF OperandFine
    <3>3. QED
      BY <1>5, <3>1, <3>2
  <2>5. CASE ~\E i \in 1 .. Len(tokens) : Dangling(tokens[i])
    <3>1. stage' = "numbers"
      BY <1>1, <1>8, <2>5 DEF CheckReferences, Check
    <3>2. \A i \in 1 .. Len(tokens) : tokens[i].operand \in Names => Declared(tokens[i].operand)
      BY <2>3, <2>5
    <3>3. QED
      BY <1>2, <1>3, <1>4, <2>1, <2>2, <3>1, <3>2 DEF PassMeaning, EndMeaning
  <2>6. QED
    BY <2>4, <2>5
<1>9. CASE validate_numerical_operands
  <2>1. /\ stage = "numbers" /\ Resolved(Len(tokens)) /\ cursor' = 1
        /\ executable' = [a \in Address |-> 0]
        /\ \A i \in 1 .. Len(tokens) :
             /\ tokens[i].mnemonic \in DOMAIN plain => tokens[i].operand = None
             /\ tokens[i].operand \in Names => Declared(tokens[i].operand)
    BY <1>9 DEF PassMeaning, validate_numerical_operands, Check, In
  <2>2. Resolved(Len(tokens))'
    BY <1>2, <1>4, <2>1 DEF Resolved
  <2>3. CASE \E i \in 1 .. Len(tokens) : BadNumber(tokens[i])
    <3>1. stage' = "failed"
      BY <1>1, <1>9, <2>3 DEF validate_numerical_operands, Check, Fail
    <3>2. \E i \in 1 .. Len(tokens) : ~OperandFine(tokens[i])
      BY <1>1, <2>1, <2>3, BadNumberIsBad
    <3>3. QED
      BY <1>5, <3>1, <3>2
  <2>4. CASE ~\E i \in 1 .. Len(tokens) : BadNumber(tokens[i])
    <3>1. stage' = "generate"
      BY <1>1, <1>9, <2>4 DEF validate_numerical_operands, Check
    <3>2. cursor' <= Len(tokens') + 1 /\ Generated(cursor - 1)'
      BY <1>1, <1>2, <2>1 DEF Generated
    <3>3. QED
      BY <1>2, <1>3, <1>4, <2>1, <2>2, <3>1, <3>2 DEF PassMeaning, EndMeaning
  <2>5. QED
    BY <2>3, <2>4
<1>10. QED
  BY <1>6, <1>7, <1>8, <1>9

LEMMA LabelledSets ==
  ASSUME NEW n \in Nat
  PROVE  /\ IsFiniteSet(LabelledTo(n)) /\ Cardinality(LabelledTo(n)) \in Nat
         /\ tokens[n + 1].label = None => LabelledTo(n + 1) = LabelledTo(n)
         /\ tokens[n + 1].label # None =>
              /\ LabelledTo(n + 1) = LabelledTo(n) \cup {n + 1}
              /\ Cardinality(LabelledTo(n + 1)) = Cardinality(LabelledTo(n)) + 1
<1>1. IsFiniteSet(1 .. n)
  BY FS_Interval
<1>2. IsFiniteSet(LabelledTo(n)) /\ Cardinality(LabelledTo(n)) \in Nat
  BY <1>1, FS_Subset, FS_CardinalityType DEF LabelledTo
<1>3. 1 .. n + 1 = 1 .. n \cup {n + 1} /\ n + 1 \notin 1 .. n
  OBVIOUS
<1>4. tokens[n + 1].label = None => LabelledTo(n + 1) = LabelledTo(n)
  BY <1>3 DEF LabelledTo
<1>5. tokens[n + 1].label # None => LabelledTo(n + 1) = LabelledTo(n) \cup {n + 1}
  BY <1>3 DEF LabelledTo
<1>6. n + 1 \notin LabelledTo(n)
  BY <1>3 DEF LabelledTo
<1>7. Cardinality(LabelledTo(n) \cup {n + 1}) = Cardinality(LabelledTo(n)) + 1
  BY <1>2, <1>6, FS_AddElement
<1>8. QED
  BY <1>2, <1>4, <1>5, <1>7

\* What is known of the token that the first loop of parse_labels is at.
LEMMA AtALabel ==
  ASSUME PassInv, PassMeaning, ParseLabel
  PROVE  /\ cursor - 1 \in Nat /\ (cursor - 1) + 1 = cursor /\ cursor \in 1 .. Len(tokens)
         /\ tokens[cursor] \in Token /\ AddressHere \in Address /\ AddressHere = cursor - 1
         /\ Lexed /\ tokens # <<>> /\ stage = "labels" /\ Resolved(cursor - 1)
         /\ known = LabelsOf(cursor - 1) /\ size = Cardinality(LabelledTo(cursor - 1))
         /\ \A i \in 1 .. Len(tokens) :
              tokens[i].mnemonic \in DOMAIN plain => tokens[i].operand = None
<1>1. /\ stage = "labels" /\ cursor <= Len(tokens) /\ cursor \in Nat \ {0}
      /\ Len(tokens) \in Nat /\ Len(tokens) <= EXECUTABLE_SIZE
  BY PassTypes DEF ParseLabel, In
<1>2. cursor \in 1 .. Len(tokens) /\ cursor - 1 \in Nat /\ (cursor - 1) + 1 = cursor
  BY <1>1
<1>3. AddressHere \in Address /\ AddressHere = cursor - 1
  BY <1>1, MachineAssumption DEF AddressHere, Address
<1>4. QED
  BY <1>1, <1>2, <1>3, PassTypes DEF PassMeaning

LEMMA ParseLabelMeaning ==
  ASSUME PassInv, PassMeaning, ~Grown, ~Grown', ParseLabel
  PROVE  PassMeaning' /\ EndMeaning'
<1>1. PICK n \in Nat : n = cursor - 1
  BY AtALabel
<1> DEFINE t == tokens[n + 1]
<1>2. /\ n + 1 = cursor /\ n + 1 \in 1 .. Len(tokens) /\ t \in Token
      /\ AddressHere \in Address /\ AddressHere = n
      /\ Lexed /\ tokens # <<>> /\ stage = "labels" /\ Resolved(n)
      /\ known = LabelsOf(n) /\ size = Cardinality(LabelledTo(n))
      /\ \A i \in 1 .. Len(tokens) :
           tokens[i].mnemonic \in DOMAIN plain => tokens[i].operand = None
      /\ Len(tokens) \in Nat
  BY <1>1, AtALabel, PassTypes
<1>3. UNCHANGED <<source, tokens>> /\ Lexed' /\ tokens' # <<>>
  BY <1>2, TokensStay DEF ParseLabel
<1>4. ASSUME stage' = "labels", cursor' = n + 2, known' = LabelsOf(n + 1),
             size' = Cardinality(LabelledTo(n + 1)),
             \A i \in 1 .. n + 1 :
               /\ LabelFine(i, n + 1)
               /\ \A name \in Names : tokens[i].label = name => DP!Stored(name)' = i - 1
      PROVE  PassMeaning' /\ EndMeaning'
  <2>1. cursor' - 1 = n + 1 /\ cursor' <= Len(tokens') + 1
    BY <1>2, <1>3, <1>4
  <2>2. Resolved(cursor - 1)'
    <3>1. ASSUME NEW i \in 1 .. n + 1, tokens[i].label # None
          PROVE  DP!Stored(tokens[i].label)' = i - 1
      <4>1. PICK name \in Names : name = tokens[i].label
        BY <1>4, <3>1 DEF LabelFine
      <4>2. DP!Stored(name)' = i - 1
        BY <1>4, <4>1
      <4>3. name = tokens'[i].label
        BY <1>3, <4>1
      <4>4. QED
        BY <4>2, <4>3 DEF DP!Stored, DP!Holding
    <3>2. \A i \in 1 .. n + 1 : LabelFine(i, cursor - 1)'
      BY <1>3, <1>4, <2>1 DEF LabelFine
    <3>3. QED
      BY <1>3, <2>1, <3>1, <3>2 DEF Resolved
  <2>3. known' = LabelsOf(cursor - 1)' /\ size' = Cardinality(LabelledTo(cursor - 1))'
    BY <1>3, <1>4, <2>1 DEF LabelsOf, LabelledTo
  <2>4. QED
    BY <1>2, <1>3, <1>4, <2>1, <2>2, <2>3 DEF PassMeaning, EndMeaning
<1>5. CASE t.label = None /\ t.mnemonic # "DAT"
  <2>1. stage' = "labels" /\ cursor' = n + 2 /\ known' = known /\ UNCHANGED dict
    BY <1>2, <1>5 DEF ParseLabel
  <2>2. LabelledTo(n + 1) = LabelledTo(n) /\ LabelsOf(n + 1) = LabelsOf(n)
    BY <1>2, <1>5, LabelledSets DEF LabelsOf
  <2>3. ASSUME NEW i \in 1 .. n + 1
        PROVE  /\ LabelFine(i, n + 1)
               /\ \A name \in Names : tokens[i].label = name => DP!Stored(name)' = i - 1
    <3>1. CASE i = n + 1
      BY <1>5, <3>1, Distinct DEF LabelFine
    <3>2. CASE i \in 1 .. n
      <4>1. LabelFine(i, n) /\ (tokens[i].label # None => DP!Stored(tokens[i].label) = i - 1)
        BY <1>2, <3>2 DEF Resolved
      <4>2. LabelFine(i, n + 1)
        BY <1>2, <1>5, <4>1 DEF LabelFine
      <4>3. \A name : DP!Stored(name)' = DP!Stored(name)
        BY <2>1 DEF dict, DP!Stored, DP!Holding
      <4>4. QED
        BY <4>1, <4>2, <4>3, Distinct
    <3>3. QED
      BY <1>2, <3>1, <3>2
  <2>4. QED
    BY <1>2, <1>4, <2>1, <2>2, <2>3 DEF dict
<1>6. CASE t.label # None /\ LabelOK(t.label)
  <2>1. PICK label \in Names : label = t.label
    BY <1>6 DEF LabelOK
  <2>2. /\ DP!set_item(label, n) /\ known' = known \cup {label} /\ cursor' = n + 2
        /\ stage' = "labels" /\ label \notin known
    BY <1>2, <1>6, <2>1, SameSet DEF ParseLabel, LabelOK
  <2>3. /\ \A other \in Names :
             DP!Stored(other)' = IF other = label THEN n ELSE DP!Stored(other)
        /\ size' = size + 1
    <3>1. ~DP!Grown' /\ DP!IInv
      BY DEF Grown, DP!Grown, PassInv, TableInv
    <3>2. n \in Address
      BY <1>2
    <3>3. QED
      BY <2>2, <3>1, <3>2, TableAssumptions, DP!SetIsRemembered
  <2>4. /\ LabelledTo(n + 1) = LabelledTo(n) \cup {n + 1}
        /\ size' = Cardinality(LabelledTo(n + 1))
    BY <1>2, <1>6, <2>3, LabelledSets
  <2>5. known' = LabelsOf(n + 1)
    BY <1>2, <2>1, <2>2, <2>4 DEF LabelsOf
  <2>6. \A j \in 1 .. n : tokens[j].label # label
    BY <1>2, <1>6, <2>1, <2>2 DEF LabelsOf, LabelledTo
  <2>7. ASSUME NEW i \in 1 .. n + 1
        PROVE  /\ LabelFine(i, n + 1)
               /\ \A name \in Names : tokens[i].label = name => DP!Stored(name)' = i - 1
    <3>1. CASE i = n + 1
      <4>1. LabelFine(i, n + 1)
        BY <1>2, <1>6, <2>1, <2>6, <3>1 DEF LabelFine
      <4>2. QED
        BY <1>2, <2>1, <2>3, <3>1, <4>1
    <3>2. CASE i \in 1 .. n
      <4>1. LabelFine(i, n) /\ (tokens[i].label # None => DP!Stored(tokens[i].label) = i - 1)
        BY <1>2, <3>2 DEF Resolved
      <4>2. LabelFine(i, n + 1)
        BY <1>2, <2>1, <2>6, <3>2, <4>1 DEF LabelFine
      <4>3. QED
        BY <2>3, <2>6, <3>2, <4>1, <4>2, Distinct
    <3>3. QED
      BY <1>2, <3>1, <3>2
  <2>8. QED
    BY <1>4, <2>2, <2>4, <2>5, <2>7
<1>7. CASE ~(t.label = None /\ t.mnemonic # "DAT") /\ ~(t.label # None /\ LabelOK(t.label))
  <2>1. stage' = "failed"
    BY <1>2, <1>7 DEF ParseLabel, Fail
  <2>2. ~LabelFine(n + 1, Len(tokens))
    <3>1. CASE t.label = None
      BY <1>7, <3>1 DEF LabelFine
    <3>2. CASE t.label # None /\ t.label \notin Names
      BY <3>2 DEF LabelFine
    <3>3. CASE t.label # None /\ t.label \in known
      <4>1. PICK i \in 1 .. n : tokens[i].label = t.label
        BY <1>2, <3>3 DEF LabelsOf, LabelledTo
      <4>2. i \in 1 .. Len(tokens) /\ i # n + 1
        BY <1>2
      <4>3. QED
        BY <3>3, <4>1, <4>2 DEF LabelFine
    <3>4. QED
      BY <1>7, <3>1, <3>2, <3>3 DEF LabelOK
  <2>3. ~Language!WellFormed
    BY <1>2, <2>2, PassTypes, WellFormedTokens
  <2>4. QED
    BY <1>3, <2>1, <2>3, SourceStays DEF PassMeaning, EndMeaning
<1>8. QED
  BY <1>5, <1>6, <1>7

\* The table grows only for a program with more labels than it has cells.
LEMMA GrowsForManyLabels ==
  ASSUME PassInv, PassMeaning, ~Grown, Grown', ParseLabel
  PROVE  Cardinality(Language!Labelled) > INIT_CAPACITY
<1> DEFINE n == cursor - 1
           t == tokens[n + 1]
<1>1. /\ n \in Nat /\ n + 1 = cursor /\ n + 1 \in 1 .. Len(tokens)
      /\ AddressHere \in Address /\ AddressHere = n
      /\ Lexed /\ size = Cardinality(LabelledTo(n)) /\ Len(tokens) \in Nat
  BY AtALabel, PassTypes
<1> HIDE DEF n
<1>2. t.label \in Names /\ DP!set_item(t.label, n)
  <2>1. ~UNCHANGED dict
    BY DEF dict, Grown
  <2>2. QED
    BY <1>1, <2>1, SameSet DEF ParseLabel, LabelOK
<1>3. size = INIT_CAPACITY
  <2>1. DP!IInv /\ ~DP!Grown /\ DP!Grown' /\ n \in Address
    BY <1>1 DEF Grown, DP!Grown, PassInv, TableInv
  <2>2. QED
    BY <1>2, <2>1, TableAssumptions, DP!SetOutgrows
<1>4. Cardinality(LabelledTo(n + 1)) = INIT_CAPACITY + 1
  BY <1>1, <1>2, <1>3, LabelledSets, Distinct
<1>5. LabelledTo(n + 1) \subseteq LabelledTo(Len(tokens))
  BY <1>1 DEF LabelledTo
<1>6. IsFiniteSet(LabelledTo(Len(tokens))) /\ Cardinality(LabelledTo(Len(tokens))) \in Nat
  BY <1>1, LabelledSets
<1>7. INIT_CAPACITY + 1 <= Cardinality(LabelledTo(Len(tokens)))
  BY <1>4, <1>5, <1>6, FS_Subset
<1>8. Language!Labelled = LabelledTo(Len(tokens))
  BY <1>1, PassTypes, TokensAreTheCode
<1>9. QED
  BY <1>6, <1>7, <1>8, TableAssumption

-----------------------------------------------------------------------------
\* The generator

\* What is known of the token that it is at.
LEMMA AtAToken ==
  ASSUME PassInv, PassMeaning, Generating
  PROVE  /\ cursor \in 1 .. Len(tokens) /\ Len(tokens) \in Nat /\ tokens[cursor] \in Token
         /\ cursor - 1 \in Address /\ (cursor - 1) + 1 = cursor
         /\ source \in Programs /\ tokens \in Seq(Token) /\ UNCHANGED <<source, tokens>>
         /\ stage = "generate" /\ Lexed /\ tokens # <<>>
         /\ Generated(cursor - 1) /\ Resolved(Len(tokens))
         /\ executable \in [Address -> Storable]
         /\ \A i \in 1 .. Len(tokens) :
              /\ tokens[i].mnemonic \in DOMAIN plain => tokens[i].operand = None
              /\ tokens[i].operand \in Names => Declared(tokens[i].operand)
<1>1. stage = "generate" /\ cursor <= Len(tokens) /\ UNCHANGED <<source, tokens>>
  BY DEF Generating, AtToken, In
<1>2. cursor \in 1 .. Len(tokens) /\ (cursor - 1) + 1 = cursor
  BY <1>1, PassTypes
<1>3. cursor - 1 \in Address
  BY <1>2, PassTypes, Distinct DEF Address
<1>4. executable \in [Address -> Storable]
  BY <1>1 DEF PassInv, IInv, ImageThere
<1>5. QED
  BY <1>1, <1>2, <1>3, <1>4, PassTypes DEF PassMeaning

\* It puts down what the language does.
LEMMA EmitMeaning ==
  ASSUME PassInv, PassMeaning, Generating, UNCHANGED <<entries, capacity>>,
         OperandFine(tokens[cursor]), Emit(Language!Encoded(Language!Code[cursor]))
  PROVE  PassMeaning' /\ EndMeaning'
<1>1. PICK n \in Nat : n = cursor - 1 /\ n + 1 = cursor /\ n + 1 \in 1 .. Len(tokens)
  BY AtAToken
<1> DEFINE word == Language!Encoded(Language!Code[n + 1])
<1>2. /\ Len(tokens) \in Nat /\ n \in Address /\ UNCHANGED <<source, tokens>>
      /\ stage = "generate" /\ Lexed /\ tokens # <<>>
      /\ Generated(n) /\ Resolved(Len(tokens))
      /\ executable \in [Address -> Storable]
      /\ \A i \in 1 .. Len(tokens) :
           /\ tokens[i].mnemonic \in DOMAIN plain => tokens[i].operand = None
           /\ tokens[i].operand \in Names => Declared(tokens[i].operand)
  BY <1>1, AtAToken
<1>3. /\ executable' = [executable EXCEPT ![n] = word]
      /\ cursor' = n + 2 /\ stage' = "generate"
  <2>1. Language!Encoded(Language!Code[cursor]) = word
    BY <1>1, Zenon
  <2>2. executable' = [executable EXCEPT ![n] = word]
    BY <1>1, <2>1 DEF Emit
  <2>3. cursor' = n + 2
    BY <1>1 DEF Emit
  <2>4. QED
    BY <1>2, <2>2, <2>3 DEF Emit
<1> HIDE DEF word
<1>4. Lexed' /\ tokens' # <<>> /\ Resolved(Len(tokens))'
  <2>1. Resolved(Len(tokens))'
    <3>1. PICK m : m = Len(tokens)
      OBVIOUS
    <3>2. Resolved(m)'
      BY <1>2, <3>1, ResolvedStays
    <3>3. QED
      BY <1>2, <3>1, <3>2 DEF Resolved, LabelFine
  <2>2. QED
    BY <1>2, <2>1, TokensStay
<1>5. /\ \A name : Declared(name)' = Declared(name)
      /\ \A t : OperandFine(t)' = OperandFine(t)
      /\ Language!Code' = Language!Code
      /\ \A line : Language!Encoded(line)' = Language!Encoded(line)
  BY <1>2, TokensStay, SourceStays
<1>6. cursor' - 1 = n + 1 /\ cursor' <= Len(tokens') + 1
  BY <1>1, <1>2, <1>3
<1>7. Generated(cursor - 1)'
  <2>1. ASSUME NEW i \in 1 .. n + 1
        PROVE  /\ OperandFine(tokens[i])
               /\ executable'[i - 1] = Language!Encoded(Language!Code[i])
    <3>1. CASE i = n + 1
      BY <1>1, <1>2, <1>3, <3>1 DEF word
    <3>2. CASE i \in 1 .. n
      <4>1. OperandFine(tokens[i]) /\ executable[i - 1] = Language!Encoded(Language!Code[i])
        BY <1>2, <3>2 DEF Generated
      <4>2. i - 1 \in Address /\ i - 1 # n
        BY <1>2, <3>2, Distinct DEF Address
      <4>3. QED
        BY <1>2, <1>3, <4>1, <4>2
    <3>3. QED
      BY <1>1, <3>1, <3>2
  <2>2. ASSUME NEW a \in Address, a >= n + 1 PROVE executable'[a] = 0
    <3>1. a # n /\ a >= n
      BY <2>2, Distinct DEF Address
    <3>2. QED
      BY <1>2, <1>3, <3>1 DEF Generated
  <2>3. QED
    BY <1>2, <1>5, <1>6, <2>1, <2>2 DEF Generated
<1>8. QED
  BY <1>2, <1>3, <1>4, <1>5, <1>6, <1>7 DEF PassMeaning, EndMeaning

\* It gives up only on a program with a bad operand.
LEMMA ErrorMeaning ==
  ASSUME PassInv, PassMeaning, Generating, ~OperandFine(tokens[cursor]), InternalError
  PROVE  PassMeaning' /\ EndMeaning'
<1>1. ~Language!WellFormed /\ source' = source
  BY AtAToken, OneBadOperand
<1>2. ~Language!WellFormed' /\ stage' = "free" /\ executable' = None
  BY <1>1, SourceStays DEF InternalError
<1>3. QED
  BY <1>2 DEF PassMeaning, EndMeaning

LEMMA GeneratorMeaning ==
  ASSUME PassInv, PassMeaning, GeneratePlain \/ GenerateNothing \/ GenerateNumeral
  PROVE  PassMeaning' /\ EndMeaning'
<1> DEFINE t == tokens[cursor]
<1>1. Generating /\ UNCHANGED <<entries, capacity>>
  BY TokensFit DEF GeneratePlain, GenerateNothing, GenerateNumeral, dict
<1>2. /\ cursor \in 1 .. Len(tokens) /\ t \in Token
      /\ source \in Programs /\ tokens \in Seq(Token) /\ Lexed
      /\ t.mnemonic \in DOMAIN plain => t.operand = None
  BY <1>1, AtAToken
<1>3. CASE GeneratePlain
  <2>1. t.mnemonic \in DOMAIN plain /\ Emit(plain[t.mnemonic])
    BY <1>3 DEF GeneratePlain
  <2>2. Language!Encoded(Language!Code[cursor]) = plain[t.mnemonic]
    BY <1>2, <2>1, EncodedTokens
  <2>3. OperandFine(t)
    BY <1>2, <2>1 DEF OperandFine
  <2>4. QED
    BY <1>1, <2>1, <2>2, <2>3, EmitMeaning
<1>4. CASE GenerateNothing
  <2>1. ~OperandFine(t) /\ InternalError
    BY <1>1, <1>4, Distinct DEF Generating, GenerateNothing, TakesOperand, OperandFine
  <2>2. QED
    BY <1>1, <2>1, ErrorMeaning
<1>5. CASE GenerateNumeral
  <2> DEFINE v == NumeralValue[t.operand]
  <2>1. /\ t.mnemonic \notin DOMAIN plain /\ t.operand \in Numerals
        /\ IF OperandFits(t, v) THEN Emit(Encoding(t, v)) ELSE InternalError
    BY <1>2, <1>5, EmitsOrRefuses DEF GenerateNumeral, TakesOperand
  <2>2. t.operand \notin Names /\ v \in Nat /\ MaxOperand(t) \in Int
    BY <2>1, Distinct DEF MaxOperand
  <2>3. OperandFine(t) <=> OperandFits(t, v)
    BY <2>1, <2>2 DEF OperandFine, OperandFits
  <2>4. CASE OperandFits(t, v)
    <3>1. Language!Encoded(Language!Code[cursor]) = Encoding(t, v)
      BY <1>2, <2>1, EncodedTokens
    <3>2. Emit(Encoding(t, v))
      BY <2>1, <2>4
    <3>3. QED
      BY <1>1, <2>3, <2>4, <3>1, <3>2, EmitMeaning
  <2>5. CASE ~OperandFits(t, v)
    BY <1>1, <2>1, <2>3, <2>5, ErrorMeaning
  <2>6. QED
    BY <2>4, <2>5
<1>6. QED
  BY <1>3, <1>4, <1>5

\* The address the table answers with is that of the instruction so labelled.
LEMMA GenerateLabelMeaning ==
  ASSUME PassInv, PassMeaning, ~Grown, GenerateLabel
  PROVE  PassMeaning' /\ EndMeaning'
<1> DEFINE t == tokens[cursor]
<1>1. Generating /\ t.mnemonic \notin DOMAIN plain /\ t.operand \in Names
  BY DEF GenerateLabel, TakesOperand
<1>2. /\ cursor \in 1 .. Len(tokens) /\ t \in Token
      /\ source \in Programs /\ tokens \in Seq(Token) /\ Lexed
      /\ Declared(t.operand) /\ Resolved(Len(tokens)) /\ stage = "generate"
      /\ DOMAIN tokens = 1 .. Len(tokens)
  BY <1>1, AtAToken
<1>3. PICK name \in Names : name = t.operand /\ DP!get_item(name)
  BY <1>1, SameGet DEF GenerateLabel
<1>4. PICK j \in 1 .. Len(tokens) : tokens[j].label = name
  BY <1>2, <1>3 DEF Declared
<1>5. LabelFine(j, Len(tokens)) /\ DP!Stored(name) = j - 1
  BY <1>2, <1>4, Distinct DEF Resolved
<1>6. condition' = "ready" /\ answer'.value = j - 1 /\ j - 1 \in Address
  <2>1. DP!Holding(name) # {}
    BY <1>2, <1>3 DEF PassInv, NamesHeld, Held
  <2>2. ~DP!Grown /\ DP!IInv
    BY DEF Grown, DP!Grown, PassInv, TableInv
  <2>3. QED
    BY <1>3, <1>5, <2>1, <2>2, TableAssumptions, DP!GetIsAnswered
<1>7. EmitWithOperand(t, j - 1)
  <2>1. answer'.value # NULL /\ Pointee(answer'.value) = {j - 1}
    BY <1>6, TableAssumption DEF Pointee
  <2>2. QED
    BY <1>6, <2>1 DEF GenerateLabel
<1>8. Emit(Encoding(t, j - 1))
  BY <1>1, <1>2, <1>6, <1>7, AddressFits, EmitsOrRefuses
<1>9. Language!Encoded(Language!Code[cursor]) = Encoding(t, j - 1)
  BY <1>1, <1>2, <1>3, <1>4, <1>5, EncodedTokens
<1>10. OperandFine(t)
  BY <1>1, <1>2 DEF OperandFine
<1>11. UNCHANGED <<entries, capacity>>
  BY <1>3 DEF DP!get_item, DP!dict
<1>12. QED
  BY <1>1, <1>8, <1>9, <1>10, <1>11, EmitMeaning

\* What it leaves behind when it has come to the end is the image.
LEMMA GenerateEndMeaning ==
  ASSUME PassInv, PassMeaning, GenerateEnd
  PROVE  PassMeaning' /\ EndMeaning'
<1> DEFINE n == Len(tokens)
<1>1. /\ stage = "generate" /\ stage' = "free" /\ UNCHANGED <<source, executable>>
      /\ n \in Nat /\ source \in Programs /\ tokens \in Seq(Token) /\ n <= EXECUTABLE_SIZE
      /\ Lexed /\ tokens # <<>> /\ cursor - 1 = n /\ Resolved(n)
      /\ executable \in [Address -> Storable]
  BY PassTypes DEF GenerateEnd, In, PassMeaning, PassInv, IInv, ImageThere
<1>2. Generated(n)
  BY <1>1 DEF PassMeaning
<1>3. Language!WellFormed
  <2>1. n \in 1 .. EXECUTABLE_SIZE
    BY <1>1, Distinct
  <2>2. \A i \in 1 .. n : LabelFine(i, n) /\ OperandFine(tokens[i])
    BY <1>1, <1>2 DEF Resolved, Generated
  <2>3. QED
    BY <1>1, <2>1, <2>2, WellFormedTokens
<1>4. executable = Language!Image
  <2>1. Len(Language!Code) = n
    BY <1>1, TokensAreTheCode
  <2>2. ASSUME NEW a \in Address
        PROVE  executable[a] = IF a < n THEN Language!Encoded(Language!Code[a + 1]) ELSE 0
    <3>1. CASE a < n
      <4>1. a + 1 \in 1 .. n /\ (a + 1) - 1 = a
        BY <1>1, <3>1, Distinct DEF Address
      <4>2. QED
        BY <1>2, <3>1, <4>1 DEF Generated
    <3>2. CASE ~(a < n)
      <4>1. a >= n
        BY <1>1, <3>2, Distinct DEF Address
      <4>2. QED
        BY <1>2, <3>2, <4>1 DEF Generated
    <3>3. QED
      BY <3>1, <3>2
  <2>3. Language!Address = Address
    BY DEF Language!Address, Address
  <2>4. QED
    BY <1>1, <2>1, <2>2, <2>3 DEF Language!Image
<1>5. executable # None
  <2>1. Storable \subseteq Word
    BY MachineAssumption DEF Storable, Word
  <2>2. QED
    BY <1>1, <2>1, AssemblerAssumption
<1>6. QED
  BY <1>1, <1>3, <1>4, <1>5, SourceStays DEF PassMeaning, EndMeaning

LEMMA FreeMeaning ==
  ASSUME PassInv, EndMeaning, ~Grown, FreeAll
  PROVE  PassMeaning' /\ EndMeaning'
<1>1. /\ stage = "free" /\ condition' = "ready" /\ UNCHANGED <<source, executable>>
      /\ stage' = IF executable = None THEN "failed" ELSE "done"
  BY SameTable DEF FreeAll, In, DP!Fates
<1>2. QED
  BY <1>1, SourceStays DEF PassMeaning, EndMeaning

-----------------------------------------------------------------------------
\* Steps

LEMMA NobodyWrites == ASSUME [Next]_vars PROVE source' = source
  BY DEF Next, Run, Stays, vars, LexEmptyLine, LexLine, LexEnd, validate_inp_out_hlt,
         ParseLabel, LabelsEnd, CheckReferences, validate_numerical_operands, AtToken, Generating,
         GeneratePlain, GenerateNothing, GenerateNumeral, GenerateLabel, GenerateEnd, FreeAll

LEMMA StayMeaning ==
  ASSUME PassMeaning, EndMeaning, UNCHANGED vars
  PROVE  PassMeaning' /\ EndMeaning'
<1>1. UNCHANGED <<source, stage, cursor, tokens, known, executable, size, entries, capacity>>
  BY DEF vars, dict
<1>2. /\ Lexed' = Lexed /\ \A name : Declared(name)' = Declared(name)
      /\ \A t : OperandFine(t)' = OperandFine(t)
      /\ \A line : Language!Encoded(line)' = Language!Encoded(line)
      /\ Language!Code' = Language!Code /\ Language!WellFormed' = Language!WellFormed
      /\ Language!Image' = Language!Image
  BY <1>1, TokensStay, SourceStays
<1>3. LexedTo(cursor - 1)' = LexedTo(cursor - 1)
  BY <1>1 DEF LexedTo, Code
<1>4. Resolved(cursor - 1)' = Resolved(cursor - 1) /\ Resolved(Len(tokens))' = Resolved(Len(tokens))
  BY <1>1 DEF Resolved, LabelFine, DP!Stored, DP!Holding
<1>5. /\ LabelsOf(cursor - 1)' = LabelsOf(cursor - 1)
      /\ LabelsOf(Len(tokens))' = LabelsOf(Len(tokens))
      /\ LabelledTo(cursor - 1)' = LabelledTo(cursor - 1)
  BY <1>1 DEF LabelsOf, LabelledTo
<1>6. Generated(cursor - 1)' = Generated(cursor - 1)
  BY <1>1, <1>2 DEF Generated
<1>7. PassMeaning'
  BY <1>1, <1>2, <1>3, <1>4, <1>5, <1>6 DEF PassMeaning
<1>8. EndMeaning'
  BY <1>1, <1>2 DEF EndMeaning
<1>9. QED
  BY <1>7, <1>8

LEMMA NextMeaningInv == PassInv /\ MeaningInv /\ [Next]_vars => MeaningInv'
<1> SUFFICES ASSUME PassInv, MeaningInv, [Next]_vars, ~Grown'
             PROVE  PassMeaning' /\ EndMeaning'
  BY DEF MeaningInv
<1>1. ~Grown /\ PassMeaning /\ EndMeaning
  BY GrownStays DEF MeaningInv
<1>2. QED
  BY <1>1, LexerMeaning, ValidatorMeaning, ParseLabelMeaning, GeneratorMeaning,
     GenerateLabelMeaning, GenerateEndMeaning, FreeMeaning, StayMeaning
  DEF Next, Run, Stays

\* How the assembler looks to the language.
Verdict == CASE Grown -> "undefined"
             [] ~Grown /\ stage = "done" -> "accepted"
             [] ~Grown /\ stage = "failed" -> "rejected"
             [] OTHER -> "pending"

Outcome == IF ~Grown /\ stage = "done" THEN executable ELSE None

LEMMA Looks ==
  /\ Grown => Verdict = "undefined" /\ Outcome = None
  /\ ~Grown /\ stage = "done" => Verdict = "accepted" /\ Outcome = executable
  /\ ~Grown /\ stage = "failed" => Verdict = "rejected" /\ Outcome = None
  /\ ~Grown /\ stage \notin {"done", "failed"} => Verdict = "pending" /\ Outcome = None
  BY DEF Verdict, Outcome

LEMMA SameCardinality == \A S : Language!Cardinality(S) = Cardinality(S)
  BY DEF Language!Cardinality, Cardinality, Language!IsFiniteSet, IsFiniteSet

LEMMA LanguageSteps ==
  /\ Language!Init <=> source \in Programs /\ Verdict = "pending" /\ Outcome = None
  /\ Language!vars = <<source, Verdict, Outcome>>
  /\ Language!vars' = <<source', Verdict', Outcome'>>
  /\ Language!Accept <=> /\ Verdict = "pending" /\ Language!WellFormed
                         /\ Verdict' = "accepted" /\ Outcome' = Language!Image
                         /\ source' = source
  /\ Language!Reject <=> /\ Verdict = "pending" /\ ~Language!WellFormed
                         /\ Verdict' = "rejected"
                         /\ source' = source /\ Outcome' = Outcome
  /\ Cardinality(Language!Labelled) > INIT_CAPACITY =>
       (Language!GiveUp <=> /\ Verdict = "pending" /\ Verdict' = "undefined"
                            /\ source' = source /\ Outcome' = Outcome)
<1>1. Language!Cardinality(Language!Labelled) = Cardinality(Language!Labelled)
  BY SameCardinality
<1>2. QED
  BY <1>1 DEF Language!Init, Language!vars, Language!Accept, Language!Reject,
              Language!GiveUp, Verdict, Outcome

\* Every step is one of the language's, or none that it sees.
LEMMA StepRefines ==
  PassInv /\ MeaningInv /\ MeaningInv' /\ [Next]_vars => [Language!Next]_(Language!vars)
<1> SUFFICES ASSUME PassInv, MeaningInv, MeaningInv', [Next]_vars
             PROVE  Language!Next \/ Language!vars' = Language!vars
  OBVIOUS
<1>1. source' = source
  BY NobodyWrites
<1>2. CASE Grown
  <2>1. Grown'
    BY <1>2, GrownStays
  <2>2. Verdict' = Verdict /\ Outcome' = Outcome
    BY <1>2, <2>1 DEF Verdict, Outcome
  <2>3. QED
    BY <1>1, <2>2, LanguageSteps
<1>3. CASE ~Grown /\ Grown'
  <2>1. ParseLabel
    BY <1>3, SameGet
    DEF Next, Run, Stays, vars, dict, Grown, LexEmptyLine, LexLine, LexEnd,
        validate_inp_out_hlt, LabelsEnd, CheckReferences, validate_numerical_operands,
        GeneratePlain, GenerateNothing, GenerateNumeral, GenerateLabel, GenerateEnd, FreeAll,
        DP!get_item, DP!dict
  <2>2. Cardinality(Language!Labelled) > INIT_CAPACITY
    BY <1>3, <2>1, GrowsForManyLabels DEF MeaningInv
  <2>3. stage = "labels"
    BY <2>1 DEF ParseLabel, In
  <2>4. /\ Verdict = "pending" /\ Outcome = None
        /\ Verdict' = "undefined" /\ Outcome' = None
    BY <1>3, <2>3 DEF Verdict, Outcome
  <2>5. QED
    BY <1>1, <2>2, <2>4, LanguageSteps DEF Language!Next
<1>4. CASE ~Grown /\ ~Grown'
  <2>1. CASE stage \in {"done", "failed"}
    <3>1. stage' = stage /\ executable' = executable
      BY <2>1
      DEF Next, Run, Stays, vars, LexEmptyLine, LexLine, LexEnd, validate_inp_out_hlt,
          ParseLabel, LabelsEnd, CheckReferences, validate_numerical_operands, AtToken, Generating,
          GeneratePlain, GenerateNothing, GenerateNumeral, GenerateLabel, GenerateEnd, FreeAll,
          Check, In
    <3>2. QED
      BY <1>1, <1>4, <2>1, <3>1, LanguageSteps DEF Verdict, Outcome
  <2>2. CASE stage \notin {"done", "failed"}
    <3>1. Language!WellFormed' = Language!WellFormed /\ Language!Image' = Language!Image
      BY <1>1, SourceStays
    <3>2. EndMeaning'
      BY <1>4 DEF MeaningInv
    <3>3. Verdict = "pending" /\ Outcome = None
      BY <1>4, <2>2, Looks
    <3>4. /\ stage' = "done" => Verdict' = "accepted" /\ Outcome' = executable'
          /\ stage' = "failed" => Verdict' = "rejected" /\ Outcome' = None
          /\ stage' \notin {"done", "failed"} => Verdict' = "pending" /\ Outcome' = None
      BY <1>4 DEF Verdict, Outcome
    <3>5. CASE stage' = "done"
      BY <1>1, <3>1, <3>2, <3>3, <3>4, <3>5, LanguageSteps DEF EndMeaning, Language!Next
    <3>6. CASE stage' = "failed"
      BY <1>1, <3>1, <3>2, <3>3, <3>4, <3>6, LanguageSteps DEF EndMeaning, Language!Next
    <3>7. CASE stage' \notin {"done", "failed"}
      BY <1>1, <3>3, <3>4, <3>7, LanguageSteps
    <3>8. QED
      BY <3>5, <3>6, <3>7
  <2>3. QED
    BY <2>1, <2>2
<1>5. QED
  BY <1>2, <1>3, <1>4

\* With at most INIT_CAPACITY labels the assembler accepts exactly the programs
\* of the language, and gives each the image the language gives it.
THEOREM AcceptsTheLanguage == Spec => AssemblesTheLanguage
<1>1. Init => Language!Init
  <2>1. Init => source \in Programs /\ ~Grown /\ stage = "lex"
    BY TableAssumption DEF Init, Dict!Init, Grown
  <2>2. QED
    BY <2>1, Looks, LanguageSteps
<1>2. Init => PassInv /\ MeaningInv
  BY InitPassInv, InitMeaningInv
<1>3. PassInv /\ MeaningInv /\ [Next]_vars => (PassInv /\ MeaningInv)'
  BY NextPassInv, NextMeaningInv
<1>4. PassInv /\ MeaningInv /\ (PassInv /\ MeaningInv)' /\ [Next]_vars
        => [Language!Next]_(Language!vars)
  BY StepRefines
<1>5. QED
  BY <1>1, <1>2, <1>3, <1>4, PTL DEF Spec, Language!Spec, AssemblesTheLanguage
=============================================================================
