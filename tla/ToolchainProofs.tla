--------------------------- MODULE ToolchainProofs ---------------------------
(***************************************************************************)
(* Theorems about Toolchain, for any number of assemblers and machines,    *)
(* any size of image and any old file.                                     *)
(***************************************************************************)
EXTENDS Toolchain, SequenceTheorems, TLAPS

\* What the path holds once an assembler has emptied it.
New == {<<>>} \cup Images

Stages == {"start", "assembling", "opening", "writing", "magic", "data", "running",
           "refused", "failed", "done", "crashed"}

\* Types, and whoever has opened the file knows that there is one.
Types == /\ TypeOK
         /\ stage \in [Assemblers \cup Machines -> Stages]
         /\ \A a \in Assemblers : stage[a] = "writing" => file # Absent
         /\ \A m \in Machines : stage[m] \in {"magic", "data"} => file # Absent

\* Who writes, or has read a magic string, knows that the old file is gone,
\* and what a stream has buffered since then is a whole image.
Clean == /\ file \in OldFiles \cup New
         /\ \A a \in Assemblers : stage[a] = "writing" => file \in New
         /\ \A m \in Machines :
              /\ stage[m] = "data" => file \in New /\ buffered[m] \in Images
              /\ stage[m] = "running" => loaded[m] \in Images \/ size[m] = MagicUnits

IInv == Types /\ (diskFull \/ Clean)

-----------------------------------------------------------------------------
\* Files

LEMMA WholeIsLong == Whole \in Nat /\ Whole >= 5 /\ MagicUnits = 2 /\ LongestMagic = 5
  BY ToolchainAssumption DEF Whole, MagicUnits, LongestMagic

LEMMA ImagesAreSequences ==
  ASSUME NEW a \in Assemblers
  PROVE  /\ ImageOf(a) \in Seq(Assemblers) /\ Len(ImageOf(a)) = Whole
         /\ \A i \in 1 .. Whole : ImageOf(a)[i] = a
  BY WholeIsLong DEF ImageOf

\* An old file has no magic string, and neither has an empty one.
LEMMA OnlyImagesHaveMagic ==
  ASSUME NEW text \in OldFiles \cup New, text # Absent, HasMagic(text)
  PROVE  text \in Images
<1>1. CASE text \in OldFiles
  <2>1. text \in Seq({Other}) /\ Len(text) >= 5 /\ text[1] # Other
    BY <1>1, WholeIsLong, ToolchainAssumption DEF HasMagic
  <2>2. QED
    BY <2>1
<1>2. CASE text = <<>>
  BY <1>2, WholeIsLong DEF HasMagic
<1>3. QED
  BY <1>1, <1>2 DEF New

\* Overwriting all of an empty file or an image makes an image.
LEMMA OverwrittenWhole ==
  ASSUME file \in New, NEW a \in Assemblers
  PROVE  Overwritten(a, Whole) = ImageOf(a)
<1>1. Len(file) \in Nat /\ Len(file) <= Whole
  BY WholeIsLong, ImagesAreSequences DEF New, Images
<1>2. (IF Whole > Len(file) THEN Whole ELSE Len(file)) = Whole
  BY <1>1, WholeIsLong
<1>3. QED
  BY <1>2, WholeIsLong DEF Overwritten, ImageOf

\* The lesser of two numbers.
LEMMA MinOfTwo ==
  ASSUME NEW x \in Int, NEW y \in Int
  PROVE  Min({x, y}) = IF x <= y THEN x ELSE y
  BY DEF Min

\* Nothing and whole images are sequences no longer than an image.
LEMMA NewFiles ==
  ASSUME NEW text \in New
  PROVE  /\ text \in Seq(Assemblers) /\ Len(text) \in 0 .. Whole
         /\ text = <<>> \/ Len(text) = Whole
<1>1. CASE text = <<>>
  BY <1>1, EmptySeq, WholeIsLong
<1>2. CASE text \in Images
  <2>1. PICK a \in Assemblers : text = ImageOf(a)
    BY <1>2 DEF Images
  <2>2. QED
    BY <2>1, ImagesAreSequences, WholeIsLong
<1>3. QED
  BY <1>1, <1>2 DEF New

\* With a whole image in its buffer a stream reads that image or nothing more.
LEMMA ReadingsOfImages ==
  ASSUME NEW m \in Machines, file \in New, buffered[m] \in Images, NEW text \in Readings(m)
  PROVE  text \in New
<1>1. CASE text = file
  BY <1>1
<1>2. CASE text = buffered[m] \o SubSeq(file, Len(buffered[m]) + 1, Len(file))
  <2>1. PICK a \in Assemblers : buffered[m] = ImageOf(a)
    BY DEF Images
  <2>2. Len(buffered[m]) = Whole /\ buffered[m] \in Seq(Assemblers)
    BY <2>1, ImagesAreSequences
  <2>3. file \in Seq(Assemblers) /\ Len(file) \in Nat /\ Len(file) <= Whole
    BY NewFiles, WholeIsLong
  <2>4. SubSeq(file, Whole + 1, Len(file)) = <<>>
    BY <2>3, WholeIsLong, SubSeqEmpty
  <2>5. text = buffered[m]
    BY <1>2, <2>2, <2>4, ConcatEmptySeq
  <2>6. QED
    BY <2>5 DEF New
<1>3. QED
  BY <1>1, <1>2 DEF Readings

\* The units fread brings.
Fetched(m, text) == Min({2 * Remaining(m), Len(text) - MagicUnits})

LEMMA FetchedUnits ==
  ASSUME NEW m \in Machines, size[m] \in Int, NEW text, Len(text) \in Int
  PROVE  /\ Remaining(m) \in Int
         /\ Fetched(m, text) = IF 2 * Remaining(m) <= Len(text) - 2
                               THEN 2 * Remaining(m) ELSE Len(text) - 2
<1>1. Remaining(m) \in Int /\ MagicUnits = 2
  BY DEF Remaining, MagicUnits
<1>2. 2 * Remaining(m) \in Int /\ Len(text) - 2 \in Int
  BY <1>1
<1>3. Fetched(m, text) = Min({2 * Remaining(m), Len(text) - 2})
  BY <1>1 DEF Fetched
<1> HIDE DEF Remaining
<1>4. QED
  BY <1>1, <1>2, <1>3, MinOfTwo

\* What a machine accepts of an image, or of nothing, is a whole image, unless
\* it expected no data.
LEMMA AcceptedIsWhole ==
  ASSUME NEW m \in Machines, size[m] \in Int, NEW text \in New, Complete(m, text)
  PROVE  Read(m, text) \in Images \/ size[m] = MagicUnits
<1> DEFINE r == Remaining(m)
           d == Fetched(m, text)
<1>1. r \in Int /\ r >= 0 /\ r = size[m] - 2 /\ MagicUnits = 2
  BY DEF Complete, Remaining, MagicUnits
<1>2. text \in Seq(Assemblers) /\ Len(text) \in Nat
  BY NewFiles
<1>3. d = IF 2 * r <= Len(text) - 2 THEN 2 * r ELSE Len(text) - 2
  BY <1>1, <1>2, FetchedUnits
<1>4. Read(m, text) = SubSeq(text, 1, 2 + d) /\ Len(Read(m, text)) = r + 2
  <2>1. Read(m, text) = SubSeq(text, 1, MagicUnits + d)
    BY DEF Read, Fetched
  <2>2. Len(Read(m, text)) = size[m]
    BY DEF Complete
  <2>3. size[m] = r + 2
    BY <1>1
  <2>4. QED
    BY <1>1, <2>1, <2>2, <2>3
<1> HIDE DEF r, d
<1>5. CASE text = <<>>
  <2>1. d = -2
    BY <1>1, <1>3, <1>5
  <2>2. Len(Read(m, text)) = 0
    <3>1. 2 + d = 0
      BY <2>1
    <3>2. SubSeq(text, 1, 0) = <<>>
      BY <1>2, SubSeqEmpty
    <3>3. QED
      BY <1>4, <3>1, <3>2, EmptySeq
  <2>3. r + 2 = 0
    BY <1>4, <2>2
  <2>4. QED
    BY <1>1, <2>3
<1>6. CASE text \in Images
  <2>1. Len(text) = Whole
    BY <1>6, ImagesAreSequences DEF Images
  <2>2. d \in Nat /\ 2 + d <= Len(text)
    BY <1>1, <1>3, <2>1, WholeIsLong
  <2>3. Len(Read(m, text)) = 2 + d
    <3>1. \A i \in 1 .. 2 + d : text[i] \in Assemblers
      BY <1>2, <2>2
    <3>2. Len(SubSeq(text, 1, 2 + d)) = 2 + d
      BY <2>2, <3>1, SubSeqProperties
    <3>3. QED
      BY <1>4, <3>2
  <2>4. CASE r = 0
    BY <1>1, <2>4
  <2>5. CASE r # 0
    <3>1. d = r
      BY <1>1, <1>4, <2>2, <2>3
    <3>2. 2 + d = Len(text)
      BY <1>1, <1>2, <1>3, <2>5, <3>1
    <3>3. Read(m, text) = text
      BY <1>2, <1>4, <3>2, SubSeqFull
    <3>4. QED
      BY <1>6, <3>3
  <2>6. QED
    BY <2>4, <2>5
<1>7. QED
  BY <1>5, <1>6 DEF New

-----------------------------------------------------------------------------
\* Types

LEMMA InitTypes == Init => Types
<1> SUFFICES ASSUME Init PROVE Types
  OBVIOUS
<1>1. <<>> \in Seq(Tags)
  BY EmptySeq
<1>2. file \in {Absent} \cup Seq(Tags)
  <2>1. file \in {Absent} \cup Seq({Other})
    BY ToolchainAssumption DEF Init
  <2>2. QED
    BY <2>1, SeqMonotonic DEF Tags
<1>3. TypeOK
  BY <1>1, <1>2 DEF Init, TypeOK
<1>4. QED
  BY <1>3 DEF Init, Types, Stages

\* A process moves on, to no stage in which it has the file open.
LEMMA QuietTypes ==
  ASSUME Types, NEW p \in Assemblers \cup Machines,
         NEW to \in Stages \ {"writing", "magic", "data"},
         stage' = [stage EXCEPT ![p] = to],
         UNCHANGED <<file, size, buffered, loaded, diskFull>>
  PROVE  Types'
<1>1. TypeOK'
  BY DEF Types, TypeOK
<1>2. QED
  BY <1>1 DEF Types

\* The sequences a machine reads.
LEMMA ReadIsSequence ==
  ASSUME Types, NEW m \in Machines, file # Absent, NEW text \in Readings(m), Complete(m, text)
  PROVE  Read(m, text) \in Seq(Tags)
<1>1. file \in Seq(Tags) /\ buffered[m] \in Seq(Tags) /\ size[m] \in Int
  BY DEF Types, TypeOK
<1>2. Len(file) \in Nat /\ Len(buffered[m]) \in Nat
  BY <1>1, LenProperties
<1>3. SubSeq(file, Len(buffered[m]) + 1, Len(file)) \in Seq(Tags)
  <2>1. \A i \in Len(buffered[m]) + 1 .. Len(file) : file[i] \in Tags
    BY <1>1, <1>2
  <2>2. QED
    BY <1>2, <2>1, SubSeqProperties
<1>4. text \in Seq(Tags) /\ Len(text) \in Nat
  <2>1. text \in Seq(Tags)
    BY <1>1, <1>3, ConcatProperties DEF Readings
  <2>2. QED
    BY <2>1, LenProperties
<1>5. Fetched(m, text) \in Int /\ 2 + Fetched(m, text) <= Len(text)
  BY <1>1, <1>4, FetchedUnits
<1>6. \A i \in 1 .. 2 + Fetched(m, text) : text[i] \in Tags
  BY <1>4, <1>5
<1>7. SubSeq(text, 1, 2 + Fetched(m, text)) \in Seq(Tags)
  BY <1>5, <1>6, SubSeqProperties
<1>8. QED
  BY <1>7 DEF Read, Fetched, MagicUnits

LEMMA OverwrittenIsSequence ==
  ASSUME file \in Seq(Tags), NEW a \in Assemblers, NEW n \in 0 .. Whole
  PROVE  Overwritten(a, n) \in Seq(Tags)
<1> DEFINE l == IF n > Len(file) THEN n ELSE Len(file)
<1>1. l \in Nat /\ \A i \in 1 .. l : (IF i <= n THEN a ELSE file[i]) \in Tags
  BY WholeIsLong DEF Tags
<1>2. Overwritten(a, n) \in [1 .. l -> Tags]
  BY <1>1 DEF Overwritten
<1>3. QED
  BY <1>1, <1>2

-----------------------------------------------------------------------------
\* The invariant

LEMMA InitIInv == Init => IInv
  BY InitTypes DEF Init, IInv, Clean

\* A process moves on, to no stage that says anything about the file.
LEMMA QuietIInv ==
  ASSUME IInv, NEW p \in Assemblers \cup Machines,
         NEW to \in Stages \ {"writing", "magic", "data", "running"},
         stage' = [stage EXCEPT ![p] = to],
         UNCHANGED <<file, size, buffered, loaded, diskFull>>
  PROVE  IInv'
<1>1. Types'
  BY QuietTypes DEF IInv
<1>2. ASSUME Clean PROVE Clean'
  BY <1>2 DEF IInv, Types, Clean
<1>3. QED
  BY <1>1, <1>2 DEF IInv

LEMMA AssemblerQuietIInv ==
  ASSUME IInv, NEW a \in Assemblers,
         CheckOutput(a) \/ Assemble(a) \/ OpenFails(a) \/ Crash(a)
  PROVE  IInv'
<1>1. PICK to \in Stages \ {"writing", "magic", "data", "running"} :
        stage' = [stage EXCEPT ![a] = to]
  BY DEF CheckOutput, Assemble, OpenFails, Crash, Step, Stages
<1>2. UNCHANGED <<file, size, buffered, loaded, diskFull>>
  BY DEF CheckOutput, Assemble, OpenFails, Crash, machineVars
<1>3. QED
  BY <1>1, <1>2, QuietIInv

LEMMA OpenOutputIInv ==
  ASSUME IInv, NEW a \in Assemblers, OpenOutput(a)
  PROVE  IInv'
<1>1. /\ stage' = [stage EXCEPT ![a] = "writing"] /\ file' = <<>>
      /\ UNCHANGED <<size, buffered, loaded>> /\ UNCHANGED diskFull
  BY DEF OpenOutput, Opened, Step, machineVars
<1>2. <<>> # Absent /\ <<>> \in Seq(Tags)
  BY ToolchainAssumption, EmptySeq
<1>3. Types'
  <2>1. TypeOK'
    BY <1>1, <1>2 DEF IInv, Types, TypeOK
  <2>2. QED
    BY <1>1, <1>2, <2>1 DEF IInv, Types, Stages
<1>4. ASSUME Clean PROVE Clean'
  BY <1>1, <1>4, ToolchainAssumption DEF IInv, Types, Clean, New
<1>5. QED
  BY <1>1, <1>3, <1>4 DEF IInv

LEMMA CloseOutputIInv ==
  ASSUME IInv, NEW a \in Assemblers, CloseOutput(a)
  PROVE  IInv'
<1>1. PICK n \in 0 .. Whole : /\ file' = Overwritten(a, n)
                              /\ diskFull' = (diskFull \/ n < Whole)
  BY DEF CloseOutput
<1>2. /\ stage[a] = "writing" /\ stage' = [stage EXCEPT ![a] = "done"]
      /\ UNCHANGED <<size, buffered, loaded>>
  BY DEF CloseOutput, Step, machineVars
<1>3. file' \in Seq(Tags) /\ file' # Absent
  <2>1. file \in Seq(Tags)
    BY <1>2 DEF IInv, Types, TypeOK
  <2>2. QED
    BY <1>1, <2>1, OverwrittenIsSequence, ToolchainAssumption DEF Tags
<1>4. Types'
  <2>1. diskFull' \in BOOLEAN
    BY <1>1
  <2>2. TypeOK'
    BY <1>2, <1>3, <2>1 DEF IInv, Types, TypeOK
  <2>3. QED
    BY <1>2, <1>3, <2>2 DEF IInv, Types, Stages
<1>5. CASE n < Whole
  BY <1>1, <1>4, <1>5 DEF IInv
<1>6. CASE n = Whole
  <2>1. ASSUME Clean PROVE Clean'
    <3>1. file' \in Images
      BY <1>1, <1>2, <1>6, <2>1, OverwrittenWhole DEF Clean, Images
    <3>2. QED
      BY <1>2, <2>1, <3>1, ToolchainAssumption DEF IInv, Types, Clean, New
  <2>2. QED
    BY <1>1, <1>4, <2>1 DEF IInv
<1>7. QED
  BY <1>5, <1>6, WholeIsLong

LEMMA GetSizeIInv ==
  ASSUME IInv, NEW m \in Machines, GetSize(m)
  PROVE  IInv'
<1>1. /\ UNCHANGED <<file, buffered, loaded>> /\ UNCHANGED diskFull
      /\ stage[m] = "start"
  BY DEF GetSize
<1>2. CASE file = Absent
  BY <1>1, <1>2, QuietIInv DEF GetSize, Refuse, Stages
<1>3. CASE file # Absent
  <2>1. stage' = [stage EXCEPT ![m] = "magic"] /\ size' = [size EXCEPT ![m] = Len(file)]
    BY <1>3 DEF GetSize, FileSize
  <2>2. Len(file) \in Nat
    BY <1>3 DEF IInv, Types, TypeOK
  <2>3. Types'
    <3>1. TypeOK'
      BY <1>1, <2>1, <2>2 DEF IInv, Types, TypeOK
    <3>2. QED
      BY <1>1, <1>3, <2>1, <3>1 DEF IInv, Types, Stages
  <2>4. ASSUME Clean PROVE Clean'
    BY <1>1, <2>1, <2>4, ToolchainAssumption DEF IInv, Types, TypeOK, Clean
  <2>5. QED
    BY <1>1, <2>3, <2>4 DEF IInv
<1>4. QED
  BY <1>2, <1>3

LEMMA ReadMagicIInv ==
  ASSUME IInv, NEW m \in Machines, ReadMagic(m)
  PROVE  IInv'
<1>1. /\ UNCHANGED <<file, size, loaded>> /\ UNCHANGED diskFull
      /\ stage[m] = "magic" /\ file # Absent
  BY DEF ReadMagic, IInv, Types
<1>2. CASE ~HasMagic(file)
  BY <1>1, <1>2, QuietIInv DEF ReadMagic, Refuse, Stages
<1>3. CASE HasMagic(file)
  <2>1. stage' = [stage EXCEPT ![m] = "data"] /\ buffered' = [buffered EXCEPT ![m] = file]
    BY <1>3 DEF ReadMagic
  <2>2. Types'
    <3>1. TypeOK'
      BY <1>1, <2>1 DEF IInv, Types, TypeOK
    <3>2. QED
      BY <1>1, <2>1, <3>1 DEF IInv, Types, Stages
  <2>3. ASSUME Clean PROVE Clean'
    <3>1. file \in Images
      BY <1>1, <1>3, <2>3, OnlyImagesHaveMagic DEF Clean
    <3>2. QED
      BY <1>1, <2>1, <2>3, <3>1, ToolchainAssumption DEF IInv, Types, TypeOK, Clean, New
  <2>4. QED
    BY <1>1, <2>2, <2>3 DEF IInv
<1>4. QED
  BY <1>2, <1>3

LEMMA ReadDataIInv ==
  ASSUME IInv, NEW m \in Machines, ReadData(m)
  PROVE  IInv'
<1>1. /\ UNCHANGED <<file, size, buffered>> /\ UNCHANGED diskFull
      /\ stage[m] = "data" /\ file # Absent
  BY DEF ReadData, IInv, Types
<1>2. PICK text \in Readings(m) :
        IF Complete(m, text)
        THEN /\ stage' = [stage EXCEPT ![m] = "running"]
             /\ loaded' = [loaded EXCEPT ![m] = Read(m, text)]
        ELSE Refuse(m) /\ UNCHANGED loaded
  BY DEF ReadData
<1>3. CASE ~Complete(m, text)
  BY <1>1, <1>2, <1>3, QuietIInv DEF Refuse, Stages
<1>4. CASE Complete(m, text)
  <2>1. stage' = [stage EXCEPT ![m] = "running"] /\ loaded' = [loaded EXCEPT ![m] = Read(m, text)]
    BY <1>2, <1>4
  <2>2. Types'
    <3>1. Read(m, text) \in Seq(Tags)
      BY <1>1, <1>4, ReadIsSequence DEF IInv
    <3>2. TypeOK'
      BY <1>1, <2>1, <3>1 DEF IInv, Types, TypeOK
    <3>3. QED
      BY <1>1, <2>1, <3>2 DEF IInv, Types, Stages
  <2>3. ASSUME Clean PROVE Clean'
    <3>1. text \in New
      BY <1>1, <2>3, ReadingsOfImages DEF Clean
    <3>2. size[m] \in Int
      BY DEF IInv, Types, TypeOK
    <3>3. Read(m, text) \in Images \/ size[m] = MagicUnits
      BY <1>4, <3>1, <3>2, AcceptedIsWhole
    <3>4. QED
      BY <1>1, <2>1, <2>3, <3>3, ToolchainAssumption DEF IInv, Types, TypeOK, Clean
  <2>4. QED
    BY <1>1, <2>2, <2>3 DEF IInv
<1>5. QED
  BY <1>3, <1>4

LEMMA NextIInv == IInv /\ [Next]_vars => IInv'
<1> SUFFICES ASSUME IInv, [Next]_vars PROVE IInv'
  OBVIOUS
<1>1. ASSUME NEW a \in Assemblers, AssemblerStep(a) PROVE IInv'
  BY <1>1, AssemblerQuietIInv, OpenOutputIInv, CloseOutputIInv DEF AssemblerStep
<1>2. ASSUME NEW m \in Machines, MachineStep(m) PROVE IInv'
  BY <1>2, GetSizeIInv, ReadMagicIInv, ReadDataIInv DEF MachineStep
<1>3. CASE UNCHANGED vars
  BY <1>3 DEF vars, IInv, Types, TypeOK, Clean
<1>4. QED
  BY <1>1, <1>2, <1>3 DEF Next, AllEnded

-----------------------------------------------------------------------------
\* Whoever does what to the file, it is missing or a sequence of tagged units,
\* and so is what machines buffer and load.
THEOREM TypesHold == Spec => []TypeOK
<1>1. Spec => []IInv
  BY InitIInv, NextIInv, PTL DEF Spec
<1>2. IInv => TypeOK
  BY DEF IInv, Types
<1>3. QED
  BY <1>1, <1>2, PTL

\* While no write is cut short, assemblers that race or are killed never leave
\* part of an image at the path.
THEOREM FilesStayWhole == Spec => []FilesAreWholeOrEmpty
<1>1. Spec => []IInv
  BY InitIInv, NextIInv, PTL DEF Spec
<1>2. IInv => FilesAreWholeOrEmpty
  BY DEF IInv, Clean, New, FilesAreWholeOrEmpty
<1>3. QED
  BY <1>1, <1>2, PTL

\* While no write is cut short, a machine that reads a file others replace
\* meanwhile runs a whole image, or none of it.
THEOREM RunsAreWhole == Spec => []MachinesRunWholeImages
<1>1. Spec => []IInv
  BY InitIInv, NextIInv, PTL DEF Spec
<1>2. IInv => MachinesRunWholeImages
  BY DEF IInv, Clean, MachinesRunWholeImages
<1>3. QED
  BY <1>1, <1>2, PTL

\* While no write is cut short, an empty file at the path is one an assembler
\* has open, or was killed over.
THEOREM EmptyIsOpen == Spec => []EmptyOnlyWhileWriting
<1> DEFINE E == EmptyOnlyWhileWriting
<1>1. Spec => []IInv
  BY InitIInv, NextIInv, PTL DEF Spec
<1>2. Init => E
  BY DEF Init, EmptyOnlyWhileWriting
<1>3. IInv /\ E /\ [Next]_vars => E'
  <2> SUFFICES ASSUME IInv, E, [Next]_vars PROVE E'
    OBVIOUS
  <2>1. DOMAIN stage = Assemblers \cup Machines
    BY DEF IInv, Types
  <2>2. ASSUME NEW a \in Assemblers, CheckOutput(a) \/ Assemble(a) \/ OpenFails(a) \/ Crash(a)
        PROVE  E'
    <3>1. PICK to \in Stages : stage' = [stage EXCEPT ![a] = to]
      BY <2>2 DEF CheckOutput, Assemble, OpenFails, Crash, Step, Stages
    <3>2. stage[a] = "writing" => stage'[a] = "crashed"
      BY <2>1, <2>2 DEF CheckOutput, Assemble, OpenFails, Crash, Step
    <3>3. stage[a] # "crashed"
      BY <2>2 DEF CheckOutput, Assemble, OpenFails, Crash, Step
    <3>4. file' = file /\ diskFull' = diskFull
      BY <2>2 DEF CheckOutput, Assemble, OpenFails, Crash
    <3>5. QED
      BY <2>1, <3>1, <3>2, <3>3, <3>4 DEF EmptyOnlyWhileWriting
  <2>3. ASSUME NEW a \in Assemblers, OpenOutput(a) PROVE E'
    BY <2>1, <2>3 DEF OpenOutput, Step, EmptyOnlyWhileWriting
  <2>4. ASSUME NEW a \in Assemblers, CloseOutput(a) PROVE E'
    <3>1. PICK n \in 0 .. Whole : /\ file' = Overwritten(a, n)
                                  /\ diskFull' = (diskFull \/ n < Whole)
      BY <2>4 DEF CloseOutput
    <3>2. CASE n < Whole
      BY <3>1, <3>2 DEF EmptyOnlyWhileWriting
    <3>3. CASE n = Whole
      <4>1. file \in Seq(Tags)
        BY <2>4 DEF CloseOutput, Step, IInv, Types, TypeOK
      <4>2. DOMAIN Overwritten(a, Whole) = 1 .. (IF Whole > Len(file) THEN Whole ELSE Len(file))
        BY DEF Overwritten
      <4>3. 1 \in DOMAIN Overwritten(a, Whole)
        BY <4>1, <4>2, WholeIsLong, LenProperties
      <4>4. file' # <<>>
        BY <3>1, <3>3, <4>3
      <4>5. QED
        BY <4>4 DEF EmptyOnlyWhileWriting
    <3>4. QED
      BY <3>2, <3>3, WholeIsLong
  <2>5. ASSUME NEW m \in Machines, MachineStep(m) PROVE E'
    <3>1. file' = file /\ diskFull' = diskFull
      BY <2>5 DEF MachineStep, GetSize, ReadMagic, ReadData
    <3>2. \A a \in Assemblers : stage'[a] = stage[a]
      BY <2>1, <2>5, ToolchainAssumption DEF MachineStep, GetSize, ReadMagic, ReadData, Refuse
    <3>3. QED
      BY <3>1, <3>2 DEF EmptyOnlyWhileWriting
  <2>6. CASE UNCHANGED vars
    BY <2>6 DEF vars, EmptyOnlyWhileWriting
  <2>7. QED
    BY <2>2, <2>3, <2>4, <2>5, <2>6 DEF Next, AssemblerStep, AllEnded
<1>4. QED
  BY <1>1, <1>2, <1>3, PTL DEF Spec
=============================================================================
