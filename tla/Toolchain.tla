------------------------------ MODULE Toolchain ------------------------------
(***************************************************************************)
(* Assemblers and virtual machines at work on one path.  Nothing but the   *)
(* file connects them, and neither locks it: an assembler looks whether it *)
(* is there long before it truncates it, and fills it only when its buffer *)
(* is flushed; a machine asks for its size and reads it in separate calls. *)
(* A file is the sequence of its two-byte units, each tagged with who      *)
(* wrote it; what the words are is the matter of Assembler and LMVM.       *)
(***************************************************************************)
EXTENDS Integers, Sequences, SequencesExt

CONSTANTS
  Assemblers, Machines,  \* processes
  NoOverwrite,           \* the assemblers started with -k
  EXECUTABLE_SIZE,       \* units of data
  Other,                 \* tag of what no assembler wrote
  Absent,                \* there is no file
  OldFiles               \* what may be at the path at first

MagicUnits  == 2   \* "LMCX"
LongestMagic == 5  \* "LMCXTENDED"
Whole == MagicUnits + EXECUTABLE_SIZE

ASSUME ToolchainAssumption ==
  /\ NoOverwrite \subseteq Assemblers
  /\ Assemblers \cap Machines = {}
  /\ EXECUTABLE_SIZE \in Nat /\ Whole >= LongestMagic
  /\ Other \notin Assemblers
  /\ Absent \notin Seq(Assemblers \cup {Other})
  /\ OldFiles \subseteq {Absent} \cup Seq({Other})

VARIABLES
  file,
  stage,     \* of each process
  size,      \* file_size of each machine
  buffered,  \* what each machine's stream holds since it read the magic string
  loaded,    \* the file each machine has read and accepted
  diskFull   \* some write was cut short

vars == <<file, stage, size, buffered, loaded, diskFull>>
machineVars == <<size, buffered, loaded>>

Init == /\ file \in OldFiles
        /\ stage = [p \in Assemblers \cup Machines |-> "start"]
        /\ size = [m \in Machines |-> 0]
        /\ buffered = [m \in Machines |-> <<>>]
        /\ loaded = [m \in Machines |-> <<>>]
        /\ diskFull = FALSE

Step(p, from, to) == stage[p] = from /\ stage' = [stage EXCEPT ![p] = to]

-----------------------------------------------------------------------------
\* The assembler

\* check_output_path
CheckOutput(a) ==
  /\ Step(a, "start", IF a \in NoOverwrite /\ file # Absent THEN "refused" ELSE "assembling")
  /\ UNCHANGED <<file, machineVars, diskFull>>

\* Reads and assembles the source; a program with errors ends here.
Assemble(a) == /\ Step(a, "assembling", "opening") \/ Step(a, "assembling", "failed")
               /\ UNCHANGED <<file, machineVars, diskFull>>

\* Mutant: the file is opened for update.
Opened_Update == IF file = Absent THEN <<>> ELSE file
\* fopen(path, "wb")
Opened == <<>>

\* write_lmcx_file, called with overwrite = 1: the file is emptied.
OpenOutput(a) == /\ Step(a, "opening", "writing")
                 /\ file' = Opened
                 /\ UNCHANGED <<machineVars, diskFull>>

\* It cannot be opened: main does not look at the status and reports success.
OpenFails(a) == /\ Step(a, "opening", "done")
                /\ UNCHANGED <<file, machineVars, diskFull>>

\* Mutant: the buffer is never flushed.
Overwritten_Unflushed(a, n) == file
\* The first n units of the file are now those of a.
Overwritten(a, n) == [i \in 1 .. (IF n > Len(file) THEN n ELSE Len(file)) |->
                        IF i <= n THEN a ELSE file[i]]

\* fclose flushes the one buffer everything is in; the disk may be full, which
\* nobody looks at.
CloseOutput(a) == /\ Step(a, "writing", "done")
                  /\ \E n \in 0 .. Whole :
                       /\ file' = Overwritten(a, n)
                       /\ diskFull' = (diskFull \/ n < Whole)
                  /\ UNCHANGED machineVars

\* The process is killed.
Crash(a) == /\ \E from \in {"start", "assembling", "opening", "writing"} : Step(a, from, "crashed")
            /\ UNCHANGED <<file, machineVars, diskFull>>

-----------------------------------------------------------------------------
\* The virtual machine: read_lmcx_file

Refuse(m) == stage' = [stage EXCEPT ![m] = "refused"]

\* Mutant: the magic string is taken off before anything says it is there.
FileSize_Remaining == Len(file) - MagicUnits
\* fseek to the end, ftell.
FileSize == Len(file)

\* fopen, fseek to the end and back.
GetSize(m) == /\ stage[m] = "start"
              /\ IF file = Absent THEN Refuse(m) /\ UNCHANGED size
                 ELSE /\ stage' = [stage EXCEPT ![m] = "magic"]
                      /\ size' = [size EXCEPT ![m] = FileSize]
              /\ UNCHANGED <<file, buffered, loaded, diskFull>>

HasMagic(text) == /\ Len(text) >= LongestMagic
                  /\ \A i \in 1 .. MagicUnits : text[i] # Other

ReadMagic(m) == /\ stage[m] = "magic"
                /\ IF HasMagic(file)
                   THEN /\ stage' = [stage EXCEPT ![m] = "data"]
                        /\ buffered' = [buffered EXCEPT ![m] = file]
                   ELSE Refuse(m) /\ UNCHANGED buffered
                /\ UNCHANGED <<file, size, loaded, diskFull>>

\* remaining_file_size; of a file shorter than the magic string it wraps round
\* to a size no allocation satisfies, and checked_malloc ends the process.
Remaining(m) == size[m] - MagicUnits

\* What fread brings from text: it asks for as many units as Remaining has
\* bytes, twice what the file had.
Read(m, text) == SubSeq(text, 1, MagicUnits + Min({2 * Remaining(m), Len(text) - MagicUnits}))

\* Mutant: what fread returns is not compared with the size.
Complete_Unchecked(m, text) == Remaining(m) >= 0
\* As many units came as the size had promised.
Complete(m, text) == Remaining(m) >= 0 /\ Len(Read(m, text)) = size[m]

\* After the seek back behind the magic string the stream may go on from its
\* buffer or read again; in either case it reads on to the end of the file.
Readings(m) == {file, buffered[m] \o SubSeq(file, Len(buffered[m]) + 1, Len(file))}

ReadData(m) == /\ stage[m] = "data"
               /\ \E text \in Readings(m) :
                    IF Complete(m, text)
                    THEN /\ stage' = [stage EXCEPT ![m] = "running"]
                         /\ loaded' = [loaded EXCEPT ![m] = Read(m, text)]
                    ELSE Refuse(m) /\ UNCHANGED loaded
               /\ UNCHANGED <<file, size, buffered, diskFull>>

-----------------------------------------------------------------------------
AssemblerStep(a) == \/ CheckOutput(a) \/ Assemble(a) \/ OpenOutput(a) \/ OpenFails(a)
                    \/ CloseOutput(a) \/ Crash(a)
MachineStep(m) == GetSize(m) \/ ReadMagic(m) \/ ReadData(m)

\* Every process has ended, or runs what it has loaded.
AllEnded == /\ \A p \in DOMAIN stage : stage[p] \in {"refused", "failed", "done", "crashed", "running"}
            /\ UNCHANGED vars

Next == \/ \E a \in Assemblers : AssemblerStep(a)
        \/ \E m \in Machines : MachineStep(m)
        \/ AllEnded

Spec == Init /\ [][Next]_vars

-----------------------------------------------------------------------------
\* Properties

Tags == Assemblers \cup {Other}

\* Types.
TypeOK == /\ file \in {Absent} \cup Seq(Tags)
          /\ DOMAIN stage = Assemblers \cup Machines
          /\ size \in [Machines -> Nat]
          /\ buffered \in [Machines -> Seq(Tags)] /\ loaded \in [Machines -> Seq(Tags)]
          /\ diskFull \in BOOLEAN

ImageOf(a) == [i \in 1 .. Whole |-> a]
Images == {ImageOf(a) : a \in Assemblers}

\* Unless a disk is full, the path holds what it held at first, nothing, or
\* one assembler's whole image: of assemblers writing at once one wins, and one
\* that is killed leaves an empty file, never half an image.
FilesAreWholeOrEmpty == ~diskFull => file \in OldFiles \cup {<<>>} \cup Images

\* The image is not lost: unless a disk is full, the path is found empty only
\* while an assembler has the file open, or after one was killed there, however
\* many others opened it in between.
EmptyOnlyWhileWriting ==
  ~diskFull /\ file = <<>> =>
    <<>> \in OldFiles \/ \E a \in Assemblers : stage[a] \in {"writing", "crashed"}

\* Unless a disk is full, a machine runs whole images only, although it may
\* start while the file is being replaced and asks for its size, looks at its
\* magic string and reads its data at three different times.  The exception is
\* a machine that took the size of an old file just as long as the magic
\* string: it asks for no data, gets none, and is content.
MachinesRunWholeImages ==
  ~diskFull => \A m \in Machines :
    stage[m] = "running" => \/ loaded[m] \in Images
                            \/ size[m] = MagicUnits

\* README, -k: "Keep the output file if it already exists. Refuses to
\* overwrite."  An assembler with -k opens no file for writing that exists.
KeepsExistingFiles ==
  [][\A a \in NoOverwrite : stage[a] = "opening" /\ stage'[a] = "writing" => file = Absent]_vars
=============================================================================
