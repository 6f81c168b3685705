# LMVM: a verification development

LMVM is a Little Man Computer in two programs: `lmasm`, an assembler, turns a
source file into an image of 100 three-digit words, and `lmvm`, a virtual
machine, runs it. This directory holds TLA+ models of both, alone and one after
the other, of the hash table the assembler keeps its labels in, of the file
between the programs and of a run from its command line to its exit status,
with TLC runs on small instances and TLAPS proofs for every value of the
constants.
Paths below are relative to the repository.

## The system

| Part | Code | State | Operations | Interacts with |
|------|------|-------|------------|----------------|
| Virtual machine | `src/vm/main.c`, `src/vm/execution.c` | memory, accumulator, program counter, and per cycle instruction register, operand, opcode and result | load image; fetch, decode, one operation per opcode; the checks after it | image file, standard input and output |
| INP | `op_inp` in `src/vm/execution.c` | the unread part of standard input | read a chunk, retry, return | the user |
| Label table | `src/common/hashtable/kv_dict.c`, `fnv1a.c` | entries, size, capacity | `set_item` (with `expand`, `raw_set`), `get_item` | called by parser and generator |
| Assembler | `src/assembler/lexer.c`, `parser.c`, `execgen.c`, `main.c` | token list, known labels, image | lex; three validators; generate; free | label table, source and image file |
| Image file | `src/common/file_io.c`, `check_output_path` | a file, its bytes, and each process's view of it | check, truncate, write; size, magic string, data | assemblers and machines, which share nothing else |
| Command line and output path | `parse_args`, `main`, `resolve_output_path` in both `main.c` | options, paths, where output goes, exit status | one per option; the checks before anything is written | every other part, in order; the file system |
| Allocation wrappers, text files | `src/common/checked_alloc.c`, `read_text_file` | none | allocate or end the program; read the source | called by the parts above |
| Installer, icons, file associations | the build | none | | |

What is hard here, although each program is one thread:

* The machine checks *after* it acts: it fetches before it checks the program
  counter, and goes on with a cycle that has already failed. Programs modify
  themselves. The accumulator is an `int`, a cell an `unsigned short` that
  should hold three digits.
* The hash table probes without a bound and relies on a free cell; when it grows
  it goes beyond the block it allocates. The assembler asks it only for labels
  that a different structure says are there.
* The assembler's checks are spread over a lexer, three validators and the
  generator, and partly repeat one another with different integer types.
* Standard input arrives in chunks that are not lines.
* The processes that share a file do so without a lock, by several calls each.
* A file is bytes in one order, words in memory have another on some hosts; a
  size counts bytes in one place and words in the next; a magic string is
  compared beyond the end of its buffer.
* A run of either program can be refused a path, memory, the null device or room
  on the disk at any of its steps, and takes its options in any order.

`PROJECT.json` lists these hazards at their lines with the properties that
would notice if they went wrong.

## Modules

| Module | What it is |
|--------|-----------|
| `LMCMachine` | words, addresses, opcodes, wrapping arithmetic: what both programs agree on |
| `LMVM` | the virtual machine |
| `LittleMan` | abstract: a machine that obeys one instruction per step |
| `LMVMProofs` | invariants of `LMVM`; it implements `LittleMan` |
| `KvDict` | the hash table |
| `LabelMap` | abstract: a map that is good for a number of sets |
| `KvDictProofs` | invariants of `KvDict`, grown or not; it implements `LabelMap` until it grows |
| `Assembler` | the passes of the assembler, with an instance of `KvDict` inside |
| `AssemblyLanguage` | abstract: which programs are accepted, and their images |
| `AssemblerProofs` | what each pass of `Assembler` leaves for the next, on top of the invariants of its table; it implements `AssemblyLanguage` until the table grows |
| `OpInp` | the inside of `op_inp` |
| `OpInpProofs` | the numbers typed arrive, in order |
| `LMC` | `Assembler` and `LMVM` in a row: what is assembled is run |
| `SourceMachine` | abstract: a machine that obeys the statements of a text |
| `LMCProofs` | an invariant of the two, from the theorems about each |
| `ImageFile` | an image byte by byte: written, damaged, read, checked |
| `ImageFileProofs` | what of an image survives |
| `Toolchain` | assemblers and machines at one path |
| `ToolchainProofs` | invariants of `Toolchain` |
| `CommandLine` | one run of either program, from `argv` to its exit status |
| `CommandLineProofs` | which files a run leaves alone, and what it prints |
| `MC*` and their `.cfg` | instances for TLC |

### LMVM

The variables have the names of the locals of `do_execution`; `data` is the
descriptor's image, `io` the last number read or printed, `stage` where control
is. `LoadImage` and `RefuseImage` are the tail of `main`; `Fetch` and `Decode`
are the first two parts of the loop; each operation of `execute` is an action
that ends in `Complete`, the checks at the end of the loop and its condition.
When fetch or decode has failed, `SkipExecute` is taken. `INP` returns some
number of `Inputs`; which one is the matter of `OpInp`.

Numbers scale down together: `Radix` is the 100 between opcode and operand, so
999 is `10 * Radix - 1`, 901 is `9 * Radix + 1`. `Wrapped` is signed arithmetic
on two's complement; a compiler may do otherwise with an overflow, which the
standard leaves open. `op_add` and `op_sub` compare what has wrapped, as the
code does, so they never report one. `LittleMan` and `SourceMachine` do not
promise that: to them an overflow either wraps or is an error. A read past memory, or of bytes of the heap block that
nobody wrote, gives any word of `Garbage`.

### KvDict

`set_item` is three actions: in place, growing, and growing over a stray
pointer, which crashes. `EndsAfter` says where a probe stops, `Endless` that it
does not. Only the last round of FNV-1a, over the terminating NUL, is computed:
`set_item` and `get_item` include it, `expand` does not. The hash of the other
characters is a constant function, so any collision can be set up. The loop of
`expand` is the recursive function `After`: the new table once the first `n`
cells of the old one have been put into it.

Beyond the block `expand` allocates, a cell at first holds nothing, or as key a
stray pointer, which may lead to a label (`Aliases`, all of them in `Assembler`)
or to none, and as value `Wild`, which may be anything; a write there sticks,
but its value may be read back as `Wild`; an operation that touches such a cell
may crash. A stray entry with a label for its key is found, and migrated at the
next growth, like any other. These are the outcomes of the undefined behaviour
that the properties can tell apart.

### Assembler

A source file is a sequence of lines, a line the sequence of its words without
comment and blanks, a word a name (letters only), a numeral (digits only) or
neither. `lex` and the loops that build something take a step per line or token;
the validators, which only read, are one step each. Numerals have a value as
`strtol` gives it; the validator sees it cast to `int`, the generator as
`size_t`. All five Internal Errors of the generator are there, those that can
only be shown to be out of reach too: too many tokens and no operand
(`GenerateNothing`), a label that is not in the table (`GenerateLabel`), an
operand that does not fit and an unknown mnemonic (`EmitWithOperand`). The label table is `Dict`, an instance of `KvDict` over the
assembler's own variables: `ParseLabel` takes `Dict!set_item` and
`GenerateLabel` takes `Dict!get_item` as part of their step. `FreeAll` comes
before the image is looked at, as in `main`.

### OpInp

`stdin` is what is typed and not read. `ReadChunk` is one round of the loop: as
many characters as the longest `int` has digits, none after a newline; a number
(blanks, a sign, digits) is returned, anything else consumed. `ReadPastEnd` is
`fgets` at the end of input: with a stale `errno` another round, without it a
parse of a buffer that nobody has written, so any number. The user types a line
or ends the input at any moment.

### LMC

`LMC` extends `Assembler` and takes `LMVM` as an instance whose image is what
the assembler has written: always the whole executable, as `main` writes it.
`Assemble` is a step of the assembler, `Execute` one of the machine. The radix
of `LMVM` is the assembler's, and both use the words of `LMCMachine`.

### ImageFile

`write_lmcx_file` is one step, `read_lmcx_file` four: magic string, version,
data, and the checks `main` makes of the descriptor. Words are sixteen bits with
their bytes; `writer` and `reader` are hosts of either byte order. Between the
two a file may lose any number of bytes at its end or gain some (`Damage`).
Whether `strcmp` finds the extended magic string depends on the byte behind the
buffer, so both outcomes are possible; the standard one is compared after a NUL
was put in place. A descriptor with more or fewer words than memory, or with a
version, is one that other tools may write; `lmasm` writes 100 words and
version 0.

### CommandLine

`given` is `argv` as `getopt_long` cuts it up; one action per option, in order.
A path is a directory, a stem and an extension, which is what
`resolve_output_path` takes apart; `files` says what kind of thing is at each. A
system grants opening for reading and for writing path by path. Where the code
uses a null pointer (`debugout`, `getcwd`) the run `Dies`. Where it overruns a
block the run `Dies` or goes on with a heap that is `spoilt`: the block of the
default output name when the input's extension is shorter than `.lmc`
(`Overruns`), and the label table when it has grown (the passes are one step
here, so any assembly may have done that). On a spoilt heap every later step
that allocates, frees or uses a stream may crash (`MayDie`), those between the
truncation of the output and the end of the run included. `OutOfMemory` is
possible wherever something is allocated. The assembly is one step with the
outcomes of `Assembler`; an image is loaded or not, as in `ImageFile`.

### Toolchain

A file is the sequence of its two-byte units, each with the name of who wrote
it. An assembler checks, assembles, truncates and flushes in separate steps, and
may be killed before each; a full disk cuts the flush short. A machine takes the
size, reads the magic string and reads the data in separate steps; after the
`fseek` back, its stream may use its buffer or read again. One flush is one step
because the 204 bytes of an image fit any `stdio` buffer.

## What the runs check

Passing runs:

| Run | Instance | Properties |
|-----|----------|-----------|
| `vm` | 6 cells, words 0-63, `int` of 8 bits; every image of three words out of 16, a word of each kind among them, images that are short or too long | `FreshInstruction`, `OneReadPastTheEnd`, `CellsStayStorable`, `ErrorIsFinal`, `IsALittleMan`, `ForwardProgramsFinish` |
| `dict` | 3 labels with colliding homes, 2 cells growing to 8, 5 sets, stray pointers to one of the labels or none | `EveryKeyIsFound`, `RoomForOneMore`, `AnswersBelongToTheKey`, `IsALabelMap` |
| `assembler` | 4 cells, table of 2, `int` of 8 bits; every program of up to two lines out of 23, and chosen longer ones | `ImagesAreStorable`, `NeverSpins`, `TwoThingsSlipThrough`, `AssemblesTheLanguage`, `Finishes` |
| `lmc` | 14 cells, table of 4, words 0-255, `int` of 9 bits; 512 programs that branch forward and back, store, and read variables, and chosen ones for which nothing is promised | `MemoryStaysDecimal`, `ObeysItsLines` |
| `inp` | `int` of 4 bits in base 3, 3 lines out of 11, 3 INPs | `OneNumberPerLine`, `Answered` |
| `image_file` | 4 cells, every image of 1 to 5 words out of 3, versions 0, 1 and 256, cut anywhere or up to 3 bytes longer, both byte orders at both ends | `LoadedIsWritten`, `ImagesThatFitLoad` |
| `command_line` | both programs, every vector of up to 3 out of 13 arguments, 2 sources, 9 file systems, null device or none, both byte orders | `OnlyOutputWritten`, `FailureLeavesFiles`, `ExistingIsKept`, `SilentFromThenOn` |
| `toolchain` | 3 assemblers, one with `-k`, 2 machines, 4 old files | `FilesAreWholeOrEmpty`, `EmptyOnlyWhileWriting`, `MachinesRunWholeImages` |

Each of these but `lmc` also checks its module's `TypeOK`. Every
property was seen to fail on a plausible bug of the code: the operators marked
"Mutant" in the modules, listed in `PROJECT.json`.

Runs that end in a counterexample, each a disagreement between the code and what
the repository says of it:

| Run | Property | Code | What it says of itself |
|-----|----------|------|------------------------|
| `vm_image` | `ImageIsLoadedWhole` | `vm/main.c:236` copies 100 bytes, not 100 words | README: a DAT's operand is the variable's initial value |
| `vm_overflow` | `OverflowIsAnError` | `vm/execution.c:16,35` compare a sum that has already wrapped | "check value will stay within range of int", "Accumulator overflow" |
| `dict_growth` | `GrowthKeepsEntries` | `kv_dict.c:72,79`: too small a block, and a hash without the NUL | "migrate old non-null entries" |
| `toolchain_keep` | `KeepsExistingFiles` | `-k` is checked before assembly, the file opened after | README: refuses to overwrite |

Other disagreements the models have in them as the code has, without a run of
their own:

* Nobody validates that there is an operand, so users see the Internal Error of
  `execgen.c:67` ("but validator claimed it does"); `TwoThingsSlipThrough` says
  that besides this only a numeral that wraps gets as far.
* `op_inp` has room for as many characters as the longest `int` has digits, so a
  longest negative one is read as two numbers (README: MIN_INT to MAX_INT);
  `OneNumberPerLine` is about lines that `Fits`.
* `file_io.c:94` keeps words as they are read, line 186 swaps those it writes
  ("file always stored in little endian"): `LoadedIsWritten` is about little
  endian readers.
* `file_io.c:53` compares beyond a buffer without a NUL and line 57 a count with
  a size, so an extended file is refused or runs as a standard one, never as "of
  a newer lmvm-ext version": `ReadMagic`, `ReadVersion`.
* `-k` asks whether the file can be read (`main.c:121`; README: "if it already
  exists"): `ExistingIsKept` is about files that can be, and of others an
  existing output is overwritten under `-k`.
* Of several positional arguments the last counts (`main.c:88`; README: "The
  first positional argument is the input file"): `OutputNamed`.
* Nobody looks at the status of `write_lmcx_file`, nor it at those of `fwrite` and
  `fclose` (`main.c:286`; line 293: "Successfully assembled executable."):
  `OpenOutput` and `WriteWords` end in success whatever was written.
* `-v` prints before a later `-x` takes effect (`main.c:78`; README: "Don't print
  anything"): `SilentFromThenOn` has that exception and no other.

### The bounds, and why they are enough

* **Machine.** `Radix` equals the number of cells, as in the code, so every
  operand is an address. Six is the least for which the copied half holds three
  instructions: enough to store over the next one, to branch over one, and to
  run off the end of memory (`INP`, `STA` to the last cell, `BRA` there, with 56
  typed, which is `OUT`). `WordMax` is
  above the storable words, so that words of "four digits" exist, and `IntMax`
  far enough above that for sums to wrap only where an INP supplies the extremes.
* **Table.** Two cells growing to four and eight exhibit wrap-around, a full
  table, one growth and growth over a stray key. A prime of 435 makes homes with
  and without the NUL differ modulo 4, as 0x100000001b3 does modulo 16.
* **Assembler.** Every error of every pass occurs in some line; two lines
  suffice for any relation between two of them, three for one between labels
  with the table full, five for a program that is too large. `AsInt` wraps at
  256: the numeral of 257 is the 2^32 + 1 of the code.
* **Assembler and machine.** Half of memory is loaded, so fourteen cells leave
  room for seven lines: five statements and two variables, with every verb in the
  middle three and `BRA`, `BRZ` and `BRP` both ways. Storable words reach 139 and
  the inputs lie on either side of that and of zero, so sums wrap, stores fail
  and both outcomes of each branch occur. Longer programs, five labels in a table
  of four, self-modification and operands that are numbers are there to show that
  `Structured` is what the promise needs.
* **Image file.** The words are 0, one of two equal bytes and one of two
  different bytes; one word more than memory is the least that is too large, and
  three more bytes reach it from an image that fits. A whole image of three
  words is as long as the extended magic string, on which reading depends.
* **Command line.** Two sources with names of their own, so that the first and the
  last input are told apart by the output they lead to; one lies in the current
  directory and one elsewhere, one has an extension as long as `.lmc` or longer
  and one has none, for which the block of the default name is overrun. Three arguments are an option with its path
  around any other two, which is what an order between options takes.
* **INP.** The buffer has two characters, the least in which a number with a
  sign fits and a longer one does not.
* **Toolchain.** Two assemblers race, a third has `-k`; machines do not see each
  other, and two are there for the symmetry of the claim. An image of 6 units is
  longer than the magic string of the extended format, as the check requires.
  Old files are absent, longer than an image, of the length of the magic string,
  and shorter.

Deadlock is checked in every run; the programs stop in `Exited`, `Ended`,
`Stays`, `Done`, `Waits` and `AllEnded`, which change nothing and are enabled
only where the code has ended, waits for the user or is caught in a loop.

### Fairness

The programs are sequential and take their next step as long as the system
schedules them: weak fairness on `Run` of `LMVM` and of `Assembler`, and on
`ReadChunk` of `OpInp`. The user owes nothing: `op_inp` in `LMVM`, `Type` and
`Close` in `OpInp` are not fair, and the liveness properties end at a wait for
input. `LMC`, `ImageFile`, `CommandLine` and `Toolchain` have no liveness
property and no fairness.

### What the abstract modules promise

* `IsALittleMan`: between two fetches the loop does exactly one instruction, and
  one that cannot be obeyed leaves no trace. The program counter of the Little
  Man is that of the instruction while the real one is already behind it.
* `IsALabelMap`: with at most as many calls of `set_item` as there are cells, the
  table is a map; a search for an absent label in a full table spins, and after
  one set more nothing is promised. The code promises no more, as `dict_growth`
  shows.
* `AssemblesTheLanguage`: with at most as many labels as the table has cells, a
  program is accepted if and only if it is in the language, defined without
  passes and tokens, and then gets its image.
* `ObeysItsLines`: a program of at most half a memory, with no more labels than
  the table has cells, that names only variables and lines and does not run into
  its variables, does when assembled and run what its statements say. In
  `SourceMachine` there are no words and no addresses; the refinement maps a line
  to the cell behind it and a variable to its `DAT`'s cell. All other programs
  are mapped to one that promises nothing.

## What is proved

For every value of the constants that satisfies the modules' assumptions: sizes
are naturals, `Radix` is at least 3 and no more than memory has cells, three
digits fit a word and a word an `int`, the table's capacity is a power of two,
the sentinels are no data.

**LMVM.** `IInv` is the conjunction of the four invariants of the run. None is
inductive alone: that the program counter stays near memory needs to know that
an instruction came from inside it, the types of memory need the operand to be
an address, and what a store leaves needs both. `NextIInv` has a lemma for each
kind of step, those of the operations through `CompleteIInv`, which says once
what the tail of the loop needs. From it: `TypeCorrect`,
`InstructionsAreFresh`, `ReadsStayClose`, `StoresKeepThreeDigits`.

`ImplementsTheLittleMan` adds `Explained`: an error pending before execute has
its reason in memory or in the program counter, which is what turns
`SkipExecute` into the `Fault` of the Little Man. Each operation has a lemma
that maps it to the step of the same name. The arithmetic is that a word has
one leading part and one operand (`DivisionIsUnique`), so that comparing a whole
word with 901 is comparing digits. `ErrorsAreFinal` follows from the same
invariant.

**KvDict.** The invariant has a table that has not grown hold each key once, on
an unbroken path from where a search for it starts, and no more keys than
`size`. `EveryKeyFound` and `AlwaysRoom` follow, the latter by counting; and
`TableIsAMap`, by a step-by-step map to `LabelMap`, in which what a probe finds
is what the map holds. Nothing is assumed of the hash function.

A second invariant, `SoundInv`, holds however often the table grows: every cell
is free, a label with a value that some client gave it, or, once the table has
grown, junk from beyond a block. `TypesOK` and `AnswersBelong` follow from it.
The latter says little of a grown table, because little is true of it: `Wild`
may be any number, so also the address of another label. What it rules out is
that the migration itself, or a probe, hands a label an address that was set for
another. That the migration keeps this is an induction over the cells of the old
table, which the library's theorems on naturals cannot give here (they take a
predicate as a parameter); `NatInductionOnSets` states induction for a set
instead, and is proved from the well-foundedness of the order on the naturals.

**Assembler.** `ImagesStorable` holds even when the table has grown and answers
with junk: the generator's own check of the operand, which the comments take for
redundant, is what it rests on.

`PassInv` says what every pass leaves for the next: the labels declared are keys
of the table; after the second loop of `parse_labels` so is every operand that
is a name; after the third validator every operand is a name, a numeral that is
in range as an `int`, or missing. The table's part are both invariants of
`KvDictProofs`, taken for the assembler's instance. From it: `NoSpinning`, as a
label that the table holds is found; `TwoThings`, as the generator's own check
can then fail only on what an `int` cannot show, and as there are never more
tokens than cells (`TokensFit`) nor a mnemonic without a code; and `TypesOK`.

`AcceptsTheLanguage` is the refinement of `AssemblyLanguage`. `MeaningInv` says
what each pass has found out about the program: the tokens are the lines read so
far without the empty ones (`LexedTo`; that `Kept` is defined for every length,
and that lines stay where they are when others follow, are inductions over the
lines); the labels passed are names of their own, and the table holds them with
their places (`Resolved`); the cells filled so far are what the language puts
there (`Generated`). So every pass that fails has the reason for which the
language rejects the program, in the lexer before the rest of it is even read,
and at the end no reason is left. That the table grows only for more labels than
it has cells is counting (`GrowsForManyLabels`): `size` is the number of labels
taken in, since none is taken twice. `LineIsToken` is the equivalence of two
grammars of a line, the lexer's two places for a mnemonic and the language's
first reserved word.

**LMC.** `MemoryDecimal` composes the two: `AssemblerProofs` gives the image its
three digits, `LMVMProofs` is instantiated for the machine that gets it, and the
invariant adds that the machine has not started before the assembler is done.

**ImageFile.** The heart is arithmetic of bytes: a word is its two bytes joined
and bytes joined in either order come apart again, so what is written on any host
is the same bytes, low one first. The invariant says of the file in each stage
which of these bytes it holds, up to where it was cut; from it follow
`WordsSurvive` and `FittingImagesLoad`. Images are assumed to hold decimal words:
of other words the first three could be the bytes TENDED, and a standard file
be taken for an extended one, or refused. `TypesOK` needs no such assumption.

**OpInp.** `NumbersInOrder` is for every base and width of `int`, any number of
lines and INPs. What is unread are bytes and what has been answered are numbers,
and neither says how many lines have been read; the invariant `LineInv` supplies
that: some number of the lines has been read, but for the Newline of the last
perhaps, the numbers answered are those these lines spell, and the unread
characters are the others, line by line (`Unread`, with the places they begin
at). `ChunkOfLine` then says what `fgets` takes of a line that fits: all of it,
with its Newline if there is room. A Newline on its own, or a line without a
digit where `strtol` looks, is consumed without an answer; and what `strtol`
makes of a line does not depend on the Newline behind it (`NewlineIsNotRead`).
Behind the end of the input the numbers may only be continued (`PastEnd`).

**CommandLine.** `FailuresLeaveFiles` and `KeepsReadable` hold for every
argument vector, set of paths and file system. The former leaves two ways to
lose an old output without success, which the code has: a crash on a heap the
run itself has spoilt, and a big endian host without memory. The invariant says
that a `-k` behind which the scan has gone is in force, that only the output has
changed and only once it is opened, and that an output path that has passed its
check could not be read under `-k`. Since a `-k` may follow the `-o` it applies
to, it needs all three. `ArgsInv` adds which argument each remembered path comes
from, the last of its kind so far, and who has printed: `WritesTheOutputOnly`,
`StaysSilent` and `TypesOK` follow.

**Toolchain.** For any number of assemblers and machines, and any old files
without a magic string: `FilesStayWhole`, `RunsAreWhole`, `EmptyIsOpen` and
`TypesHold`. What is
true of the file depends on what a process believes of it, so the invariant says
that whoever writes, or has read a magic string, knows that the old file is gone
for good, and that a stream past the magic string has a whole image buffered.
`AcceptedIsWhole` then shows that of what such a stream may read, only a whole
image has as many units as a size promises, or none. It assumes that no process
is both an assembler and a machine.

Only model-checked: liveness (`ForwardProgramsFinish`, `Finishes`, `Answered`),
which the prover does not reach, and one refinement, `ObeysItsLines`.

## What is not modelled

Characters of names and texts, messages and debug output; what `getopt_long`
does with characters; `write_text_file`, which nothing calls; overflow that a
compiler exploits instead of wrapping; which bytes an overrun block of the
default output name spoils (the run goes on or dies); the union of an empty line
read as a pointer, which is taken for NULL; the installer and the build.

## Plan

Done: every part of the two programs is modelled, with `LMC` and `Toolchain` for
how they act together; every safety invariant that a run checks is a theorem.

Left to prove: the refinement `ObeysItsLines`, from `AcceptsTheLanguage`, which
says what the image is, and the machine's own theorems.
