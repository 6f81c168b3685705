-------------------------- MODULE CommandLineProofs --------------------------
(***************************************************************************)
(* Theorems about CommandLine, for every command line, file system and set *)
(* of paths.                                                               *)
(***************************************************************************)
EXTENDS CommandLine, TLAPS

\* What has been understood of the arguments before optind.
KeepUnderstood ==
  \A i \in Heard : given[i].opt = "-k" /\ (i < optind \/ stage \notin {"args", "ended"})
                   => no_overwrite_mode

\* Before the output is opened nothing has changed; then only the output.
Untouched ==
  /\ stage \notin {"write", "ended"} => files = system.files
  /\ \A p \in Paths : p # outfile_path => files[p] = system.files[p]
  /\ stage = "write" => files[outfile_path] = "partial"

\* An output path is made from an input, and once it has passed its checks it
\* may be written with -k.
PathsChecked ==
  /\ stage = "output" => infile_path # NULL
  /\ stage \in {"read", "assemble", "open", "write"} =>
       /\ outfile_path \in Paths
       /\ no_overwrite_mode /\ outfile_path \in system.read => system.files[outfile_path] = "none"

Types == /\ infile_path \in Paths \cup {NULL} /\ outfile_path \in Paths \cup {NULL}
         /\ given \in Seq(Argument) /\ optind \in Nat \ {0}
         /\ system.files \in [Paths -> Contents] /\ system.read \subseteq Paths
         /\ files \in [Paths -> Contents]
         /\ stage = "ended" <=> status # "running"

IInv == /\ Types /\ KeepUnderstood /\ Untouched /\ PathsChecked
        /\ FailureLeavesFiles /\ ExistingIsKept

LEMMA Initially == Init => IInv
<1>1. SUFFICES ASSUME Init PROVE IInv
  OBVIOUS
<1>2. Types
  <2>1. given \in Seq(Argument) /\ system.files \in [Paths -> Contents] /\ system.read \subseteq Paths
    BY <1>1, CommandLinesAssumption, SystemsAssumption DEF Init
  <2>2. QED
    BY <1>1, <2>1 DEF Init, Types
<1>3. KeepUnderstood
  <2>1. \A i \in Heard : ~(i < optind) /\ stage = "args"
    BY <1>1, <1>2 DEF Init, Heard, Types
  <2>2. QED
    BY <2>1 DEF KeepUnderstood
<1>4. Untouched /\ PathsChecked /\ FailureLeavesFiles /\ ExistingIsKept
  BY <1>1 DEF Init, Untouched, PathsChecked, FailureLeavesFiles, ExistingIsKept
<1>5. QED
  BY <1>2, <1>3, <1>4 DEF IInv

\* A step that leaves the files alone keeps what is said of them.
LEMMA FilesAlone ==
  ASSUME IInv, UNCHANGED <<files, system, given, host>>,
         outfile_path' = outfile_path \/ files = system.files,
         stage \notin {"write", "ended"}, stage' # "write"
  PROVE  Untouched' /\ FailureLeavesFiles' /\ ExistingIsKept'
  BY DEF IInv, Untouched, FailureLeavesFiles, ExistingIsKept, Says, Heard

\* An argument that is no -k, or is one and is heeded, leaves no -k behind.
LEMMA NextIsUnderstood ==
  ASSUME IInv, stage = "args", optind <= Len(given), NextArgument, given' = given,
         no_overwrite_mode \/ given[optind].opt = "-k" => no_overwrite_mode'
  PROVE  KeepUnderstood'
<1>1. optind' = optind + 1 /\ stage' = "args" /\ optind \in Nat
  BY DEF NextArgument, IInv, Types
<1>2. given \in Seq(Argument) /\ Heard' = Heard /\ \A i \in Heard : i \in Nat
  BY DEF IInv, Types, Heard
<1>3. ASSUME NEW i \in Heard, given[i].opt = "-k", i < optind' PROVE no_overwrite_mode'
  <2>1. i < optind \/ i = optind
    BY <1>1, <1>2, <1>3
  <2>2. QED
    BY <1>3, <2>1 DEF IInv, KeepUnderstood
<1>4. QED
  BY <1>1, <1>2, <1>3 DEF KeepUnderstood

LEMMA ArgumentStep ==
  ASSUME IInv, ParseArgs
  PROVE  IInv'
<1> USE DEF Finds
<1>1. stage = "args" /\ status = "running" /\ files = system.files
  BY DEF IInv, Types, Untouched, ParseArgs, Help, Unrecognised, Infile, Outfile, NoOverwrite,
         Debug, Version, Silent, Ignored, DoubleDash, ArgumentsEnd
<1>2. UNCHANGED <<files, system, given, host>>
  BY DEF ParseArgs, Help, Unrecognised, Infile, Outfile, NoOverwrite, Debug, Version, Silent,
         Ignored, DoubleDash, ArgumentsEnd, world
<1>3. Untouched' /\ FailureLeavesFiles' /\ ExistingIsKept'
  <2>1. stage' # "write"
    BY <1>1 DEF ParseArgs, Help, Unrecognised, Infile, Outfile, NoOverwrite, Debug, Version, Silent,
                Ignored, DoubleDash, ArgumentsEnd, NextArgument, Exit, Dies, GoTo
  <2>2. QED
    BY <1>1, <1>2, <2>1, FilesAlone
<1>4. optind \in Nat \ {0} /\ given \in Seq(Argument) /\ Types
  BY DEF IInv, Types
<1>5. Heard' = Heard
  BY <1>2 DEF Heard
<1>6. CASE Help \/ Unrecognised \/ (Silent /\ ~nullDevice)
  <2>1. stage' = "ended" /\ status' # "running" /\ UNCHANGED <<optind, infile_path, outfile_path, no_overwrite_mode>>
    BY <1>6 DEF Help, Unrecognised, Silent, Exit, arguments
  <2>2. Types' /\ PathsChecked'
    BY <1>2, <1>4, <2>1 DEF Types, PathsChecked
  <2>3. KeepUnderstood'
    BY <1>1, <1>2, <1>5, <2>1 DEF IInv, KeepUnderstood
  <2>4. QED
    BY <1>3, <2>2, <2>3 DEF IInv
<1>7. CASE Infile \/ Outfile \/ NoOverwrite \/ Debug \/ Version \/ Ignored \/ (Silent /\ nullDevice)
  <2>1. NextArgument /\ optind <= Len(given)
    BY <1>7 DEF Infile, Outfile, NoOverwrite, Debug, Version, Ignored, Silent
  <2>2. optind' = optind + 1 /\ stage' = "args" /\ status' = "running"
    BY <1>1, <2>1 DEF NextArgument
  <2>3. given[optind] \in Argument
    BY <1>4, <2>1
  <2>4. infile_path' \in Paths \cup {NULL} /\ outfile_path' \in Paths \cup {NULL}
    BY <1>4, <1>7, <2>3 DEF Infile, Outfile, NoOverwrite, Debug, Version, Ignored, Silent, Types, Argument
  <2>5. no_overwrite_mode \/ given[optind].opt = "-k" => no_overwrite_mode'
    BY <1>7 DEF Infile, Outfile, NoOverwrite, Debug, Version, Ignored, Silent
  <2>6. KeepUnderstood'
    BY <1>1, <1>2, <2>1, <2>5, NextIsUnderstood
  <2>7. Types' /\ PathsChecked'
    BY <1>2, <1>4, <2>2, <2>4 DEF Types, PathsChecked
  <2>8. QED
    BY <1>3, <2>6, <2>7 DEF IInv
<1>8. CASE DoubleDash
  <2>1. stage' = "args" /\ status' = "running" /\ optind' \in Nat \ {0}
        /\ UNCHANGED <<infile_path, outfile_path, no_overwrite_mode>>
    BY <1>1, <1>4, <1>8 DEF DoubleDash
  <2>2. Types' /\ PathsChecked'
    BY <1>2, <1>4, <2>1 DEF Types, PathsChecked
  <2>3. \A i \in Heard : i < optind
    BY <1>4, <1>8 DEF DoubleDash, Heard
  <2>4. KeepUnderstood'
    BY <1>2, <1>5, <2>1, <2>3 DEF IInv, KeepUnderstood
  <2>5. QED
    BY <1>3, <2>2, <2>4 DEF IInv
<1>9. CASE ArgumentsEnd
  <2>1. UNCHANGED <<optind, infile_path, outfile_path, no_overwrite_mode>>
    BY <1>9 DEF ArgumentsEnd, arguments
  <2>2. \/ stage' = "input" /\ status' = "running"
        \/ stage' = "ended" /\ status' # "running"
    BY <1>1, <1>9 DEF ArgumentsEnd, GoTo, Dies
  <2>3. Types' /\ PathsChecked'
    BY <1>2, <1>4, <2>1, <2>2 DEF Types, PathsChecked
  <2>4. \A i \in Heard : i < optind
    BY <1>4, <1>9 DEF ArgumentsEnd, Heard
  <2>5. KeepUnderstood'
    BY <1>2, <1>5, <2>1, <2>4 DEF IInv, KeepUnderstood
  <2>6. QED
    BY <1>3, <2>3, <2>5 DEF IInv
<1>10. QED
  BY <1>6, <1>7, <1>8, <1>9 DEF ParseArgs
-----------------------------------------------------------------------------
\* Steps behind the arguments

kept == <<given, system, host, optind, infile_path, no_overwrite_mode>>

\* One that leaves the files alone.
LEMMA QuietStep ==
  ASSUME IInv, UNCHANGED kept, UNCHANGED files, stage \notin {"args", "write", "ended"},
         stage' \notin {"args", "write"}, stage' = "ended" <=> status' # "running",
         outfile_path' \in Paths \cup {NULL}, PathsChecked'
  PROVE  IInv'
<1>1. files = system.files
  BY DEF IInv, Untouched
<1>2. Untouched' /\ FailureLeavesFiles' /\ ExistingIsKept'
  BY <1>1, FilesAlone DEF kept
<1>3. Types'
  BY DEF IInv, Types, kept
<1>4. KeepUnderstood'
  BY DEF IInv, KeepUnderstood, Heard, kept
<1>5. QED
  BY <1>2, <1>3, <1>4 DEF IInv

\* One that ends the run and leaves the files alone.
LEMMA LastStep ==
  ASSUME IInv, UNCHANGED kept, UNCHANGED files, stage \notin {"args", "write", "ended"},
         stage' = "ended", status' # "running", outfile_path' = outfile_path
  PROVE  IInv'
<1>1. outfile_path' \in Paths \cup {NULL}
  BY DEF IInv, Types
<1>2. PathsChecked'
  BY DEF PathsChecked
<1>3. QED
  BY <1>1, <1>2, QuietStep

\* One that goes on and has not come to the output, or passed it before.
LEMMA NextStep ==
  ASSUME IInv, UNCHANGED kept, UNCHANGED files, stage \notin {"args", "write", "ended"},
         stage' \notin {"args", "write", "ended"}, status' = status,
         outfile_path' = outfile_path,
         \/ stage \in {"read", "assemble", "open"} /\ stage' # "output"
         \/ stage' = "image" \/ (stage' = "output" /\ infile_path # NULL)
  PROVE  IInv'
<1>1. outfile_path' \in Paths \cup {NULL} /\ status' = "running"
  BY DEF IInv, Types
<1>2. PathsChecked'
  BY DEF IInv, PathsChecked, kept
<1>3. QED
  BY <1>1, <1>2, QuietStep

LEMMA OtherStep ==
  ASSUME IInv, CheckInput \/ read_text_file \/ Assemble \/ OutOfMemory \/ LoadImage
  PROVE  IInv'
<1> USE DEF CheckInput, read_text_file, Assemble, OutOfMemory, LoadImage
<1>1. /\ UNCHANGED kept /\ UNCHANGED files /\ outfile_path' = outfile_path
      /\ stage \notin {"args", "write", "ended"}
  BY DEF kept, world, arguments
<1>2. \/ stage' = "ended" /\ status' # "running"
      \/ /\ stage' \notin {"args", "write", "ended"} /\ status' = status
         /\ \/ stage \in {"read", "assemble", "open"} /\ stage' # "output"
            \/ stage' = "image" \/ (stage' = "output" /\ infile_path # NULL)
  BY DEF Exit, Dies, MayDie, GoTo
<1>3. QED
  BY <1>1, <1>2, LastStep, NextStep

LEMMA ResolveStep ==
  ASSUME IInv, resolve_output_path
  PROVE  IInv'
<1>1. /\ UNCHANGED kept /\ UNCHANGED files /\ stage = "output"
      /\ files = system.files
  BY DEF resolve_output_path, kept, world, IInv, Untouched
<1>2. ASSUME NEW p \in Paths, outfile_path' = p, check_output_path(p) PROVE IInv'
  <2>1. \/ stage' = "ended" /\ status' # "running"
        \/ stage' = "read" /\ status' = status /\ ~MustStay(p)
    BY <1>2 DEF check_output_path, Exit, GoTo
  <2>2. stage' = "ended" <=> status' # "running"
    BY <1>1, <2>1 DEF IInv, Types
  <2>3. PathsChecked'
    BY <1>1, <1>2, <2>1 DEF PathsChecked, MustStay, Opens, kept
  <2>4. QED
    BY <1>1, <1>2, <2>1, <2>2, <2>3, QuietStep
<1>3. CASE outfile_path # NULL /\ check_output_path(outfile_path) /\ UNCHANGED outfile_path
  <2>1. outfile_path \in Paths
    BY <1>3 DEF IInv, Types
  <2>2. QED
    BY <1>2, <1>3, <2>1
<1>4. CASE /\ outfile_path' = DefaultPath(infile_path)
           /\ check_output_path(DefaultPath(infile_path))
  <2>1. infile_path \in Paths
    BY <1>1 DEF IInv, Types, PathsChecked
  <2>2. DefaultPath(infile_path) \in Paths
    BY <2>1, PathsAssumption DEF DefaultPath
  <2>3. QED
    BY <1>2, <1>4, <2>2
<1>5. CASE Dies /\ UNCHANGED outfile_path
  BY <1>1, <1>5, LastStep DEF Dies
<1>6. QED
  BY <1>3, <1>4, <1>5 DEF resolve_output_path

LEMMA WriteStep ==
  ASSUME IInv, OpenOutput \/ WriteWords
  PROVE  IInv'
<1>1. CASE OpenOutput /\ ((~Creates(outfile_path) /\ Succeeds) \/ MayDie) /\ UNCHANGED files
  <2>1. UNCHANGED kept /\ stage = "open" /\ outfile_path' = outfile_path
    BY <1>1 DEF OpenOutput, kept, world, arguments
  <2>2. stage' = "ended" /\ status' # "running"
    BY <1>1 DEF Succeeds, Exit, MayDie, Dies
  <2>3. QED
    BY <1>1, <2>1, <2>2, LastStep
<1>2. ASSUME NEW content \in Contents, files' = [files EXCEPT ![outfile_path] = content],
             UNCHANGED kept, outfile_path' = outfile_path, stage \in {"open", "write"},
             \/ stage' = "write" /\ status' = "running" /\ content = "partial"
             \/ stage' = "ended" /\ status' = "success"
             \/ stage' = "ended" /\ status' = "crashed" /\ spoilt'
             \/ stage' = "ended" /\ status' = "failed" /\ host' = "big" /\ content = "partial"
      PROVE  IInv'
  <2>1. Types'
    BY <1>2 DEF IInv, Types, kept
  <2>2. KeepUnderstood' /\ PathsChecked'
    BY <1>2 DEF IInv, KeepUnderstood, PathsChecked, Heard, kept
  <2>3. outfile_path \in Paths /\ files'[outfile_path] = content
    BY <1>2 DEF IInv, PathsChecked, Types
  <2>4. Untouched'
    BY <1>2, <2>3 DEF IInv, Untouched, Types, kept
  <2>5. FailureLeavesFiles'
    BY <1>2, <2>3 DEF FailureLeavesFiles
  <2>6. ASSUME Says("-k"), NEW p \in system.read, system.files[p] # "none"
        PROVE  files'[p] = system.files[p]
    <3>1. no_overwrite_mode
      BY <1>2, <2>6 DEF IInv, KeepUnderstood, Says
    <3>2. p # outfile_path
      BY <1>2, <2>6, <3>1 DEF IInv, PathsChecked
    <3>3. QED
      BY <1>2, <2>6, <3>2 DEF IInv, Untouched, Types
  <2>7. ExistingIsKept'
    BY <1>2, <2>6 DEF ExistingIsKept, Says, Heard, kept, IInv, Types
  <2>8. QED
    BY <2>1, <2>2, <2>4, <2>5, <2>7 DEF IInv
<1>3. CASE OpenOutput /\ files' = [files EXCEPT ![outfile_path] = "partial"] /\ GoTo("write")
  <2>1. /\ stage = "open" /\ UNCHANGED kept /\ outfile_path' = outfile_path
        /\ stage' = "write" /\ status' = "running"
    BY <1>3 DEF OpenOutput, kept, world, arguments, GoTo, IInv, Types
  <2>2. QED
    BY <1>2, <1>3, <2>1 DEF Contents
<1>4. CASE WriteWords
  <2>1. stage = "write" /\ UNCHANGED kept /\ outfile_path' = outfile_path /\ stage' = "ended"
    BY <1>4 DEF WriteWords, Succeeds, Exit, MayDie, Dies, kept, world, arguments
  <2>2. CASE \E written \in {"image", "partial"} :
               /\ files' = [files EXCEPT ![outfile_path] = written]
               /\ status' = "success" \/ (status' = "crashed" /\ spoilt')
    BY <1>2, <2>1, <2>2 DEF Contents
  <2>3. CASE CopiesWords /\ status' = "failed" /\ files' = files
    <3>1. host' = "big"
      BY <2>1, <2>3 DEF CopiesWords, kept
    <3>2. files' = [files EXCEPT ![outfile_path] = "partial"]
      BY <2>1, <2>3 DEF IInv, Untouched, Types
    <3>3. QED
      BY <1>2, <2>1, <2>3, <3>1, <3>2 DEF Contents
  <2>4. spoilt' = spoilt
    BY <1>4 DEF WriteWords
  <2>5. QED
    BY <1>4, <2>2, <2>3, <2>4 DEF WriteWords, Succeeds, Exit, MayDie, Dies
<1>5. QED
  BY <1>1, <1>3, <1>4 DEF OpenOutput

LEMMA Inductive == IInv /\ [Next]_vars => IInv'
<1> SUFFICES ASSUME IInv, [Next]_vars PROVE IInv'
  OBVIOUS
<1>1. CASE UNCHANGED vars
  BY <1>1 DEF vars, world, arguments, IInv, Types, KeepUnderstood, Untouched, PathsChecked,
              FailureLeavesFiles, ExistingIsKept, Says, Heard
<1>2. QED
  BY <1>1, ArgumentStep, OtherStep, ResolveStep, WriteStep DEF Next, Ended

-----------------------------------------------------------------------------
\* What the arguments before optind have said

\* The last opt among the arguments before n names path; NULL if there is none.
NamedBy(args, n, opt, path) ==
  LET sofar == {i \in 1 .. n - 1 : args[i].opt = opt /\ \A j \in 1 .. i : args[j].opt # "--"}
  IN  \/ sofar = {} /\ path = NULL
      \/ \E i \in sofar : path = args[i].path /\ \A j \in sofar : j <= i

AllHeard == \A i \in Heard : i < optind

\* getopt_long goes from argument to argument, and past all of them at --.
Progress ==
  /\ stage = "args" /\ optind <= Len(given) => \A j \in 1 .. optind - 1 : given[j].opt # "--"
  /\ stage # "args" /\ status \in {"running", "success", "executing"} => AllHeard

PathsRemembered ==
  /\ stage \in {"args", "input", "output"} =>
       NamedBy(given, optind, "-o", outfile_path) /\ NamedBy(given, optind, "INFILE", infile_path)
  /\ stage = "output" => program = "lmasm"
  /\ stage \in {"read", "assemble", "open", "write"} =>
       program = "lmasm" /\ outfile_path = OutputNamed

\* While it reads its arguments only a -v prints; once silent, nothing does.
PrintsAccountedFor ==
  /\ stage = "args" /\ printed => \E i \in Heard : i < optind /\ given[i].opt = "-v"
  /\ printed /\ silent /\ status \in {"running", "success", "executing"} =>
       \E i, j \in Heard : i < j /\ given[i].opt = "-v" /\ given[j].opt = "-x"
  /\ \A i \in Heard : i < optind /\ given[i].opt = "-x" => silent

\* OnlyOutputWritten needs the path that is written to be the one the arguments
\* name; SilentFromThenOn needs to know what has been printed so far.
ArgsInv == /\ IInv /\ TypeOK /\ Progress /\ PathsRemembered /\ PrintsAccountedFor
           /\ OnlyOutputWritten

LEMMA NamedNext ==
  ASSUME NEW args \in Seq(Argument), NEW n \in 1 .. Len(args),
         \A j \in 1 .. n : args[j].opt # "--",
         NEW opt, NEW path, NamedBy(args, n, opt, path)
  PROVE  NamedBy(args, n + 1, opt, IF args[n].opt = opt THEN args[n].path ELSE path)
<1> DEFINE Sofar(k) == {i \in 1 .. k - 1 : /\ args[i].opt = opt
                                         /\ \A j \in 1 .. i : args[j].opt # "--"}
<1>1. n \in Nat \ {0} /\ 1 .. (n + 1) - 1 = 1 .. n
  OBVIOUS
<1>2. CASE args[n].opt = opt
  <2>1. n \in Sofar(n + 1) /\ \A j \in Sofar(n + 1) : j <= n
    BY <1>1, <1>2
  <2>2. QED
    BY <1>2, <2>1 DEF NamedBy
<1>3. CASE args[n].opt # opt
  <2>1. Sofar(n + 1) = Sofar(n)
    BY <1>1, <1>3
  <2>2. QED
    BY <1>3, <2>1 DEF NamedBy
<1>4. QED
  BY <1>2, <1>3

\* When all arguments have been heard, that is the last one of them all.
LEMMA NamedLast ==
  ASSUME given \in Seq(Argument), AllHeard, optind \in 1 .. Len(given) + 1,
         NEW opt, NEW path, NamedBy(given, optind, opt, path)
  PROVE  IF Says(opt) THEN path = Last(opt) ELSE path = NULL
<1> DEFINE sofar == {i \in 1 .. optind - 1 : /\ given[i].opt = opt
                                           /\ \A j \in 1 .. i : given[j].opt # "--"}
           saying == {i \in Heard : given[i].opt = opt}
<1>1. saying = sofar /\ saying \subseteq Nat
  BY DEF AllHeard, Heard
<1>2. CASE saying = {}
  BY <1>1, <1>2 DEF NamedBy, Says
<1>3. CASE saying # {}
  <2>1. PICK i \in saying : path = given[i].path /\ \A j \in saying : j <= i
    BY <1>1, <1>3 DEF NamedBy
  <2>2. \A j \in saying : (\A k \in saying : j >= k) => j = i
    BY <1>1, <2>1
  <2>3. Max(saying) = i
    BY <1>1, <2>1, <2>2 DEF Max
  <2>4. QED
    BY <2>1, <2>3 DEF Says, Named, Last
<1>4. QED
  BY <1>2, <1>3

LEMMA InitArgsInv == Init => ArgsInv
<1> SUFFICES ASSUME Init PROVE ArgsInv
  OBVIOUS
<1>1. IInv
  BY Initially
<1>2. given \in Seq(Argument) /\ files \in [Paths -> Contents]
  BY <1>1 DEF IInv, Types
<1>3. TypeOK
  <2>1. {no_overwrite_mode, debug_mode, silent, printed, spoilt} \subseteq BOOLEAN
    BY DEF Init
  <2>2. optind \in 1 .. Len(given) + 1
    BY <1>2 DEF Init
  <2>3. QED
    BY <1>2, <2>1, <2>2 DEF Init, TypeOK
<1>4. NamedBy(given, optind, "-o", NULL) /\ NamedBy(given, optind, "INFILE", NULL)
  BY DEF Init, NamedBy
<1>5. PathsRemembered
  BY <1>4 DEF Init, PathsRemembered
<1>6. Progress /\ OnlyOutputWritten
  BY <1>2 DEF Init, Progress, OnlyOutputWritten
<1>7. PrintsAccountedFor
  BY <1>2 DEF Init, PrintsAccountedFor, Heard
<1>8. QED
  BY <1>1, <1>3, <1>5, <1>6, <1>7 DEF ArgsInv

\* An argument that is remembered.
LEMMA NextArgumentArgs ==
  ASSUME ArgsInv, Infile \/ Outfile \/ NoOverwrite \/ Debug \/ Version \/ Ignored
                  \/ (Silent /\ nullDevice)
  PROVE  ArgsInv'
<1> DEFINE argument == given[optind]
<1>1. IInv'
  BY ArgumentStep DEF ArgsInv, ParseArgs
<1>2. /\ NextArgument /\ stage = "args" /\ optind <= Len(given) /\ argument.opt # "--"
      /\ UNCHANGED <<program, given, system, files, code_buffer, spoilt>>
  BY DEF Infile, Outfile, NoOverwrite, Debug, Version, Ignored, Silent, Finds, world
<1>3. optind' = optind + 1 /\ stage' = "args" /\ status' = status
  BY <1>2 DEF NextArgument
<1>4. optind \in 1 .. Len(given) /\ given \in Seq(Argument) /\ argument \in Argument
  BY <1>2 DEF ArgsInv, TypeOK, IInv, Types
<1>5. \A j \in 1 .. optind : given[j].opt # "--"
  BY <1>2, <1>4 DEF ArgsInv, Progress
<1>6. Heard' = Heard /\ optind \in Heard
  BY <1>2, <1>4, <1>5 DEF Heard
<1>7. TypeOK'
  <2>1. /\ infile_path' \in {infile_path, argument.path}
        /\ outfile_path' \in {outfile_path, argument.path}
        /\ argument.opt \in {"INFILE", "-o"} \/ UNCHANGED <<infile_path, outfile_path>>
        /\ {no_overwrite_mode', debug_mode', silent', printed', spoilt'} \subseteq BOOLEAN
    BY DEF ArgsInv, TypeOK, Infile, Outfile, NoOverwrite, Debug, Version, Ignored, Silent,
           Finds, Prints
  <2>2. infile_path' \in Paths \cup {NULL} /\ outfile_path' \in Paths \cup {NULL}
    BY <1>1 DEF IInv, Types
  <2>3. optind' \in 1 .. Len(given') + 1
    BY <1>2, <1>3, <1>4
  <2>4. QED
    BY <1>2, <1>3, <2>1, <2>2, <2>3 DEF ArgsInv, TypeOK
<1>8. Progress'
  BY <1>2, <1>3, <1>4, <1>5 DEF Progress
<1>9. PathsRemembered'
  <2>1. /\ outfile_path' = IF argument.opt = "-o" THEN argument.path ELSE outfile_path
        /\ infile_path' = IF argument.opt = "INFILE" THEN argument.path ELSE infile_path
    BY DEF Infile, Outfile, NoOverwrite, Debug, Version, Ignored, Silent, Finds
  <2>2. NamedBy(given, optind, "-o", outfile_path) /\ NamedBy(given, optind, "INFILE", infile_path)
    BY <1>2 DEF ArgsInv, PathsRemembered
  <2>3. NamedBy(given, optind + 1, "-o", outfile_path')
    BY <1>4, <1>5, <2>1, <2>2, NamedNext
  <2>4. NamedBy(given, optind + 1, "INFILE", infile_path')
    BY <1>4, <1>5, <2>1, <2>2, NamedNext
  <2>5. QED
    BY <1>2, <1>3, <2>3, <2>4 DEF PathsRemembered
<1>10. PrintsAccountedFor'
  <2>1. /\ \A i \in Heard : i < optind' => i < optind \/ i = optind
        /\ \A i \in Heard : i < optind => i < optind'
        /\ optind < optind'
    BY <1>3, <1>4 DEF Heard
  <2> DEFINE VersionThenSilent ==
               \E i, j \in Heard : i < j /\ given[i].opt = "-v" /\ given[j].opt = "-x"
  <2>2. CASE Version
    <3>1. printed' = (printed \/ ~silent) /\ silent' = silent /\ argument.opt = "-v"
      BY <2>2 DEF Version, Finds, Prints
    <3>2. \E i \in Heard : i < optind' /\ given[i].opt = "-v"
      BY <1>6, <2>1, <3>1
    <3>3. printed' /\ silent' /\ status' \in {"running", "success", "executing"} => VersionThenSilent
      BY <1>3, <3>1 DEF ArgsInv, PrintsAccountedFor
    <3>4. \A i \in Heard : i < optind' /\ given[i].opt = "-x" => silent
      BY <2>1, <3>1 DEF ArgsInv, PrintsAccountedFor
    <3>5. QED
      BY <1>2, <1>6, <3>1, <3>2, <3>3, <3>4 DEF PrintsAccountedFor
  <2>3. CASE Silent /\ nullDevice
    <3>1. printed' = printed /\ silent' = TRUE /\ argument.opt = "-x"
      BY <2>3 DEF Silent, Finds
    <3>2. printed => \E i \in Heard : i < optind /\ given[i].opt = "-v"
      BY <1>2 DEF ArgsInv, PrintsAccountedFor
    <3>3. printed => VersionThenSilent
      BY <1>6, <3>1, <3>2
    <3>4. printed => \E i \in Heard : i < optind' /\ given[i].opt = "-v"
      BY <2>1, <3>2
    <3>5. QED
      BY <1>2, <1>6, <3>1, <3>3, <3>4 DEF PrintsAccountedFor
  <2>4. CASE Infile \/ Outfile \/ NoOverwrite \/ Debug \/ Ignored
    <3>1. printed' = printed /\ silent' = silent /\ argument.opt \notin {"-x", "-v"}
      BY <2>4 DEF Infile, Outfile, NoOverwrite, Debug, Ignored, Finds
    <3>2. QED
      BY <1>2, <1>3, <1>6, <2>1, <3>1 DEF ArgsInv, PrintsAccountedFor
  <2>5. QED
    BY <2>2, <2>3, <2>4
<1>11. OnlyOutputWritten'
  <2>1. files = system.files
    BY <1>2 DEF ArgsInv, IInv, Untouched
  <2>2. QED
    BY <1>2, <2>1 DEF OnlyOutputWritten
<1>12. QED
  BY <1>1, <1>7, <1>8, <1>9, <1>10, <1>11 DEF ArgsInv

\* The ends of a run while it reads its arguments, and the ends of reading.
LEMMA OtherArgumentArgs ==
  ASSUME ArgsInv, Help \/ Unrecognised \/ (Silent /\ ~nullDevice) \/ DoubleDash \/ ArgumentsEnd
  PROVE  ArgsInv'
<1>1. IInv'
  BY ArgumentStep DEF ArgsInv, ParseArgs
<1>2. /\ stage = "args" /\ status = "running"
      /\ UNCHANGED <<program, given, system, files, code_buffer, infile_path, outfile_path,
                     no_overwrite_mode, debug_mode, silent, spoilt>>
      /\ printed' \in BOOLEAN
  BY DEF Help, Unrecognised, Silent, DoubleDash, ArgumentsEnd, Finds, world, arguments,
         ArgsInv, IInv, Types, TypeOK, Prints, Exit, Dies
<1>3. /\ optind \in 1 .. Len(given) + 1 /\ given \in Seq(Argument)
      /\ files = system.files /\ Heard' = Heard
  BY <1>2 DEF ArgsInv, TypeOK, IInv, Types, Untouched, Heard
<1>4. OnlyOutputWritten'
  BY <1>2, <1>3 DEF OnlyOutputWritten
<1>5. CASE Help \/ Unrecognised \/ (Silent /\ ~nullDevice) \/ (ArgumentsEnd /\ stage' = "ended")
  <2>1. stage' = "ended" /\ status' \in {"help", "failed", "crashed"} /\ optind' = optind
    BY <1>5 DEF Help, Unrecognised, Silent, ArgumentsEnd, Exit, Dies, GoTo, arguments
  <2>2. TypeOK'
    BY <1>2, <2>1 DEF ArgsInv, TypeOK
  <2>3. Progress' /\ PathsRemembered' /\ PrintsAccountedFor'
    BY <1>2, <1>3, <2>1 DEF ArgsInv, Progress, PathsRemembered, PrintsAccountedFor
  <2>4. QED
    BY <1>1, <1>4, <2>2, <2>3 DEF ArgsInv
<1>6. CASE DoubleDash
  <2>1. /\ optind' = Len(given) + 1 /\ stage' = stage /\ status' = status /\ printed' = printed
        /\ optind <= Len(given) /\ given[optind].opt = "--"
    BY <1>6 DEF DoubleDash, Finds
  <2>2. \A i \in Heard : i < optind /\ i < optind'
    BY <1>3, <2>1 DEF Heard
  <2>3. TypeOK'
    BY <1>2, <1>3, <2>1 DEF ArgsInv, TypeOK
  <2>4. Progress' /\ PrintsAccountedFor'
    BY <1>2, <1>3, <2>1, <2>2 DEF ArgsInv, Progress, PrintsAccountedFor
  <2>5. ASSUME NEW opt, NEW path, NamedBy(given, optind, opt, path)
        PROVE  NamedBy(given, Len(given) + 1, opt, path)
    <3>1. {i \in 1 .. Len(given) + 1 - 1 : given[i].opt = opt /\ \A j \in 1 .. i : given[j].opt # "--"}
            = {i \in 1 .. optind - 1 : given[i].opt = opt /\ \A j \in 1 .. i : given[j].opt # "--"}
      BY <1>3, <2>1
    <3>2. QED
      BY <2>5, <3>1 DEF NamedBy
  <2>6. PathsRemembered'
    BY <1>2, <2>1, <2>5 DEF ArgsInv, PathsRemembered
  <2>7. QED
    BY <1>1, <1>4, <2>3, <2>4, <2>6 DEF ArgsInv
<1>7. CASE ArgumentsEnd /\ stage' # "ended"
  <2>1. /\ stage' = "input" /\ status' = status /\ optind' = optind /\ optind > Len(given)
        /\ printed' = (printed \/ (debug_mode /\ ~silent))
    BY <1>7 DEF ArgumentsEnd, GoTo, Dies, arguments
  <2>2. TypeOK' /\ PathsRemembered'
    BY <1>2, <2>1 DEF ArgsInv, TypeOK, PathsRemembered
  <2>3. AllHeard'
    BY <1>3, <2>1 DEF AllHeard, Heard
  <2>4. Progress'
    BY <2>1, <2>3 DEF Progress
  <2>5. PrintsAccountedFor'
    BY <1>2, <1>3, <2>1 DEF ArgsInv, PrintsAccountedFor
  <2>6. QED
    BY <1>1, <1>4, <2>2, <2>4, <2>5 DEF ArgsInv
<1>8. QED
  BY <1>5, <1>6, <1>7

\* What comes behind the arguments: they have been heard, and silence lasts.
LEMMA BehindArguments ==
  ASSUME ArgsInv, stage \notin {"args", "ended"}, stage' # "args",
         UNCHANGED <<program, given, optind, infile_path, silent>>,
         silent => printed' = printed
  PROVE  Progress' /\ PrintsAccountedFor'
<1>1. Heard' = Heard /\ AllHeard /\ status = "running"
  BY DEF Heard, ArgsInv, IInv, Types, Progress
<1>2. Progress'
  BY <1>1 DEF Progress, AllHeard
<1>3. PrintsAccountedFor'
  BY <1>1 DEF ArgsInv, PrintsAccountedFor
<1>4. QED
  BY <1>2, <1>3

\* The output of lmasm is the path the arguments name.
LEMMA ResolvesTheOutput ==
  ASSUME ArgsInv, stage = "output", outfile_path' \in Paths,
         \/ outfile_path # NULL /\ outfile_path' = outfile_path
         \/ outfile_path = NULL /\ outfile_path' = DefaultPath(infile_path)
  PROVE  outfile_path' = OutputNamed
<1>1. /\ NamedBy(given, optind, "-o", outfile_path) /\ NamedBy(given, optind, "INFILE", infile_path)
      /\ AllHeard /\ optind \in 1 .. Len(given) + 1 /\ given \in Seq(Argument)
      /\ infile_path # NULL
  BY DEF ArgsInv, PathsRemembered, PathsChecked, IInv, Types, Progress, TypeOK
<1>2. IF Says("-o") THEN outfile_path = Last("-o") ELSE outfile_path = NULL
  BY <1>1, NamedLast
<1>3. IF Says("INFILE") THEN infile_path = Last("INFILE") ELSE infile_path = NULL
  BY <1>1, NamedLast
<1>4. CASE outfile_path # NULL
  BY <1>2, <1>4 DEF OutputNamed
<1>5. CASE outfile_path = NULL
  <2>1. ~Says("-o")
    <3>1. SUFFICES ASSUME Says("-o") PROVE FALSE
      OBVIOUS
    <3>2. \E i \in Heard : given[i].opt = "-o" /\ i < optind
      BY <1>1, <3>1 DEF Says, AllHeard
    <3>3. PICK i \in 1 .. optind - 1 : given[i].opt = "-o" /\ outfile_path = given[i].path
      BY <1>1, <3>2 DEF NamedBy, Heard
    <3>4. given[i] \in Argument
      BY <1>1
    <3>5. given[i].path \in Paths
      BY <3>3, <3>4 DEF Argument
    <3>6. QED
      BY <1>5, <3>3, <3>5, NullAssumption
  <2>2. outfile_path' = DefaultPath(Last("INFILE"))
    BY <1>1, <1>3, <1>5
  <2>3. QED
    BY <2>1, <2>2 DEF OutputNamed, DefaultPath
<1>6. QED
  BY <1>4, <1>5

\* What is named does not change.
LEMMA SameOutputNamed ==
  ASSUME given' = given
  PROVE  OutputNamed' = OutputNamed
  BY DEF OutputNamed, Says, Named, Last, Heard

\* The steps of lmasm and lmvm, but for those that write.
LEMMA QuietArgs ==
  ASSUME ArgsInv, CheckInput \/ resolve_output_path \/ read_text_file \/ Assemble
                  \/ OutOfMemory \/ LoadImage
  PROVE  ArgsInv'
<1>1. IInv'
  BY OtherStep, ResolveStep DEF ArgsInv
<1>2. /\ stage \in {"input", "output", "read", "assemble", "open", "image"} /\ stage' # "args"
      /\ UNCHANGED <<program, given, system, files, optind, infile_path, no_overwrite_mode,
                     debug_mode, silent>>
      /\ printed' \in BOOLEAN /\ (silent => printed' = printed)
  BY DEF CheckInput, resolve_output_path, check_output_path, read_text_file, Assemble,
         OutOfMemory, LoadImage, world, arguments, Exit, Dies, MayDie, GoTo, Prints, ArgsInv, TypeOK
<1>3. Progress' /\ PrintsAccountedFor'
  BY <1>2, BehindArguments
<1>4. OnlyOutputWritten'
  BY <1>2 DEF ArgsInv, IInv, Untouched, OnlyOutputWritten
<1>5. OutputNamed' = OutputNamed
  BY <1>2, SameOutputNamed
<1>6. /\ code_buffer' \in Contents \cup {NULL}
      /\ stage' \in {"output", "image", "read", "assemble", "open", "ended"}
      /\ status' \in {"running", "failed", "crashed", "executing"}
  <2>1. code_buffer \in Contents \cup {NULL} /\ status = "running"
    BY <1>2 DEF ArgsInv, TypeOK, IInv, Types
  <2>2. infile_path \in system.read => files[infile_path] \in Contents
    BY DEF ArgsInv, IInv, Types
  <2>3. QED
    BY <2>1, <2>2
    DEF CheckInput, resolve_output_path, check_output_path, read_text_file, Assemble,
        OutOfMemory, LoadImage, Exit, Dies, MayDie, GoTo, Opens
<1>7. TypeOK'
  <2>1. {no_overwrite_mode, debug_mode, silent, printed, spoilt} \subseteq BOOLEAN
    BY DEF ArgsInv, TypeOK
  <2>2. spoilt' \in BOOLEAN
    <3>1. Overruns(infile_path) \in BOOLEAN
      BY DEF Overruns
    <3>2. spoilt' \in {spoilt, FALSE, TRUE, Overruns(infile_path)}
      BY DEF CheckInput, resolve_output_path, read_text_file, Assemble, OutOfMemory, LoadImage
    <3>3. QED
      BY <2>1, <3>1, <3>2
  <2>3. {no_overwrite_mode, debug_mode, silent, printed, spoilt}' \subseteq BOOLEAN
    BY <1>2, <2>1, <2>2
  <2>4. infile_path' \in Paths \cup {NULL} /\ outfile_path' \in Paths \cup {NULL}
    BY <1>1 DEF IInv, Types
  <2>5. stage' \in {"read", "assemble", "open", "write"} => outfile_path' # NULL
    BY <1>1, NullAssumption DEF IInv, PathsChecked
  <2>6. QED
    BY <1>2, <1>6, <2>3, <2>4, <2>5 DEF ArgsInv, TypeOK
<1>8. PathsRemembered'
  <2>1. CASE CheckInput
    BY <1>2, <2>1 DEF CheckInput, Exit, GoTo, ArgsInv, PathsRemembered, arguments
  <2>2. CASE resolve_output_path
    <3>1. stage' \in {"read", "ended"} /\ stage = "output" /\ program' = "lmasm"
      BY <2>2, <1>2
      DEF resolve_output_path, check_output_path, Exit, Dies, GoTo, ArgsInv, PathsRemembered
    <3>2. CASE stage' = "read"
      <4>1. \/ outfile_path # NULL /\ outfile_path' = outfile_path
            \/ outfile_path = NULL /\ outfile_path' = DefaultPath(infile_path)
        BY <2>2, <3>2 DEF resolve_output_path, Dies
      <4>2. outfile_path' \in Paths
        BY <1>1, <3>2 DEF IInv, PathsChecked
      <4>3. QED
        BY <1>5, <3>1, <3>2, <4>1, <4>2, ResolvesTheOutput DEF PathsRemembered
    <3>3. QED
      BY <3>1, <3>2 DEF PathsRemembered
  <2>3. CASE read_text_file \/ Assemble
    <3>1. /\ stage \in {"read", "assemble"} /\ stage' \in {"assemble", "open", "ended"}
          /\ outfile_path' = outfile_path
      BY <2>3 DEF read_text_file, Assemble, Exit, Dies, MayDie, GoTo, arguments
    <3>2. QED
      BY <1>2, <1>5, <3>1 DEF ArgsInv, PathsRemembered
  <2>4. CASE OutOfMemory \/ LoadImage
    <3>1. stage' = "ended"
      BY <2>4 DEF OutOfMemory, LoadImage, Exit
    <3>2. QED
      BY <3>1 DEF PathsRemembered
  <2>5. QED
    BY <2>1, <2>2, <2>3, <2>4
<1>9. QED
  BY <1>1, <1>3, <1>4, <1>7, <1>8 DEF ArgsInv

\* fopen and fwrite, of the output and of nothing else.
LEMMA WriteArgs ==
  ASSUME ArgsInv, OpenOutput \/ WriteWords
  PROVE  ArgsInv'
<1>1. IInv'
  BY WriteStep DEF ArgsInv
<1>2. /\ stage \in {"open", "write"} /\ stage' \in {"write", "ended"}
      /\ UNCHANGED <<program, given, system, optind, infile_path, outfile_path, no_overwrite_mode,
                     debug_mode, silent, code_buffer, spoilt>>
      /\ printed' \in BOOLEAN /\ (silent => printed' = printed)
      /\ status' \in {status, "failed", "crashed", "success"}
  BY DEF OpenOutput, WriteWords, Succeeds, world, arguments, Exit, MayDie, Dies, GoTo, Prints,
         ArgsInv, TypeOK
<1>3. Progress' /\ PrintsAccountedFor'
  BY <1>2, BehindArguments
<1>4. OutputNamed' = OutputNamed
  BY <1>2, SameOutputNamed
<1>5. program = "lmasm" /\ outfile_path = OutputNamed
  BY <1>2 DEF ArgsInv, PathsRemembered
<1>6. OnlyOutputWritten'
  <2>1. files' = files \/ \E content \in Contents : files' = [files EXCEPT ![outfile_path] = content]
    BY DEF OpenOutput, WriteWords, Contents
  <2>2. \A p \in Paths : p # outfile_path => files'[p] = files[p]
    BY <2>1 DEF ArgsInv, TypeOK
  <2>3. QED
    BY <1>2, <1>4, <1>5, <2>2 DEF ArgsInv, OnlyOutputWritten
<1>7. TypeOK'
  <2>1. {no_overwrite_mode, debug_mode, silent, printed, spoilt} \subseteq BOOLEAN
    BY DEF ArgsInv, TypeOK
  <2>2. {no_overwrite_mode, debug_mode, silent, printed, spoilt}' \subseteq BOOLEAN
    BY <1>2, <2>1
  <2>3. files' \in [Paths -> Contents]
    BY <1>1 DEF IInv, Types
  <2>4. QED
    BY <1>2, <2>2, <2>3 DEF ArgsInv, TypeOK
<1>8. PathsRemembered'
  BY <1>2, <1>4, <1>5 DEF PathsRemembered
<1>9. QED
  BY <1>1, <1>3, <1>6, <1>7, <1>8 DEF ArgsInv

LEMMA NextArgsInv == ArgsInv /\ [Next]_vars => ArgsInv'
<1> SUFFICES ASSUME ArgsInv, [Next]_vars PROVE ArgsInv'
  OBVIOUS
<1>1. CASE UNCHANGED vars
  <2>1. IInv' /\ given' = given /\ OutputNamed' = OutputNamed /\ Heard' = Heard
    BY <1>1, Inductive, SameOutputNamed DEF ArgsInv, vars, world, Heard
  <2>2. QED
    BY <1>1, <2>1
    DEF vars, world, arguments, ArgsInv, TypeOK, Progress, AllHeard, PathsRemembered,
        PrintsAccountedFor, OnlyOutputWritten
<1>2. QED
  BY <1>1, NextArgumentArgs, OtherArgumentArgs, QuietArgs, WriteArgs DEF Next, ParseArgs, Ended

LEMMA AlwaysArgsInv == Spec => []ArgsInv
  BY InitArgsInv, NextArgsInv, PTL DEF Spec

-----------------------------------------------------------------------------
\* Theorems

\* Everything that may be refused comes before fopen (main), so a run that does
\* not end in success has changed a file only if it crashed on a heap it had
\* spoilt, or lacked, on a big endian host, the memory to copy the words.
THEOREM FailuresLeaveFiles == Spec => []FailureLeavesFiles
<1>1. IInv => FailureLeavesFiles
  BY DEF IInv
<1>2. QED
  BY <1>1, Initially, Inductive, PTL DEF Spec

\* With -k no readable file changes, whichever way the output path was found
\* (check_output_path).
THEOREM KeepsReadable == Spec => []ExistingIsKept
<1>1. IInv => ExistingIsKept
  BY DEF IInv
<1>2. QED
  BY <1>1, Initially, Inductive, PTL DEF Spec

\* Every path is one of the paths, and optind stays in argv and one behind it.
THEOREM TypesOK == Spec => []TypeOK
<1>1. ArgsInv => TypeOK
  BY DEF ArgsInv
<1>2. QED
  BY <1>1, AlwaysArgsInv, PTL

\* Whatever the order of the arguments, no file changes but the one they name
\* (parse_args, resolve_output_path), and none under lmvm.
THEOREM WritesTheOutputOnly == Spec => []OnlyOutputWritten
<1>1. ArgsInv => OnlyOutputWritten
  BY DEF ArgsInv
<1>2. QED
  BY <1>1, AlwaysArgsInv, PTL

\* A run with -x has printed nothing but the version, for a -v before the -x.
THEOREM StaysSilent == Spec => []SilentFromThenOn
<1>1. ArgsInv => SilentFromThenOn
  <2> SUFFICES ASSUME ArgsInv, status \in {"success", "executing"}, Says("-x"), printed
               PROVE  \E i, j \in Heard : i < j /\ given[i].opt = "-v" /\ given[j].opt = "-x"
    BY DEF SilentFromThenOn
  <2>1. stage # "args" /\ AllHeard
    BY DEF ArgsInv, IInv, Types, Progress
  <2>2. silent
    BY <2>1 DEF ArgsInv, PrintsAccountedFor, Says, AllHeard
  <2>3. QED
    BY <2>2 DEF ArgsInv, PrintsAccountedFor
<1>2. QED
  BY <1>1, AlwaysArgsInv, PTL
=============================================================================
