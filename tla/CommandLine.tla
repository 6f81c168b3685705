----------------------------- MODULE CommandLine -----------------------------
(***************************************************************************)
(* One run of lmasm or lmvm from its command line to its exit status, and  *)
(* what it does to the files around it.  The host may refuse it memory,    *)
(* the null device, a file or room on the disk.  Assembling a text,        *)
(* executing an image and the bytes of one are the matter of Assembler,    *)
(* LMVM and ImageFile; several processes at one file that of Toolchain.    *)
(***************************************************************************)
EXTENDS Integers, Sequences, FiniteSetsExt

CONSTANTS
  Paths,         \* records [dir, stem, ext]
  Cwd,           \* the directory the program is run in
  CommandLines,  \* the argument vectors, as getopt_long cuts them up
  Systems,       \* the file systems: [files, read, write]
  NULL

ExecfileExt == "lmc"  \* DEFAULT_EXECFILE_EXT

\* An argument: an option with its path or NULL, or an INFILE with its path.
\* A long option is the short one it stands for.
Argument == [opt : {"-h", "-k", "-v", "-d", "-x", "-s", "-?", "--"}, path : {NULL}]
            \cup [opt : {"-o", "INFILE"}, path : Paths]

\* program: a text that assembles; text: another; old: an image; image: the one
\* this run makes; partial: less than an image, or nothing.
Contents == {"none", "directory", "program", "text", "old", "image", "partial"}

ASSUME PathsAssumption == \A p \in Paths : [dir |-> Cwd, stem |-> p.stem, ext |-> ExecfileExt] \in Paths
ASSUME NullAssumption == NULL \notin Paths
ASSUME CommandLinesAssumption == CommandLines \subseteq Seq(Argument)
ASSUME SystemsAssumption ==
  Systems \subseteq [files : [Paths -> Contents \ {"image"}],
                     read : SUBSET Paths, write : SUBSET Paths]

VARIABLES
  program, host,
  given,                      \* argv
  optind,                     \* the argument getopt_long looks at next
  infile_path, outfile_path,
  no_overwrite_mode, debug_mode,
  silent,                     \* stdout and stderr go to the null device
  printed,                    \* something went to the terminal
  system,                     \* the files before, and who may open them
  files,
  nullDevice,                 \* whether it can be opened
  code_buffer,
  spoilt,                     \* the heap: a block was overrun, or used unwritten
  stage, status

arguments == <<optind, infile_path, outfile_path, no_overwrite_mode, debug_mode, silent>>
world     == <<program, host, given, system, nullDevice>>
vars      == <<world, arguments, printed, files, code_buffer, spoilt, stage, status>>

Init ==
  /\ program \in {"lmasm", "lmvm"} /\ host \in {"little", "big"}
  /\ given \in CommandLines /\ optind = 1
  /\ infile_path = NULL /\ outfile_path = NULL
  /\ no_overwrite_mode = FALSE /\ debug_mode = FALSE
  /\ silent = FALSE /\ printed = FALSE
  /\ system \in Systems /\ files = system.files
  /\ nullDevice \in BOOLEAN
  /\ code_buffer = NULL /\ spoilt = FALSE
  /\ stage = "args" /\ status = "running"

-----------------------------------------------------------------------------
\* Ways to end

\* Mutant: stderr is not redirected.
Prints_Stderr == printed' = TRUE
Prints == printed' = (printed \/ ~silent)

\* puts or fprintf, then exit or return.
Exit(how) == stage' = "ended" /\ status' = how /\ Prints
\* A null pointer is used or a block overrun.
Dies == stage' = "ended" /\ status' = "crashed" /\ UNCHANGED printed
\* malloc, free or stdio trips over the spoilt heap, at this call or a later one.
MayDie == spoilt /\ Dies

GoTo(next) == stage' = next /\ UNCHANGED status

-----------------------------------------------------------------------------
\* parse_args

\* OPTIONS of the two programs.
Recognised == IF program = "lmasm" THEN {"-h", "-o", "-k", "-v", "-d", "-x"}
              ELSE {"-h", "-v", "-d", "-s", "-x"}

\* getopt_long finds the argument opt.
Finds(opt) == /\ stage = "args" /\ optind <= Len(given) /\ given[optind].opt = opt
              /\ opt \in Recognised \cup {"INFILE", "--"}
              /\ UNCHANGED <<world, files, code_buffer, spoilt>>

NextArgument == optind' = optind + 1 /\ stage' = stage /\ status' = status

Help == Finds("-h") /\ Exit("help") /\ UNCHANGED arguments

\* Case '?': an option the program has not, or -o without its path.
Unrecognised ==
  /\ stage = "args" /\ optind <= Len(given)
  /\ given[optind].opt \notin Recognised \cup {"INFILE", "--"}
  /\ Exit("failed")
  /\ UNCHANGED <<world, arguments, files, code_buffer, spoilt>>

Infile == /\ Finds("INFILE") /\ NextArgument
          /\ infile_path' = given[optind].path
          /\ UNCHANGED <<outfile_path, no_overwrite_mode, debug_mode, silent, printed>>

Outfile == /\ Finds("-o") /\ NextArgument
           /\ outfile_path' = given[optind].path
           /\ UNCHANGED <<infile_path, no_overwrite_mode, debug_mode, silent, printed>>

NoOverwrite == /\ Finds("-k") /\ NextArgument
               /\ no_overwrite_mode' = TRUE
               /\ UNCHANGED <<infile_path, outfile_path, debug_mode, silent, printed>>

Debug == /\ Finds("-d") /\ NextArgument
         /\ debug_mode' = TRUE
         /\ UNCHANGED <<infile_path, outfile_path, no_overwrite_mode, silent, printed>>

Version == /\ Finds("-v") /\ NextArgument /\ Prints
           /\ UNCHANGED <<infile_path, outfile_path, no_overwrite_mode, debug_mode, silent>>

\* freopen of stdout and stderr.
Silent == /\ Finds("-x")
          /\ IF nullDevice THEN NextArgument /\ silent' = TRUE /\ UNCHANGED printed
             ELSE Exit("failed") /\ UNCHANGED <<optind, silent>>
          /\ UNCHANGED <<infile_path, outfile_path, no_overwrite_mode, debug_mode>>

\* lmvm takes -s and has no case for it.
Ignored == Finds("-s") /\ NextArgument
           /\ UNCHANGED <<infile_path, outfile_path, no_overwrite_mode, debug_mode, silent, printed>>

\* getopt_long leaves what is behind -- to a caller that does not fetch it.
DoubleDash == /\ Finds("--") /\ optind' = Len(given) + 1
              /\ UNCHANGED <<infile_path, outfile_path, no_overwrite_mode, debug_mode, silent,
                             printed, stage, status>>

\* Without -d debug messages go to the null device; whether it could be opened
\* is not looked at.
ArgumentsEnd ==
  /\ stage = "args" /\ optind > Len(given)
  /\ IF debug_mode \/ nullDevice THEN GoTo("input") /\ printed' = (printed \/ (debug_mode /\ ~silent))
     ELSE Dies
  /\ UNCHANGED <<world, arguments, files, code_buffer, spoilt>>

ParseArgs == \/ Help \/ Unrecognised \/ Infile \/ Outfile \/ NoOverwrite \/ Debug
             \/ Version \/ Silent \/ Ignored \/ DoubleDash \/ ArgumentsEnd

-----------------------------------------------------------------------------
\* Checks of the paths

is_dir(p) == files[p] = "directory"
\* fopen for reading, and for writing.
Opens(p)   == files[p] # "none" /\ p \in system.read
Creates(p) == ~is_dir(p) /\ p \in system.write

CheckInput ==
  /\ stage = "input"
  /\ IF infile_path = NULL THEN Exit("failed")
     ELSE IF is_dir(infile_path) \/ ~Opens(infile_path) THEN Exit("failed")
     ELSE GoTo(IF program = "lmasm" THEN "output" ELSE "image") /\ UNCHANGED printed
  /\ UNCHANGED <<world, arguments, files, code_buffer, spoilt>>

\* Mutant: the path of the input keeps its directory.
DefaultPath_Beside(p) == [p EXCEPT !.ext = ExecfileExt]
\* The basename with its extension replaced, behind getcwd.
DefaultPath(p) == [dir |-> Cwd, stem |-> p.stem, ext |-> ExecfileExt]

\* Mutant: a path that was given is not checked.
MustStay_Default(p) == no_overwrite_mode /\ outfile_path = NULL /\ Opens(p)
\* The second check of check_output_path.
MustStay(p) == no_overwrite_mode /\ Opens(p)

check_output_path(p) == IF is_dir(p) \/ MustStay(p) THEN Exit("failed")
                        ELSE GoTo("read") /\ Prints

\* The block the default name is put together in has the room of the name of
\* the input: it is overrun when .lmc is longer than what it replaces.
Overruns(p) == Len(p.ext) < Len(ExecfileExt)

\* Mutant: the path that was made up is not kept.
resolve_output_path_Forgotten ==
  /\ stage = "output"
  /\ check_output_path(IF outfile_path = NULL THEN DefaultPath(infile_path) ELSE outfile_path)
  /\ UNCHANGED <<world, arguments, files, code_buffer, spoilt>>

\* getcwd may fail, and its result is used.
resolve_output_path ==
  /\ stage = "output"
  /\ \/ /\ outfile_path # NULL /\ check_output_path(outfile_path)
        /\ UNCHANGED <<outfile_path, spoilt>>
     \/ /\ outfile_path = NULL /\ outfile_path' = DefaultPath(infile_path)
        /\ spoilt' = Overruns(infile_path)
        /\ check_output_path(DefaultPath(infile_path))
     \/ outfile_path = NULL /\ Dies /\ UNCHANGED <<outfile_path, spoilt>>
  /\ UNCHANGED <<world, optind, infile_path, no_overwrite_mode, debug_mode, silent,
                 files, code_buffer>>

-----------------------------------------------------------------------------
\* lmasm

\* It fails when reading fails.
read_text_file ==
  /\ stage = "read"
  /\ \/ /\ Opens(infile_path) /\ code_buffer' = files[infile_path]
        /\ GoTo("assemble") /\ Prints
     \/ (Exit("failed") \/ MayDie) /\ UNCHANGED code_buffer
  /\ UNCHANGED <<world, arguments, files, spoilt>>

\* lex, parse_tokens, generate_executable and the frees behind them.  An image
\* or less may be a program.  A table of labels that has grown is half outside
\* its block, and its use may end the run at once or spoil the heap.
Assemble ==
  /\ stage = "assemble"
  /\ \/ code_buffer # "text" /\ GoTo("open") /\ UNCHANGED printed /\ spoilt' \in {spoilt, TRUE}
     \/ code_buffer # "program" /\ Exit("failed") /\ UNCHANGED spoilt
     \/ Dies /\ UNCHANGED spoilt
  /\ UNCHANGED <<world, arguments, files, code_buffer>>

\* The status of write_lmcx_file is not looked at.
Succeeds == Exit("success")

\* write_lmcx_file, as far as fopen(path, "wb").
OpenOutput ==
  /\ stage = "open"
  /\ \/ /\ Creates(outfile_path)
        /\ files' = [files EXCEPT ![outfile_path] = "partial"]
        /\ GoTo("write") /\ UNCHANGED printed
     \/ ~Creates(outfile_path) /\ Succeeds /\ UNCHANGED files
     \/ MayDie /\ UNCHANGED files
  /\ UNCHANGED <<world, arguments, code_buffer, spoilt>>

\* Mutant: every host writes a copy of the words.
CopiesWords_Always == TRUE
\* Only a big endian one swaps their bytes in a copy.
CopiesWords == host = "big"

\* The rest of it and the frees in main.  The disk may be full; a crash may come
\* before the buffer of the file is written, in between or after that.
WriteWords ==
  /\ stage = "write"
  /\ \/ /\ \E written \in {"image", "partial"} : files' = [files EXCEPT ![outfile_path] = written]
        /\ Succeeds \/ MayDie
     \/ CopiesWords /\ Exit("failed") /\ UNCHANGED files  \* there was no memory
  /\ UNCHANGED <<world, arguments, code_buffer, spoilt>>

\* checked_malloc, checked_calloc and checked_realloc end the program.
OutOfMemory ==
  /\ stage \in {"read", "assemble", "open", "image"} \/ (stage = "output" /\ outfile_path = NULL)
  /\ Exit("failed")
  /\ UNCHANGED <<world, arguments, files, code_buffer, spoilt>>

-----------------------------------------------------------------------------
\* lmvm: read_lmcx_file and its checks; ImageFile has them in detail

LoadImage ==
  /\ stage = "image"
  /\ \/ files[infile_path] \in {"old", "partial"} /\ Exit("executing")
     \/ files[infile_path] # "old" /\ Exit("failed")
  /\ UNCHANGED <<world, arguments, files, code_buffer, spoilt>>

-----------------------------------------------------------------------------
Ended == stage = "ended" /\ UNCHANGED vars

Next == \/ ParseArgs \/ CheckInput \/ resolve_output_path
        \/ read_text_file \/ Assemble \/ OpenOutput \/ WriteWords \/ OutOfMemory
        \/ LoadImage \/ Ended

Spec == Init /\ [][Next]_vars

-----------------------------------------------------------------------------
\* Properties

\* Types: a path is one of the paths, the output has one before anything is
\* read, and getopt_long stays within argv and one behind it.
TypeOK ==
  /\ optind \in 1 .. Len(given) + 1
  /\ infile_path \in Paths \cup {NULL} /\ outfile_path \in Paths \cup {NULL}
  /\ stage \in {"read", "assemble", "open", "write"} => outfile_path # NULL
  /\ {no_overwrite_mode, debug_mode, silent, printed, spoilt} \subseteq BOOLEAN
  /\ files \in [Paths -> Contents]
  /\ code_buffer \in Contents \cup {NULL}
  /\ stage \in {"args", "input", "output", "read", "assemble", "open", "write", "image", "ended"}
  /\ status \in {"running", "help", "failed", "crashed", "success", "executing"}

\* The arguments before --.
Heard == {i \in DOMAIN given : \A j \in 1 .. i : given[j].opt # "--"}
Says(opt) == \E i \in Heard : given[i].opt = opt
Named(opt) == {i \in Heard : given[i].opt = opt}
Last(opt) == given[Max(Named(opt))].path

\* The path the last -o names, or else the last INFILE's name in the current
\* directory with the extension of executables.
OutputNamed == IF Says("-o") THEN Last("-o")
               ELSE [dir |-> Cwd, stem |-> Last("INFILE").stem, ext |-> ExecfileExt]

\* Whatever the order of the arguments, a run changes no file but the one that
\* the last of them name, and lmvm none.  (The README says that the first INFILE
\* counts; case 1 of parse_args keeps the last.)
OnlyOutputWritten ==
  \A p \in Paths : files[p] # system.files[p] => program = "lmasm" /\ p = OutputNamed

\* All that can be refused is refused before the output is opened: of the runs
\* that do not end in success only two kinds have changed a file.  One crashed
\* for a heap that its own name or its labels had spoilt; the other, on a big
\* endian host, lacked the memory for its copy of the words, and leaves less
\* than an image where the old one was.
FailureLeavesFiles ==
  status \in {"failed", "crashed", "help", "executing"} /\ files # system.files =>
    \/ status = "crashed" /\ spoilt
    \/ status = "failed" /\ host = "big" /\ files[outfile_path] = "partial"

\* With -k anywhere, no file that can be opened changes, if nobody else is at
\* work: the path is checked whether it was given or made up.
ExistingIsKept ==
  Says("-k") => \A p \in system.read : system.files[p] # "none" => files[p] = system.files[p]

\* -x silences everything that follows it: what a run with -x has printed, it
\* printed for a -v before the -x, whatever else it goes on to do.
SilentFromThenOn ==
  status \in {"success", "executing"} /\ Says("-x") /\ printed =>
    \E i, j \in Heard : i < j /\ given[i].opt = "-v" /\ given[j].opt = "-x"
=============================================================================
