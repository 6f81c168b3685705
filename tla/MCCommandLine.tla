---------------------------- MODULE MCCommandLine ----------------------------
(***************************************************************************)
(* Two sources, one in the current directory, the other elsewhere and      *)
(* without an extension, and the executables they have by default; up to   *)
(* three arguments.  Every file may be there or not, of the kinds that     *)
(* matter at its place; the first's executable may be write-only,          *)
(* read-only or out of reach.                                              *)
(***************************************************************************)
EXTENDS CommandLine, TLC

Source   == [dir |-> "cwd", stem |-> "prog", ext |-> "lmasm"]
Compiled == [dir |-> "cwd", stem |-> "prog", ext |-> "lmc"]
Bare     == [dir |-> "sub", stem |-> "other", ext |-> ""]
FromBare == [dir |-> "cwd", stem |-> "other", ext |-> "lmc"]
BesideIt == [dir |-> "sub", stem |-> "other", ext |-> "lmc"]

MCPaths == {Source, Compiled, Bare, FromBare, BesideIt}

Option(o)     == [opt |-> o, path |-> NULL]
With(o, p)    == [opt |-> o, path |-> p]
MCArguments   == {Option(o) : o \in {"-h", "-k", "-v", "-d", "-x", "-s", "-?", "--"}}
                 \cup {With("INFILE", p) : p \in {Source, Bare, Compiled}}
                 \cup {With("-o", p) : p \in {Source, Compiled}}
MCCommandLines == UNION {[1 .. n -> MCArguments] : n \in 0 .. 3}

FileSystem(source, compiled, read, write) ==
  [files |-> (Source :> source @@ Compiled :> compiled @@ Bare :> "program" @@
              FromBare :> "old" @@ BesideIt :> "none"),
   read |-> read, write |-> write]

Others == MCPaths \ {Compiled}

MCSystems ==
  {FileSystem("program", compiled, MCPaths, MCPaths) :
     compiled \in {"none", "directory", "program", "old", "partial"}}
  \cup {FileSystem("program", "old", MCPaths, Others), FileSystem("program", "old", Others, MCPaths),
        FileSystem("none", "none", MCPaths, Others), FileSystem("text", "old", MCPaths, MCPaths)}
=============================================================================
