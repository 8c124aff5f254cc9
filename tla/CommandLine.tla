----------------------------- MODULE CommandLine -----------------------------
(***************************************************************************)
(* The command line: CmdLine::parse reads it with getopt, update_engine    *)
(* hands the include paths to the static list of EngineBase.  Both ask the *)
(* file system whether a path exists, and the answer may be another one at *)
(* the next step.                                                          *)
(*                                                                         *)
(* Arguments are "-I" and "-o" with the argument behind them, an option    *)
(* getopt does not know, and the operands, which getopt sorts behind the   *)
(* options as it comes across them.                                        *)
(***************************************************************************)
EXTENDS Integers, SequencesExt

CONSTANTS
  CommandLines,   \* the argument vectors: sequences of [opt, arg]
  Exists          \* the paths that exist at the start

NoPath == "no path"

ASSUME CommandLineAssumption ==
  /\ CommandLines \subseteq Seq([opt : STRING, arg : STRING])
  /\ NoPath \notin Exists

VARIABLES
  argv,               \* the arguments behind argv[0]
  exists,             \* the paths that exist
  scanned,            \* how many arguments getopt has come across
  operands,           \* those it sorted behind the options
  cmd_include_paths,  \* CmdLine::include_paths
  output_file,        \* CmdLine::output_file
  input_file,         \* CmdLine::input_file
  include_paths,      \* EngineBaseHelper::include_paths
  added,              \* how many paths update_engine has added, -1 before it emptied the list
  doing               \* "parse", "update_engine", "run", or the exception thrown

cmdLine == <<argv, scanned, operands, cmd_include_paths, output_file, input_file>>
cmdVars == <<cmdLine, exists, include_paths, added, doing>>

\* The list of the engine may hold paths of an earlier use.
CmdInit ==
  /\ argv \in CommandLines
  /\ exists = Exists
  /\ scanned = 0
  /\ operands = <<>>
  /\ cmd_include_paths = <<>>
  /\ output_file = NoPath
  /\ input_file = NoPath
  /\ include_paths \in {<<>>} \cup {<<p>> : p \in Exists}
  /\ added = -1
  /\ doing = "parse"

----------------------------------------------------------------------------
(* CmdLine::parse                                                          *)

IsOption(a) == a.opt # "operand"
Arg == argv[scanned + 1]

\* An empty path for a file that does not exist.
GetNormalizedPath(p) == IF p \in exists THEN p ELSE NoPath

\* The path is normalised a second time behind the question whether it exists:
\* it may have vanished in between.
KeepExisting(p) == exists' \in {exists, exists \ {p}}
Kept(p) == IF p \in exists' THEN p ELSE NoPath

Throw(type) == doing' = type /\ UNCHANGED <<cmdLine, exists, include_paths, added>>

\* An operand goes behind the options.
SortOperand ==
  /\ doing = "parse" /\ scanned < Len(argv) /\ ~IsOption(Arg)
  /\ operands' = Append(operands, Arg.arg)
  /\ scanned' = scanned + 1
  /\ UNCHANGED <<argv, exists, cmd_include_paths, output_file, input_file, include_paths, added,
                 doing>>

ReadOption ==
  /\ doing = "parse" /\ scanned < Len(argv)
  /\ \/ /\ Arg.opt = "-I" /\ Arg.arg \in exists
        /\ KeepExisting(Arg.arg)
        /\ cmd_include_paths' = Append(cmd_include_paths, Kept(Arg.arg))
        /\ UNCHANGED output_file
     \/ /\ Arg.opt = "-o"
        /\ output_file' = GetNormalizedPath(Arg.arg)
        /\ UNCHANGED <<cmd_include_paths, exists>>
     \/ /\ Arg.opt = "unknown"
        /\ UNCHANGED <<cmd_include_paths, output_file, exists>>
  /\ scanned' = scanned + 1
  /\ UNCHANGED <<argv, operands, input_file, include_paths, added, doing>>

RefuseIncludePath ==
  /\ doing = "parse" /\ scanned < Len(argv)
  /\ Arg.opt = "-I" /\ Arg.arg \notin exists
  /\ Throw("INVALID_PATH_ERROR")

\* The first operand; the others are not looked at.
ReadOperand ==
  /\ doing = "parse" /\ scanned = Len(argv)
  /\ IF operands = <<>> THEN Throw("NO_INPUT_FILE_ERROR")
     ELSE IF Head(operands) \notin exists THEN Throw("INVALID_PATH_ERROR")
     ELSE /\ KeepExisting(Head(operands))
          /\ input_file' = Kept(Head(operands))
          /\ doing' = "update_engine"
          /\ UNCHANGED <<argv, scanned, operands, cmd_include_paths, output_file, include_paths,
                         added>>

----------------------------------------------------------------------------
(* update_engine: the list is emptied before the first path is added, and  *)
(* each addition asks whether the path exists.                             *)

\* A faulty variant: the old paths stay in place.
ClearNothing == include_paths' = include_paths

ClearIncludePaths == include_paths' = <<>>

Clear ==
  /\ doing = "update_engine" /\ added = -1
  /\ ClearIncludePaths
  /\ added' = 0
  /\ UNCHANGED <<cmdLine, exists, doing>>

AddIncludePath ==
  /\ doing = "update_engine" /\ added \in 0 .. Len(cmd_include_paths) - 1
  /\ LET p == cmd_include_paths[added + 1]
     IN  IF p \notin exists THEN Throw("INVALID_PATH_ERROR")
         ELSE /\ include_paths' = Append(include_paths, p)
              /\ added' = added + 1
              /\ UNCHANGED <<cmdLine, exists, doing>>

UpdateEngine ==
  \/ Clear \/ AddIncludePath
  \/ /\ doing = "update_engine" /\ added = Len(cmd_include_paths)
     /\ doing' = "run"
     /\ UNCHANGED <<cmdLine, exists, include_paths, added>>

----------------------------------------------------------------------------
(* A path is removed or made behind the back of the program.               *)
Vanish(p) ==
  /\ doing \in {"parse", "update_engine"}
  /\ exists' = IF p \in exists THEN exists \ {p} ELSE exists \cup {p}
  /\ UNCHANGED <<cmdLine, include_paths, added, doing>>

CmdNext ==
  \/ SortOperand \/ ReadOption \/ RefuseIncludePath \/ ReadOperand \/ UpdateEngine
  \/ \E p \in Exists : Vanish(p)

CmdSpec == CmdInit /\ [][CmdNext]_cmdVars

----------------------------------------------------------------------------
\* Behind those of the arguments before, that of a, if it has this opt.
Collect(found, a, opt) == IF a.opt = opt THEN Append(found, a.arg) ELSE found

\* What stands behind this opt among the first k arguments, for every k.
ArgsUpTo(opt) ==
  LET found[k \in 0 .. Len(argv)] ==
        IF k = 0 THEN <<>> ELSE Collect(found[k - 1], argv[k], opt)
  IN  found

Args(opt) == ArgsUpTo(opt)[Len(argv)]

\* A program that comes to run searches the include paths of its command line,
\* all of them, in order and no others, and works on its first operand, though
\* options may stand behind it, or on an empty path when it vanished meanwhile.
\* One that failed on the way, because an include path vanished between parse
\* and update_engine, is left with the first of them, once the list was
\* emptied.
EngineFollows ==
  /\ doing = "run" => include_paths = Args("-I") /\ input_file \in {Head(Args("operand")), NoPath}
  /\ added >= 0 => IsPrefix(include_paths, Args("-I"))

\* The output file of a program that runs is the one of its command line:
\* "-o <output_file> ... being the output file" (external.hpp:59).
OutputIsNamed ==
  doing = "run" /\ Args("-o") # <<>> => output_file = Last(Args("-o"))
=============================================================================
