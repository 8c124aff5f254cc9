----------------------------- MODULE SourceFiles -----------------------------
(***************************************************************************)
(* SrcFile over File: a stream with the path it was opened with, and the   *)
(* pragmas found in the file.  The stream is the base class; the path is a *)
(* member beside it, and the pragmas are members of the derived class, so  *)
(* the three are set by different functions.                               *)
(*                                                                         *)
(* A pragma is modelled by the path of the file its text was read from.    *)
(* An import holds a SrcFile of its own, which lives as long as an import  *)
(* that names it.  An open may fail: the constructor and restart do not    *)
(* ask.                                                                    *)
(***************************************************************************)
EXTENDS Naturals

CONSTANTS
  SrcFile,    \* SrcFile objects
  Variable,   \* those that are variables of a program: the others are held by imports
  Path        \* paths of files

ASSUME SourceFilesAssumption == Variable \subseteq SrcFile /\ "" \notin Path

VARIABLES
  live,           \* the objects that exist
  path,           \* path[f]
  stream,         \* stream[f]: the path of the file the stream reads, "" when closed
  super_defines,  \* super_defines[f]: the files they were read from
  imports,        \* imports[f]: the SrcFile objects they hold
  assigned        \* objects that took part in a move assignment

sourceVars == <<live, path, stream, super_defines, imports, assigned>>

SourceInit ==
  /\ live = {}
  /\ path = [f \in SrcFile |-> ""]
  /\ stream = [f \in SrcFile |-> ""]
  /\ super_defines = [f \in SrcFile |-> {}]
  /\ imports = [f \in SrcFile |-> {}]
  /\ assigned = {}

\* The file may not be there.
Opened(p) == {p, ""}

\* S and what the imports of its objects hold, theirs included.
Held(S, holds) ==
  {f \in SrcFile : \A T \in SUBSET SrcFile :
     S \subseteq T /\ (\A g \in T : holds[g] \subseteq T) => f \in T}

\* The members and the objects after a step: what no import holds any more is
\* destroyed, its stream closed.
Become(alive, p, s, d, i, a) ==
  LET left == Held(alive \cap Variable, i)
      Of(member, none) == [f \in SrcFile |-> IF f \in left THEN member[f] ELSE none]
  IN  /\ live' = left
      /\ path' = Of(p, "")
      /\ stream' = Of(s, "")
      /\ super_defines' = Of(d, {})
      /\ imports' = Of(i, {})
      /\ assigned' = a \cap left

Construct(f, p) ==
  /\ f \in Variable \ live
  /\ \E s \in Opened(p) :
       Become(live \cup {f}, [path EXCEPT ![f] = p], [stream EXCEPT ![f] = s],
              super_defines, imports, assigned)

\* The stream, the path and the pragmas all move.
MoveConstruct(f, other) ==
  /\ f \in Variable \ live /\ other \in live \cap Variable
  /\ Become(live \cup {f},
            [path EXCEPT ![f] = path[other], ![other] = ""],
            [stream EXCEPT ![f] = stream[other], ![other] = ""],
            [super_defines EXCEPT ![f] = super_defines[other], ![other] = {}],
            [imports EXCEPT ![f] = imports[other], ![other] = {}],
            IF other \in assigned THEN assigned \cup {f} ELSE assigned)

\* File::operator= moves the path and leaves both streams where they are.
MoveAssign(f, other) ==
  /\ f \in live \cap Variable /\ other \in live \cap Variable /\ f # other
  /\ Become(live, [path EXCEPT ![f] = path[other], ![other] = ""], stream,
            [super_defines EXCEPT ![f] = super_defines[other], ![other] = {}],
            [imports EXCEPT ![f] = imports[other], ![other] = {}], assigned \cup {f, other})

Destroy(f) ==
  /\ f \in live \cap Variable
  /\ Become(live \ {f}, path, stream, super_defines, imports, assigned)

\* restart(): the path is cleared, the stream closed, the pragmas are dropped.
Restart(f) ==
  /\ f \in live
  /\ Become(live, [path EXCEPT ![f] = ""], [stream EXCEPT ![f] = ""],
            [super_defines EXCEPT ![f] = {}], [imports EXCEPT ![f] = {}], assigned \ {f})

\* Faulty: the pragmas stay, as if restart() in File::restart(path, mode), which
\* is virtual and drops them, were File's own and nothing followed it.
RestartWithOfFile(f, p) ==
  /\ f \in live
  /\ \E s \in Opened(p) :
       Become(live, [path EXCEPT ![f] = p], [stream EXCEPT ![f] = s], super_defines, imports,
              assigned \ {f})

\* restart(path, mode): a mode that writes is refused before anything is
\* changed.
RestartWith(f, p) ==
  /\ f \in live
  /\ \E s \in Opened(p) :
       Become(live, [path EXCEPT ![f] = p], [stream EXCEPT ![f] = s],
              [super_defines EXCEPT ![f] = {}], [imports EXCEPT ![f] = {}], assigned \ {f})

\* What is read from the stream is added to the object.
AddSuperDefine(f) ==
  /\ f \in live /\ stream[f] # ""
  /\ Become(live, path, stream,
            [super_defines EXCEPT ![f] = @ \cup {stream[f]}], imports, assigned)

\* A PragmaInc opens the file it names, and is copied into the object.
AddInclude(f, new, p) ==
  /\ f \in live /\ stream[f] # "" /\ new \notin live \cup Variable
  /\ \E s \in Opened(p) :
       Become(live \cup {new}, [path EXCEPT ![new] = p], [stream EXCEPT ![new] = s],
              super_defines, [imports EXCEPT ![f] = @ \cup {new}], assigned)

\* The copy of a PragmaInc shares the file it includes.
CopyInclude(f, other, new) ==
  /\ f \in live \cap Variable /\ other \in live \cap Variable /\ f # other
  /\ new \in imports[other]
  /\ Become(live, path, stream, super_defines, [imports EXCEPT ![f] = @ \cup {new}], assigned)

SourceNext ==
  \/ \E f \in SrcFile :
       \/ Destroy(f) \/ Restart(f) \/ AddSuperDefine(f)
       \/ \E p \in Path : Construct(f, p) \/ RestartWith(f, p)
       \/ \E other \in SrcFile : MoveConstruct(f, other) \/ MoveAssign(f, other)
       \/ \E new \in SrcFile, p \in Path : AddInclude(f, new, p)
       \/ \E other, new \in SrcFile : CopyInclude(f, other, new)

SourceSpec == SourceInit /\ [][SourceNext]_sourceVars

----------------------------------------------------------------------------
SourceTypeOK ==
  /\ live \subseteq SrcFile /\ assigned \subseteq SrcFile
  /\ path \in [SrcFile -> Path \cup {""}] /\ stream \in [SrcFile -> Path \cup {""}]
  /\ super_defines \in [SrcFile -> SUBSET Path]
  /\ imports \in [SrcFile -> SUBSET SrcFile]

\* Path, stream and pragmas of an object speak of the same file, however it
\* was made, moved and restarted, and also when it is shared by the imports of
\* several others: the stream reads the file of the path or nothing, and every
\* definition on the list was read from it.  A move assignment breaks this
\* until the next restart, as it leaves the streams behind
\* (sup_def.hpp:3490).
FilesAreWhole ==
  SourceTypeOK /\ \A f \in live \ assigned :
    /\ stream[f] \in {path[f], ""}
    /\ super_defines[f] \subseteq {path[f]}
=============================================================================
