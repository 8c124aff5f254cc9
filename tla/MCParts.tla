------------------------------- MODULE MCParts --------------------------------
(***************************************************************************)
(* The parts that are small enough to share an instance.  They share no    *)
(* state: a behaviour picks one of them at the start, and the others stand *)
(* still.  The data algorithms of MCText, the command line, source files,  *)
(* file locks and the parser bring text in; the ids of mutexes, queues     *)
(* that swap and move, and coroutines are checked here for what other      *)
(* instances leave out.                                                    *)
(***************************************************************************)
EXTENDS MCText, CommandLine, SourceFiles, FileLocks, MutexIds, ThreadSafeQueue,
        Coroutine, Parser

CONSTANT Parts      \* the parts a behaviour may pick

VARIABLE part       \* the part picked

queueVars == vars

\* What the parser reads.
SomeLines ==
  { <<>>, <<"a">>,
    <<"blank", "begin_A">>, <<"begin_B">>, <<"end_A">>, <<"end_B", "blank">>,
    <<"import">>, <<"import", "blank", "a">>,
    <<"a", "blank", "/", "/", "a">>,
    <<"blank", "/", "*">>, <<"*", "/", "end_A">>, <<"a", "/", "*", "*", "/">>,
    <<"a", "quote", "/", "*">>, <<"/", "/", "backslash", "a">> }
NoFile == [text |-> <<<<>>>>, ended |-> TRUE]

\* What getopt reads.
SomeArguments ==
  { [opt |-> "-I", arg |-> "include"], [opt |-> "-I", arg |-> "other"],
    [opt |-> "-o", arg |-> "out"], [opt |-> "unknown", arg |-> ""],
    [opt |-> "operand", arg |-> "in"], [opt |-> "operand", arg |-> "other"] }
SomeCommandLines == UNION {[1 .. n -> SomeArguments] : n \in 0 .. 3}

SwapCalls == {"wait_for_next", "next", "swap", "move", "request_stop"}

PartsInit ==
  /\ part \in Parts
  /\ TextInit /\ SourceInit /\ LocksInit /\ IdsInit /\ CoroInit
  /\ Init /\ (part = "queues" \/ \A t \in DOMAIN at : at[t] = CHOOSE q \in Queue : TRUE)
  /\ CmdInit /\ (part = "command line" \/ (argv = <<>> /\ include_paths = <<>>))
  /\ ParserInit /\ (part = "parser" \/ file = NoFile)

PartsNext ==
  /\ UNCHANGED part
  /\ \/ /\ part = "text" /\ TextNext
        /\ UNCHANGED <<cmdVars, sourceVars, locksVars, parserVars, idsVars, queueVars, coroVars>>
     \/ /\ part = "command line" /\ CmdNext
        /\ UNCHANGED <<subject, sourceVars, locksVars, parserVars, idsVars, queueVars, coroVars>>
     \/ /\ part = "files" /\ SourceNext
        /\ UNCHANGED <<subject, cmdVars, locksVars, parserVars, idsVars, queueVars, coroVars>>
     \/ /\ part = "locks" /\ LocksNext
        /\ UNCHANGED <<subject, cmdVars, sourceVars, parserVars, idsVars, queueVars, coroVars>>
     \/ /\ part = "parser" /\ ParserNext
        /\ UNCHANGED <<subject, cmdVars, sourceVars, locksVars, idsVars, queueVars, coroVars>>
     \/ /\ part = "ids" /\ IdsNext
        /\ UNCHANGED <<subject, cmdVars, sourceVars, locksVars, parserVars, queueVars, coroVars>>
     \/ /\ part = "queues" /\ NextExchanging
        /\ UNCHANGED <<subject, cmdVars, sourceVars, locksVars, parserVars, idsVars, coroVars>>
     \/ /\ part = "coroutines" /\ CoroNext
        /\ UNCHANGED <<subject, cmdVars, sourceVars, locksVars, parserVars, idsVars, queueVars>>

PartsSpec ==
  PartsInit /\ [][PartsNext]_<<part, subject, cmdVars, sourceVars, locksVars, parserVars,
                               idsVars, queueVars, coroVars>>

----------------------------------------------------------------------------
\* What is read from a source file is what the file has: beside its characters,
\* the strings, templates and places of MCText, the parser takes the comments
\* out of a file as a compiler does.
SourceIsRead == SourceTextIsRead /\ StripIsExact
=============================================================================
