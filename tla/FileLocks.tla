------------------------------ MODULE FileLocks ------------------------------
(***************************************************************************)
(* uni::detail::mmaped_file::lock_file_part and unlock_file_part: parts of *)
(* a file are locked against other processes with fcntl, and the object    *)
(* keeps a list of the parts it holds.  The kernel does not know objects   *)
(* or parts: it keeps one mode for each byte and process, and a lock on    *)
(* bytes a process already holds replaces their mode.                      *)
(*                                                                         *)
(* One object per process, used by one thread.  The length of a part is    *)
(* positive: the kernel takes 0 for "up to the end", the list does not.    *)
(***************************************************************************)
EXTENDS Integers

CONSTANTS
  Process,    \* processes that map the file
  Bytes,      \* the number of bytes of it that they lock
  MaxLen      \* bound on the length of a part

ASSUME FileLocksAssumption == Bytes \in Nat /\ MaxLen \in Nat

VARIABLES
  locked_parts,   \* locked_parts[p]: the parts on the list of p's object
  kernel,         \* kernel[p][b]: the mode in which p holds byte b
  asked           \* asked[p]: the part p waits for in F_SETLKW, or Nothing asked

locksVars == <<locked_parts, kernel, asked>>

Mode == {"shared_lock", "exclusive_lock"}
Byte == 0 .. Bytes - 1
NotAsked == [start |-> 0, end |-> 0, mode |-> "none"]
Part == {part \in [start : Byte, end : 1 .. Bytes, mode : Mode] :
           part.end - part.start \in 1 .. MaxLen}

LocksInit ==
  /\ locked_parts = [p \in Process |-> {}]
  /\ kernel = [p \in Process |-> [b \in Byte |-> "none"]]
  /\ asked = [p \in Process |-> NotAsked]

Covers(part, b) == part.start <= b /\ b < part.end

----------------------------------------------------------------------------
(* The kernel.                                                             *)

\* Processes whose locks stand in the way.
InTheWay(p, part) ==
  {q \in Process \ {p} :
     \E b \in Byte : /\ Covers(part, b)
                     /\ kernel[q][b] # "none"
                     /\ "exclusive_lock" \in {part.mode, kernel[q][b]}}

SetMode(p, part, mode) ==
  kernel' = [kernel EXCEPT ![p] = [b \in Byte |-> IF Covers(part, b) THEN mode ELSE @[b]]]

\* Waiting would close a circle: every process of S waits for one of S, if p
\* waits for the part.
WouldDeadlock(p, part) ==
  \E S \in SUBSET Process :
    /\ p \in S
    /\ \A q \in S : InTheWay(q, IF q = p THEN part ELSE asked[q]) \cap S # {}

----------------------------------------------------------------------------
(* The object.                                                             *)

\* The last of the three cases is missing.
MeetsAtItsEnds(part, own) ==
  \/ own.start <= part.start /\ part.start <= own.end
  \/ own.start <= part.end /\ part.end <= own.end

\* The part shares a byte with the one on the list, or touches it: the list
\* holds start + len, and is compared as if the byte there belonged to it.
Meets(part, own) ==
  \/ own.start <= part.start /\ part.start <= own.end
  \/ own.start <= part.end /\ part.end <= own.end
  \/ part.start <= own.start /\ own.start <= part.end

Enter(p, part) ==
  /\ asked[p] = NotAsked
  /\ \A own \in locked_parts[p] : ~Meets(part, own)

\* Already locked, or EDEADLK: an InternalError, and nothing has changed.
LockFilePart(p, part) ==
  /\ Enter(p, part)
  /\ ~WouldDeadlock(p, part)
  /\ asked' = [asked EXCEPT ![p] = part]
  /\ UNCHANGED <<locked_parts, kernel>>

LockGranted(p) ==
  /\ asked[p] # NotAsked
  /\ InTheWay(p, asked[p]) = {}
  /\ SetMode(p, asked[p], asked[p].mode)
  /\ locked_parts' = [locked_parts EXCEPT ![p] = @ \cup {asked[p]}]
  /\ asked' = [asked EXCEPT ![p] = NotAsked]

\* A signal ends the wait (EINTR): an InternalError as well.
LockInterrupted(p) ==
  /\ asked[p] # NotAsked
  /\ asked' = [asked EXCEPT ![p] = NotAsked]
  /\ UNCHANGED <<locked_parts, kernel>>

Found(p, start, end) == {own \in locked_parts[p] : own.start = start /\ own.end = end}

\* A part that is not on the list as it was locked is an InternalError.
UnlockFilePart(p, start, end) ==
  /\ asked[p] = NotAsked
  /\ Found(p, start, end) # {}
  /\ SetMode(p, [start |-> start, end |-> end], "none")
  /\ locked_parts' = [locked_parts EXCEPT ![p] = @ \ Found(p, start, end)]
  /\ UNCHANGED asked

LocksNext ==
  \E p \in Process :
    \/ \E part \in Part : LockFilePart(p, part)
    \/ LockGranted(p)
    \/ LockInterrupted(p)
    \/ \E start \in Byte, end \in 1 .. Bytes : UnlockFilePart(p, start, end)

LocksSpec == LocksInit /\ [][LocksNext]_locksVars

----------------------------------------------------------------------------
LocksTypeOK ==
  /\ locked_parts \in [Process -> SUBSET Part]
  /\ kernel \in [Process -> [Byte -> Mode \cup {"none"}]]
  /\ asked \in [Process -> Part \cup {NotAsked}]

\* What a process holds in the kernel, and what stands on its list.
ListIsHeld ==
  \A p \in Process : \A part \in locked_parts[p], b \in Byte :
    Covers(part, b) => kernel[p][b] = part.mode
HeldIsListed ==
  \A p \in Process, b \in Byte :
    kernel[p][b] # "none" => \E part \in locked_parts[p] : Covers(part, b)
ListedOnce ==
  \A p \in Process : \A part, other \in locked_parts[p], b \in Byte :
    Covers(part, b) /\ Covers(other, b) => part = other
ExclusiveAlone ==
  \A p, q \in Process : \A mine \in locked_parts[p], other \in locked_parts[q], b \in Byte :
    p # q /\ Covers(mine, b) /\ Covers(other, b) => mine.mode = "shared_lock"

\* The list of a process tells the truth about the kernel, byte for byte: each
\* part on it is locked in its mode, nothing else is, and a part it lists as
\* exclusive has no byte in common with a part on the list of another process.
\* The kernel would let a second lock of the same process change or drop the
\* first one silently: what keeps it from that is the test at
\* mmaped_file.ipp:129.
ListsAreTrue == ListIsHeld /\ HeldIsListed /\ ListedOnce /\ ExclusiveAlone
=============================================================================
