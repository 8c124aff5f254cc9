# A verification of sup_def

`sup_def` is a pragma-based C++ super preprocessor.  A parser searches a file
for import pragmas and for blocks between `#pragma supdef begin` and `end`.
Below it lies a runtime of the project's own: a recursive shared mutex, a
blocking queue, a thread pool with timed tasks, a signal manager, a static
memory pool, coroutines, saturated arithmetic, a registry of what is to run when
the process ends.  Beside it stands `unistreams`, a library of Unicode characters
and their conversions, with a multi-threaded generator of its tables, written in C.
This directory holds TLA+ modules that model those parts, the TLC
configurations that check them, and proofs that TLAPS checks.

All paths below are relative to `src/sup_def/common/` unless they begin with
`tests/` or `external/`.

## 1. Inventory

### 1.1 The parts, their state and their operations

| part | source | state | operations | module |
|---|---|---|---|---|
| RecursiveSharedMutex | `util/util.cpp:186-470`, `util/util.hpp:4232` | a `std::shared_mutex`, the atomic `current_mode`, a thread-local map `lock_counts` | `lock`, `try_lock`, `unlock` and their shared forms | `RecursiveSharedMutex`, `ReentrantOwnership` (abstract) |
| mutex ids | `util/util.cpp:59-130` | the set of ids given out, the thread-local entries under them | `gen_new_id`, `release_id`, `lock`/`unlock` through the id | `MutexIds` |
| ThreadSafeQueue | `util/util.hpp:2878-3180` | `std::queue`, mutex, condition variable, `empty_state`, `stop_required_state` | `push`, `emplace`, `pop`, `next`, `swap`, move, `wait_for_next`, `wait_for_next_or`, `request_stop`, `restart_after_stop`, `notify_all` | `ThreadSafeQueue` |
| ThreadPool | `thread_pool.cpp`, `sup_def.hpp:1748-2330` | `threads`, `task_queues`, `waiting_locations`, a RecursiveSharedMutex for each | constructor, `enqueue`, `size`, `add_threads`, `remove_threads`, `try_remove_threads`, destructor; the workers | `ThreadPool`, `TaskPool` (abstract) |
| TimedTask | `sup_def.hpp:1563`, `thread_pool.cpp:742` | none between calls; a thread, a mutex, a condition variable and a result in one stack frame | call with a deadline, timed `enqueue` | `TimedTask` |
| constructors, destructors | `util/constructors.cpp`, `util/destructors.cpp` | a vector of functions, a mutex, an atomic flag | `call_destructors`, `add_destructor`, the handlers of `quick_exit` and `terminate` | `ProcessEnd` |
| StaticMemPool | `util/static_allocator.cpp` | an array of bytes cut into chunks with headers in a list, a mutex | `allocate`, `reallocate`, `deallocate`, merge of free chunks | `StaticMemPool`, `DisjointBlocks` (abstract) |
| sigmgr | `sigmanager/sigmanager.cpp` | which signals are managed and how, user handlers, callbacks per signal and id, the thread that receives signals | `register_callback`, `unregister_callback`, `reset_callbacks`, `set_signal_handler`, `remove_signal_handler`, `generic_handler` | `SignalManager` |
| Parser | `parser.cpp` | two copies of the content, the lines, two coroutine frames | `slurp_file`, `strip_comments`, `search_imports`, `search_super_defines` | `Parser` |
| Coro | `sup_def.hpp:1394` | coroutine handle, `done`, `iter_end` | `resume`, `get_value`, iteration, moves | `Coroutine` |
| File, SrcFile, PragmaInc | `sup_def.hpp:2933-3713` | a stream, its path, the pragmas found in it | construction, moves, `restart`, adding pragmas | `SourceFiles` |
| text of the source | `parsed_char.cpp`, `util/errors.cpp`, `sup_def.hpp` | none | characters with their place, `format_error`, splitting and trimming, templates of pragmas, `PragmaLocCompare` | `SourceText` |
| saturated arithmetic | `util/util.hpp:3494-3789` | none | `saturated_add`, `_sub`, `_mul`, `_div`, `_cast` | `SaturatedArithmetic` |
| command line, engine | `external/cmdline.tpp`, `util/engine.hpp` | the parsed paths, the static list of include paths | `parse`, `update_engine`, `add_include_path`, `clear_include_paths` | `CommandLine` |
| unistreams | `unistreams/` | characters with a byte order | traits, walks over encoded text, conversions of characters and strings, recognition of a file's encoding | `UnicodeText`, `UnicodeStrings` |
| mapped files | `unistreams/impl/mmaped_file.ipp` | a list of locked parts | `lock_file_part`, `unlock_file_part` | `FileLocks` |
| Unicode data generator | `unistreams/impl/compiled/main.c` | a cache file, a table of categories, a pool of threads with one queue, output files | reading or downloading, parsing, dumping, the pool, exit | `UcdTables`, `UcdGenerator` |
| everything else | see 7 | | | no |

### 1.2 How they interact

* `ThreadPool` owns three `RecursiveSharedMutex`es and a `ThreadSafeQueue` per
  worker.  Workers wait in their own queue or in somebody else's, through
  `wait_for_next_or` with a predicate that asks their own stop token.
* Every `RecursiveSharedMutex` finds a thread's count under an id that
  `gen_new_id` gave it.  Two mutexes with one id share the count: that is how a
  flaw of the ids becomes a flaw of the pool.
* A worker that runs a timed task makes a thread for it and waits for that until the
  deadline.  The two meet in the frame of the call.  A function that throws, on that
  thread, ends the process, which runs the registered destructors; so do a return
  from `main`, `quick_exit` and `terminate`, on whatever thread.
* `Parser` yields results from two coroutines to `external/main.cpp`, which
  runs one to its end and then the other, through the loop of `Coro`.
* The command line asks the file system twice whether a path exists, and hands what
  it kept to the engine's static list; `PragmaInc` opens a `SrcFile` for an import.
* `sigmgr` is called by clients on any thread and by the kernel on
  `signaled_thread`; both meet at `managed_mutex`.
* The generator's threads share one queue, one table, the flags `finished` and two
  static buffers in which the output directory is made; two runs of it meet at the cache.
* Mapped files of two processes meet in the kernel's table of locks.
* `StaticMemPool`, the text, the arithmetic and the conversions are leaves.

### 1.3 What is hard, and what makes each part correct

| part | hard behaviour | correct means |
|---|---|---|
| RecursiveSharedMutex | acquiring the rwlock and storing the mode are two steps, in four operations; the mode guards nested calls of other holders | exclusive owners are alone; the count tells the truth about ownership; an owner is never refused and never waits for itself; waiters get in |
| mutex ids | construction and destruction in any order while other threads keep entries | mutexes that live together have ids of their own |
| ThreadSafeQueue | flags written outside the mutex; notification after the unlock; several consumers; a stop taken back | order, no loss, no double; no lost wake-up |
| ThreadPool | stealing, three lock orders, tables that change while they are searched | a task runs once, and does run; no circular wait |
| TimedTask | a thread that outlives the frame it works in | a call is answered by its own function, or given up; nobody else's thread touches memory that is gone |
| process end | several threads end the process at a time; destructors that throw or register others | every registered destructor runs; the end comes |
| StaticMemPool | any order of requests and releases; links that are stale by design | clients never overlap; the list describes the pool |
| sigmgr | handlers nest on one thread; clients change the tables while the kernel starts handlers | tables and kernel agree; a handler calls what is registered and ends |
| Parser | two contents erased in step; comments, strings and continuation lines; two searches that erase from one vector | what a compiler would see is what stays; no text is lost; locations are real |
| Coro | the last value comes with the end; the two ends are asked in turn; moves | a frame has one owner; a loop sees every value once |
| generator | flags set outside the mutex; hints in a search over gaps and ranges; kills between the steps of a run | every task is done once, before what needs it; a success is complete; a run ends |
| unistreams | three widths, two byte orders, a conversion in four steps with counts taken from three places | text survives there and back; walks stop where characters begin |
| files, command line | paths and streams that are set by different functions; paths that vanish between two questions | the parts of an object belong together; the engine gets what was asked for, or an error |
| file locks | parts that meet in many ways; a kernel that knows no parts | the list tells the truth |

## 2. Plan

The order is that of importance and of dependence: the mutex under the pool
first, then what the pool is made of, then the parts beside it, the proofs along.

| step | module | state |
|---|---|---|
| 1 | `RecursiveSharedMutex`, `ReentrantOwnership`, `RecursiveSharedMutexProofs` | done, proved |
| 2 | `MutexIds` (proofs in `PartsProofs`) | done, proved for two mutexes |
| 3 | `ThreadSafeQueue` (proofs in `PartsProofs`) | done, every safety property proved |
| 4 | `ThreadPool` (locks and queues of 1-3, one step each), `TaskPool`, `ThreadPoolProofs` | done, every safety property and the refinement proved |
| 5 | `StaticMemPool`, `DisjointBlocks`, `StaticMemPoolProofs` | done, every safety property and the refinement proved |
| 6 | `SignalManager`, `SignalManagerProofs` | done, every safety property proved |
| 7 | `Parser`, `ParserProofs`; `Coroutine` (proofs in `PartsProofs`) | done, proved |
| 8 | `ProcessEnd`, `TimedTask`, `TimedTaskProofs` | done, proved |
| 9 | `UnicodeText`, `UnicodeStrings` | done; the walks over any bytes and the orders of any string are proved in `PartsProofs`, the conversions checked |
| 10 | `UcdTables`, `UcdGenerator`, `UcdGeneratorProofs` | done, every safety property of the generator proved |
| 11 | `SourceText`; `SourceFiles`, `CommandLine` (proofs in `PartsProofs`) | done, the latter two and the words and places of the first proved |
| 12 | `FileLocks`, `SaturatedArithmetic` (proofs in `PartsProofs`) | done, proved |

Composition: three modules instantiate an abstract specification under a refinement
mapping, `RecursiveSharedMutex` that of `ReentrantOwnership`, `ThreadPool` that of `TaskPool`
and `StaticMemPool` that of `DisjointBlocks`.  `ThreadPool` uses the abstraction of `MutexIds` (a constant
`Id`, with the values that `gen_new_id` gives) and of `ThreadSafeQueue` (a wait
is three steps, a push one), and says so in its header.  `TimedTask` extends `ProcessEnd`:
its threads end the process.  `UcdGenerator` extends `UcdTables`, `UnicodeStrings` extends
`UnicodeText`.  `MCParts` puts parts that share nothing side by side.

## 3. The modules

In all of them an operation that holds a mutex from its first to its last access
to the shared state is one step; whatever is done outside a mutex is a step of
its own.  Operators called `...Keeps`, `...Blindly`, `...Twice` and the like, with
the comment "Faulty variant", are slips that were planted to see that a property
notices: no specification uses them.

### 3.1 RecursiveSharedMutex

`writer` and `readers` are the `std::shared_mutex`; `current_mode` and
`lock_counts` are the members.  `exclusive` and `shared` count what a thread has
open, so that callers balance their calls and both orders of mixed unlocks are
covered.  `Lock` and `AcquireExclusive` and `StoreExclusive` are the three parts
of `lock_impl`: enter, wait for the rwlock, store the mode and raise the count.
`Unlock` and `StoreNone` are the two of `unlock_impl`.  `unlock_shared_impl`
stores nothing, so `UnlockShared` is one step.  A thread's own count is nobody
else's business and changes with the neighbouring shared access.

`MaxDepth` bounds a counter of 64 bits.

What the model shows beside the properties: `unlock_impl` releases the rwlock
and then stores None (`util.cpp:315-316`).  If a reader gets in between, the late
None overwrites its Shared, and a nested `lock()` of that reader, which line 214
means to refuse, is granted beside other readers.  `OwnerNeverRefused` (a part of
`OwnersNest`) and `ExclusiveIsAlone` (a part of `ExclusionHolds`) are therefore about
threads whose outermost acquisition is exclusive, for whom the late store does no
harm.

### 3.2 MutexIds

`gen_new_id` walks the set of ids and returns one more than the predecessor of
the first id with a gap before it; `Previous`, `Gaps` and `NewId` are that walk.
Because `prev_id` starts as the first id itself (`util.cpp:103`), the first
comparison always finds a gap: the result is always the lowest id plus one.
Locking is exclusive and atomic here.  `failure` is what stops the program: a
failed `hard_assert`, an unlock of something not locked, the release of another
thread's rwlock.

With two mutexes alive at a time all goes well; the third gets the id of the
second.  Their destruction then fails the assertion of `util.cpp:77`.  The same
assertion fails when a mutex is destroyed by a thread that never used it.
`IdsKeepLocksApart` is about two: ids differ, a lock excludes, a balanced unlock works.

### 3.3 ThreadSafeQueue

`mutex`, `waiting` (the sleepers of the condition variable), `queue`, the two flags
and the place `pc` of every thread.  A wait is: `BeginWait` (lock), `CheckPredicate`,
`Block` (unlock and sleep, one step, as condition variables promise), `WakeUp`
(lock again, after a notification or a `SpuriousWakeUp`), `CheckStop`, `TakeNext`.
`Push` is the critical section, `NotifyOne` what follows it.  `RequestStop` stores
the flag without the mutex.

Beside the properties, the model shows four things the code does:
* `request_stop` (3159) and a `notify_all` after a thread's stop token (3154) fall
  between a waiter's predicate and its sleep, and are lost.  `SleepersAreReached` is about a `notify_all`
  that comes behind the stop.
* A waiter that `notify_one` chose and that leaves by its token (3142) takes the
  notification with it: the value stays although somebody else sleeps.  `Delivered`
  is therefore about histories without a stop.
* `swap` (3056) and the source of a move leave `empty_state` stale; `WaitsAreJustified`,
  of which its exactness is a part, is checked where neither is called, and
  `ExactlyOnce`, which does not depend on it, where both are (`ExchangingSpec`).  No
  property catches the stale flag (the hazard at line 3056).
* `restart_after_stop` lets a woken waiter find an empty queue and throw.

### 3.4 ThreadPool

`locks` is a record of the three mutexes; `Read`, `Write`, `EndRead` and `EndWrite` are
`get_access` and `release_access`, with the count under the id, so a shared id
makes the second lock of a thread count only.  `threads`, `task_queues` and
`waiting_locations` are the tables.  A worker goes `Start`, `Go`, `GetNextTask`,
`MostBusy` and `Compare` (the search, one queue size at a time), `Steal`,
`WriteLocation`, `Sleep`, `WakeUp`, `Take`, `Finish`.  A client that enqueues goes
through the three locks, the search for the idlest queue, and the push.  The owner
adds and removes threads and destroys the pool when no other client is inside a call.

`TaskPool` is what remains for who hands tasks in: a task is new, handed in, run by one
worker, done, or given up.  A task is handed in there while its future is pending and no
worker has it, run while a worker has it, done when its future is ready, and given up when
its promise is broken (`Promised`).  Queues, locations, locks and thieves do not appear.

`failure` is what stops the program.  Several ends are reachable, and the
properties are about a program that has not come to one:
* `enqueue` throws once a worker has left `task_queues` in mode Shared: the
  mutexes of the queues and of the waiting locations share an id, and the count says
  "held" (730).
* Every branch of `get_access` that locks goes on to its `UNREACHABLE` (512), which may
  or may not stop the program: `RunsIntoUnreachable`.
* A stop does not reach a worker that sleeps: `request_thread_stop` requests it,
  notifies nobody and joins (160); the destructor then never ends.
* After a join that does come back, `hard_assert(ret_size_t == 1)` (211) fails: a
  joined `jthread` has no id to be found by.
* A queue is erased while another worker waits in it (199).
* A task enqueued between the idle check (425) and the stop is destroyed with the
  queue, its promise broken.
* The loop of `add_threads` (362) compares with `threads.size()`, which it makes
  grow; it ends when no thread can be made, before any new thread is told to go.

### 3.5 StaticMemPool

`chunks` is the list of headers from the start of the pool along `next`: `next`
is the following element, `prev` is a field because the code lets it become
stale.  Addresses are numbers; a header has a size and an alignment, chunks are
padded in front of the header and in front of the data.  `Allocated`, `Deallocated` and
`MergeFreeChunks` are pure functions of the list; the operations apply them.
Failing contracts and assertions end the program (`failure`): the functions that
have contracts are `noexcept`.

`DisjointBlocks` is the pool as its clients see it: blocks by their address, with the size and
the alignment they asked for, that share no byte.  The blocks are `live`, `aligned` is
`~whole`, and the pool is `PoolStart .. PoolEnd - 1` (`Memory`).  A `reallocate` that moves is
one step there, in which the new place must be apart from the old one: the code copies from
one to the other.

`whole` remembers that a chunk was handed out without a split.  The code makes
its header anew (764-794): `next` is null and everything behind is lost to the list.
Most of what is promised about the list, `ListIsSound`, holds until then.  `LiveChunks`
is not weakened where it says that clients do not overlap: not even then do they.  A rest of exactly one header passes
`can_split` (`>=`) and fails `CAN_SPLIT` (`>`, 435): that assertion does fail.

### 3.6 SignalManager

The tables of `sigmgr`, the disposition in the kernel (`installed`), the stack of
handlers on `signaled_thread` (`frames`).  A handler is three kinds of step: `Deliver`
(the kernel starts it), `Enter` (it locks the mutexes, or calls `std::terminate`
where it finds DEFAULT), `Call` (one callback) and `Return`.  A signal is blocked
while its own handler runs; another one interrupts it.  `uninstalled` and `orphaned`
remember the two histories that excuse a state.

The model shows: a second signal that interrupts a handler waits for mutexes of
its own thread (404); a signal whose last callback is unregistered after the kernel
started its handler terminates the process (409); `reset_callbacks(sig, id)`
disables the callbacks of other clients, and a later unregister of theirs removes
a handler the user set in between (676).  The manager is also certain to fail on a
system whose signal list differs: `hard_assert(allsigs.size() == 31)` (440) counts
two synonyms that glibc has once.  Initialisation is not modelled.

### 3.7 Parser

A file is a sequence of lines over characters; a character is one on which the
comments depend, an ordinary one, or a whole pragma.  `raw` and `content` are the two
contents, the second with a line number on each character.  `SlurpFile` is one step.
`strip_comments` goes by the iterations of its loop, which works on a copy of the content:
`raw_copy`, `pos` and `in_str_lit` are its variables, `StartStripping` makes the copy,
`ReadQuote` and `ReadChar` pass a character, `StripLine` and `StripBlock` erase a comment
from both texts, `EndStripping` cuts what is left into lines; each way in which the code throws
or leaves its containers is an outcome.
`Resume` is `Coro::resume`; a line of a search is one step, and a yield gives the
control back.  The columns of locations are left out.

`ParserIsExact` is the conjunction of the types, `LocationsAreReal` (a block is reported at
lines its pragmas stand in), `TextIsKept` (a line that is no pragma is in the file or in the
body of one block) and `BlocksAreExact` (a search finds the blocks of all pairs, with all their
text, and leaves no import).  `StripIsExact` compares what is left of a file with what a C++
scanner would leave; it is a part of `SourceIsRead`.

What the model shows, and `StripIsExact` therefore excludes:
* a backslash anywhere in, or behind, a line comment takes the next line (229);
* a quote that is the first character of a file does not open a string (216);
* `/*/` is taken for a whole comment (260);
* a last line without a newline is in `raw` but not in `content`: `strip_comments`
  throws "Parsing failed", or erases beyond the end (241, 253).

And beside it: an empty line of a block stays in the file (742); a block without an
end is dropped without an error (917); `search_super_defines` reports "File content
is empty" for a file that held nothing but imports (725).  The line of a block is
that of the first character of its line: where a block comment joined lines, it
is the line on which that comment began.  `external/main.cpp` runs one search and
then the other; interleaved ones skip lines, and `mixed` remembers that, but still
lose no text.

### 3.8 Coroutine

`coro` is the object (handle, `done`, `iter_end`), `frame` what the compiler makes of
`Util::finite_generator`, `loop` the place of a range-for over the object.  `Resume`
is shared by the loop and by resumption by hand, which a body may mix.  The end of the
iteration is asked with `is_iter_end`, which answers with the old value of the flag
and sets the new one: comparing an iterator has a side effect, and asking twice loses
the last value.

What the model shows beside `CoroutinesAreWhole`: the move constructor forgets
`iter_end`, the move assignment keeps its own and leaks the frame the object had;
`left_over` remembers the frames that came to an
object with another `iter_end`.  An exception that escapes leaves `done` false; `operator++` is
`noexcept`, so in a loop it terminates the process.  A loop over an object from which
was moved never ends: callers of the model do not try.

### 3.9 ProcessEnd and TimedTask

`ProcessEnd` is the registry.  A thread ends the process in one of three ways; each
looks at `destructors_called`, locks, runs the vector, sets the flag.  `early` remembers the
endings that began before a pass was complete: those are the ones that may run
everything a second time (`destructors.cpp:49`), together, which `DestructorsRun`
allows them and nobody else.  A destructor that registers another locks its own mutex
again and is stuck (61).  One that throws leaves the mutex locked behind
`quick_exit`.  `add_destructor` after the statics are gone uses a registry that is torn
down.  The handler of `quick_exit` returns from a function marked `noreturn`.

`TimedTask` extends it.  `locals` are the variables of the call in the frame of
the caller: `mtx`, `cv`, `done`, `result`; a call is a pair of a caller and a number.  The
thread goes `Invoke`, `WriteResult`, `LockMtx`, `SetDone`, `Notify`, or `LockDead` when the
frame is gone.  After a deadline (`sup_def.hpp:1619`) the thread is detached and goes on.
Calls of one worker have their frame at the same place (an assumption: one function,
called from one depth), so what the late thread writes it writes into the next call:
it may hand over its own value, which that call returns as its answer, or say "done"
for it, after which the call waits for its own function beyond its deadline.
`AnswersAreOwn` says what remains: only calls that timed out leave such threads, and
a wrong value comes from an earlier call of the same worker that timed out.  A
function that throws does so on a thread without a handler, and the process ends.
The timed `enqueue` does not compile for functions that return nothing; they are not
modelled.

### 3.10 SourceFiles, FileLocks, CommandLine

`SourceFiles`: `path`, `stream`, `super_defines` and `imports` are set by different
functions of a class and its base.  What an object holds is the least set that is closed
under `holds`.  The move assignment (`sup_def.hpp:3490`) takes the path along
and leaves the stream; `assigned` remembers such objects until they restart.

`FileLocks`: `locked_parts` is the list of the object, `kernel` the modes of the bytes.  `LockFilePart` asks the list (three cases of how parts meet) and then the
kernel, which may refuse (`EDEADLK`) or let wait; a signal may end the wait (`EINTR`).  Parts that touch are refused although
they do not overlap; a length of 0 means "to the end" for the kernel and nothing for the
list, and two objects of one process share the kernel's locks: neither is
modelled.  The destructor is declared and has no definition.

`CommandLine`: `getopt` comes across one argument at a time (`scanned`): an option goes
through the loop of `parse` (`ReadOption`, `RefuseIncludePath`), an operand behind the
options (`SortOperand`); then the first operand, and `update_engine`.  A path is asked for when it is parsed, normalised again, and once more when it is added;
`Vanish` may come in between.  What the model shows: the output file goes through a
function that gives the empty path for what does not exist, so a new output file
is dropped (run `output_named`); `-I` takes one path, colons are not split.  The index into
`program.cpp`'s arguments is not part of it.

### 3.11 SourceText

Characters with their places, `format_error`, splitting and trimming, templates, and
`PragmaLocCompare`, all as operators.  The model shows:
* `$1$2` fuses to one number; an escaped dollar is dropped, and the character behind
  a number is swallowed; argument 0 reads in front of the arguments.
* the search for the word that an error underlines runs with an unsigned index and
  throws when the word is the first of the line (912); `remove_whitespaces` reads an
  empty string.
* every non-empty set of flags of `PragmaLocCompare` asks for both components; `lt` compares
  both at once and so is no strict weak order, although the comment at 3716 says "Must have
  the same behavior as std::less".

### 3.12 SaturatedArithmetic

The operations on a type of any width and sign, in mathematical integers cut to the type:
`ckd_add` and the like say whether the exact result fits.  Bounds default to the
type's.  The `wrapped_` operations are disabled or do not compile for signed types and
are left out.  What the operations should compute is `TypeSaturates`; a subject of
`MCText` is a type, and `SaturationIsExact` says it of that type.

### 3.13 UnicodeText, UnicodeStrings

A unit is the sequence of its bytes, a character its units and its order.  Decoding
and encoding by `simdutf` are external.  What is the code's own: traits
(`eq`, `compare`, `find`), byte orders, the walks forward and back, the way of a
string through a buffer of units, the recognition of a file.  The model shows:
* `int_type` loses the order of a character; `from_base_char` puts nulls in front; a null
  at the end of a character refuses the way back in UTF-16 and UTF-32.
* "big" is a numeric value in one place and a swapped one in another.
* `find_next_u8` reads the byte behind the end, and does not reach the end when that byte
  looks like a continuation (`char_traits.ipp:159`).
* UTF-32LE is guessed as UTF-16LE, its mark beginning with the other's; an explicit
  little endian is refused by `open_file`.
* the converter to `codecvt` doubles what it converts; it is left out of `TextSurvives`.

Some of these templates may not compile for every type when instantiated; they are
modelled as they are written.

### 3.14 UcdTables, UcdGenerator

`UcdTables` is the data: lines, the shares of the threads, the search with its hint, the bits.
A category goes by its name.  The model shows that a range that crosses the start of a
share is not seen by the thread behind it, and that a hint on a First line is taken
for the line 0; white space in front of the first line is lost with it; a last byte that
is not full is left out; and of a word of 20 digits, which has all of `num[20]` (`main.c:1910`)
and leaves no place for the 0 behind it, the last digit is not printed.  `TablesAreRight` excludes
exactly these.

`TableIsRight` of `UcdGenerator`, a part of `OutputIsComplete`, says the same of the threads at
work: what the table has of a code point is unset or what the file says, but where the file is
misread (`Misread`): inside a range that began before the chunk, and in a chunk in the middle
that begins with a range, where a thread that comes from a later chunk brings a hint of that
very line (`main.c:1448`).  Main's own chunk is not such a one, since main has no other, nor is
the last, since it is the first that anybody takes.

`UcdGenerator` is the process: `main` reads the cache or downloads, enqueues the
shares but its own, waits for each, then enqueues a file per category and waits for
them.  `WaitLook` and `WaitSleep` are two steps of `main`, `StoreDone` and `Broadcast` two of
a worker, none with the mutex: the wake-up between them is lost
(`main.c:2288`, `2199`) and `main` sleeps for ever.  `RunEnds` names that state.  The
directory of the program is made in two static buffers by whichever thread comes first,
each step of its own.  `Kill` and `Rerun` leave the cache: an error page that was downloaded
is kept as it is, a cut cache gives cut tables with success.

Two calls of `fclose` write what is left in a buffer of stdio, and nobody looks at their result.
The one behind the cache (`main.c:998`) is the second disjunct of `WriteCache`: the file lacks
its end, and the run goes on with the whole text it has downloaded; `torn` is the number of the
run that last left a part in the cache, in this way, by a short `fwrite` or by a kill.  The one
behind an output file (`MAYBE_DEALLOC`, 2036-2042) is in `WriteFile`, which leaves `FileOf(c)` or
`CutFile` and reports success for both.  So a run that ends with EXIT_SUCCESS may have cut
files, and no property says that it may not.  `SuccessIsComplete` says that this is the only way:
every file was opened, in the right directory, from a whole table, and its `fwrite` was whole.
`CutByAnEarlierRun` says that a success on less than the whole file goes back to an earlier run,
since the run that loses the end of the cache works on all of it.

## 4. The runs

| run | instance | question |
|---|---|---|
| `mutex` | 3 threads, depth 2, fair | is an exclusive owner alone, do counts tell ownership, do owners nest; the refinement of `ReentrantOwnership`; do waiters get in |
| `ids_three_mutexes` | 1 thread, 3 mutexes | `ReleaseFindsEntry` is violated: a finding |
| `queue_one` | 1 queue, 2 consumers, 1 caller, 2 values, all calls but swap and move, fair | order, `empty_state` and justified sleeps, no lost value, no lost stop once notified |
| `pool_safety` | 2 workers and one more, a client, the owner, 2 tasks, every call | is a task in one place, do the tables tell the truth, can the locks cycle; the refinement of `TaskPool` |
| `pool_liveness` | 1 worker, 2 clients, 3 tasks, fair | does every task run, does `enqueue` come back |
| `pool_stranded` | 2 workers, 3 tasks, fair | `AcceptedTasksRun` is violated: a finding |
| `static_pool` | 48 bytes, headers of 8, sizes 1, 2, 5, 12, alignments 2, 4 | do clients overlap, does the list describe the pool; the refinement of `DisjointBlocks` |
| `signals` | 2 signals, 2 clients, 3 callbacks, 3 signals sent, fair | do tables and kernel agree, is a walk stable, do handlers call everything and end |
| `generator` | 1 to 3 threads, 6 code points, 2 categories, 2 runs with kills, failed and short writes and closes, error pages, fair | is every task done once and in order, is a success complete and the table what the file says, does a run end |
| `timed_task` | 1 worker with 2 timed calls, a client, at most 2 destructors, fair | whose answer does a call get and when; do the destructors run, does the end come |
| `parts` | see below | the parts that share nothing, one per behaviour |
| `output_named` | the command lines of `parts` | `OutputIsNamed` is violated: a finding |

The parts of `parts` and their properties:

| part | instance | properties |
|---|---|---|
| text | code points of each length in every encoding and order, texts up to a few characters, malformed bytes, tables over 16 code points, types of 1 to 4 bits and all their bounds, all small source texts and templates | `TextSurvives` (the walks, the conversions, the characters), `TablesAreRight`, `SaturationIsExact`, `SourceIsRead` (its part `SourceTextIsRead`) |
| command line | up to 3 arguments out of 6, paths that vanish | `EngineFollows` |
| files | 3 objects, 2 paths | `FilesAreWhole` |
| locks | 2 processes, 4 bytes, parts of any place and length | `ListsAreTrue` |
| parser | files of up to 3 lines out of 14, ended by a newline or not | `ParserIsExact`, `SourceIsRead` (its part `StripIsExact`) |
| ids | 2 threads, 2 mutexes, constructed and destroyed for ever, ids up to 4, depth 2 | `IdsKeepLocksApart` |
| queues | 2 queues that are swapped and moved, 2 consumers, 1 caller, 2 values | `ExactlyOnce` |
| coroutines | 2 objects, 2 frames, generators of up to 2 values | `CoroutinesAreWhole` |

Why the bounds are enough.

* Mutex: a late store needs one thread that is late and two that hold the mutex
  together, so three threads; depth two tells nested from outermost.  The proofs
  remove both bounds.
* Ids: the walk compares neighbours only; a third id is the first that goes wrong.  Two
  mutexes climb when the older one always goes first: ids up to 4 let them climb
  past every id they had before.  The proof removes these bounds.
* Queue: with two consumers one can take what the other was woken for; two values
  tell an order.  One caller is enough for callers to interleave with waits: the
  callers' own critical sections are single steps.  The proofs remove the bounds.
* Pool: two workers steal from each other, the third is added or is the one
  removed; two tasks fill two queues.  The proofs remove these bounds.  `PoolView` in `MCThreadPool` identifies states
  that differ only in values no step reads again: the choice and the marks of
  a thread that is not searching, the mode of a mutex nobody holds and that has an id
  of its own, and everything about a program that has died.  The liveness runs use
  no view.  `NoLockCycle` leaves `add_threads` out: it locks `threads` before
  `task_queues`, a worker that searches does the reverse, and they do deadlock.
* Static pool: four chunks fit, hence a chunk in use between two free ones and the
  merge of three.  The proofs are for any pool, header, sizes and alignments.  Header and alignments are those of a scaled-down pool; 12 and 5
  leave rests around one header.
* Signals: two signals for nesting, two clients for entries beside each other, three
  callbacks so that one client has two.  The proofs remove the bounds.
* Parser: a block has a begin, a body and an end, in three lines; a block comment starts
  in one and ends in another.  The proof is for any file.
* Generator: three threads are main with two workers that race for the directory and
  for the flags; four lines with a range and a tail without a line give each
  share another case; one kill and one more run show what a cache survives.  The proofs
  are for any file, thread counts and number of runs.
* Timed task: the second call is the one that a late thread of the first reaches; a third
  would be reached in the same way.  Two threads end the process together; the second
  destructor is the one that is registered meanwhile.
* Coroutines: a frame can be moved between two objects and assigned over another; the
  last of two values is the one at risk.  The proof removes the bounds.
* Locks: in four bytes two parts can lie apart, touch, overlap on either side and
  contain one another; two processes refuse each other and cycle.  The proof removes the
  bounds.

Deadlock is checked in the runs `mutex`, `queue_one`, `generator` and
`ids_three_mutexes`.  In the others the system stops for a good reason: the bound on
what is enqueued, sent or called is reached, the program has ended, the file is searched.

## 5. Fairness

Safety is checked without any.  For liveness:

* A thread inside a call goes on: weak fairness of each step inside a call.  Nothing
  in the code can suspend it and the scheduler is not unfair for ever.
* A mutex that is free again and again is obtained in the end: strong fairness
  of the steps that acquire one.  glibc's rwlock prefers readers, so for a
  writer `Progress` asks in addition that readers are gone again and again.
* Critical sections end: callers of the recursive mutex release what they took
  (`Release`), also from depth one.  Consumers of the queue wait again.  Tasks end.
* `signaled_thread` is scheduled and the kernel delivers what is pending and
  unmasked.
* A deadline passes, and a thread of a timed call that is past its function goes on:
  weak fairness, as each thread locks a mutex a few times only.
* The generator's workers ask for the mutex of their pool over and over: strong
  fairness of taking a task and of the exit, weak fairness of every other step.
* Nobody owes a call, a push, a stop, a signal, a spurious wake-up, the return of a
  function, an end of the process, a kill, a second run, or a failure.

## 6. Proofs

Eight modules hold proofs.  Each theorem is about the specification that TLC runs, with
its constants left open, or about operators that a run's properties evaluate, for any
operands; it rests on the assumptions named with it and no others.

### 6.1 RecursiveSharedMutexProofs

`RecursiveSharedMutexProofs` answers the note of `util.hpp:4230`, "Prove that
`RecursiveSharedMutex` is correctly implemented and working", for the safety part,
for every set of threads and every bound on the depth.  The only assumption is
`MutexAssumption`: the "nobody" of the rwlock is no thread, and depth 1 is allowed.

The properties are not inductive by themselves.  `ExclusiveIsAlone` speaks of
counts, but a count changes one step after the rwlock does, so one has to know where
each thread stands in its call.  `IInv` adds three parts:
* `RwlockExclusion`: the rwlock below has no writer together with readers;
* `StepMeansOwnership`: the place of a thread says whether it owns the rwlock, and
  that its count is still, or already, zero;
* `WriterNotShared`: when a writer is past the store of its mode, the mode is not
  Shared.  A late None may overwrite it, a Shared may not, because a thread that is about
  to store Shared is in the rwlock.  This is what makes nested exclusive locks safe.

| theorem | what |
|---|---|
| `Invariance`, `Typing` | `IInv`, and with it `TypeOK`, holds always |
| `Exclusion` | `ExclusionHolds`: exclusive owners are alone |
| `CountIsOwnership` | `CountMeansOwnership` |
| `OwnersCanNest` | `OwnersNest`: an owner is never refused and never waits for itself |
| `ImplementsOwnership` | `OwnershipSpec`: every step is a step of `ReentrantOwnership` or a stutter |

The refinement maps a thread to what its count and the rwlock say it owns.
`SilentStep`, `EnterStep`, `NestStep` and `ReleaseStep` are the lemmas, one for each
way in which a step looks from outside.

### 6.2 ThreadSafeQueue, in PartsProofs

`WaitsAreAlwaysJustified`: for any number of queues, consumers, callers and values, as long
as every queue keeps what is its own (`Spec`, without `Exchange`): `empty_state` agrees with
the queue, a consumer goes to sleep in front of an empty queue only, and finds an empty one
on waking up only where a stop was taken back.  `QueueKeepsOrder`: with one queue, what was
taken and what is left is what was pushed, in this order.  Both from `WaitsIInv`, which says
of each place of a wait who holds the mutex there and what it has seen.

`ValuesExistOnce`: `ExactlyOnce` under `ExchangingSpec`, where queues are swapped and moved
while consumers wait.  `OnceIInv` needs no word about waits or mutexes: nothing is lost
(`NothingLost`: the values pushed are those taken and those in a queue) and nothing is
there twice (`NothingTwice`), since every operation on the data is a push of a new value, a
take of a head or an exchange of two queues; a move is an exchange with an emptied one.
That the types hold as well takes `TypesIInv`, with the two parts about mutexes and sleepers
of `WaitsIInv`; of `empty_state` nothing is claimed there but that it is a boolean.

### 6.3 ThreadPoolProofs

For any workers, clients, tasks and ids of the three mutexes, from `PoolAssumption`.

| theorem | what |
|---|---|
| `LocksAreThoseOfThePlace` | `LocksFollow`: who has locked which mutex, how, and how often it is counted, follows from where each thread is |
| `IdsAvoidCycles` | `NoLockCycle`, if `task_queues` and `waiting_locations` share an id |
| `TablesStayTrue` | `TablesAreTrue` |
| `TasksInOnePlace` | `PendingInOnePlace` |
| `PoolImplementsTasks` | `ImplementsTaskPool`: every step is one of `TaskPool` or a stutter |

`LocksFollow` is inductive by itself and is what the rest stands on.  `CountedAt(m)` is the
stretch of code between the lock and the unlock of m, `ReadAt` and `WrittenAt` the part of
it where m is really held: an earlier mutex with the same id makes the lock a mere count.
No theorem but `IdsAvoidCycles` depends on which ids are shared.  That one takes the ids as
a hypothesis: with three different ids `enqueue` and a worker that writes its location lock
`task_queues` and `waiting_locations` in opposite orders, and do cycle.  The ids that the
first pool of a process gets are those that `MutexIds` shows: the second and the third mutex
share one.  So it is the finding about ids that keeps this deadlock away.

`TablesIInv` says for which threads the tables have entries, with the exception of the one
that is removed, which loses them in four steps (`EntriesAreThreads`); that this one is
joined before and is not chosen otherwise (`RemovedIsThread`); that the queue a search has
chosen exists as long as the search holds its lock (`ChoiceExists`, which needs
`LocksFollow`: the erasure waits for the writer's lock); and that a sleeper lies where
`waiting_locations` says (`SleepersWait`).  `TasksIInv` says who can have a task and what
its future is then (`HavingOK`), that a task is nowhere twice (`NowhereTwice`) and that a
pending one is somewhere (`PendingIsSomewhere`).  A pushed task would be lost if its queue
were gone; that it is not is `ChoiceExists` again.

The refinement follows from `TablesIInv` and `TasksIInv` in five lemmas, one for each way in
which a step looks from outside: `PushHandsIn`, `TakeBegins`, `FinishEnds`, `EraseGivesUp` for
the removal of a queue with tasks in it, and `TasksRest` for all others.  A worker begins a
task that nobody has begun because a pending task is nowhere twice; a removal gives up none
that is run because what lies in a queue is with no worker.

### 6.4 StaticMemPoolProofs

For any pool, header, sizes and alignments with `PoolAssumption`:

| theorem | what |
|---|---|
| `ClientsKeepTheirs` | `LiveChunks`: what clients have lies in the pool, is aligned, does not overlap, and is in use in the list |
| `PoolListStaysSound` | `ListIsSound`: the list tiles the pool, is merged, and its links are right |
| `PoolImplementsBlocks` | `ImplementsBlocks`: every step is one of `DisjointBlocks` or a stutter |

`IInv` is about the list and about the clients.  `ListOK`: chunks are proper (`ChunksOK`),
lie behind each other (`Apart`), tile the pool (`Tiles`), no two free ones are neighbours
(`Merged`), and `prev` is right, or stale behind a free chunk (`PrevOK`): a merge absorbs a
chunk behind a free one before anybody reads that field.  `LiveOK`: every chunk in use
belongs to one client, and what clients have is such a chunk or lies behind the header of
one that was handed out as a whole.  That chunk is the last of the list and ends at null
(`Anew`); from then on the list need not tile the pool.  Whether there is one is `whole`,
except that a program may die while it hands one out; hence the `\E w` of `IInv`.

`SplitKeeps`, `TakeWholeKeeps`, `ReleaseKeeps` and `MergeKeeps` say what each step on the
list preserves.  The merge walks the list by a recursive function over numbers; its values
are unfolded one at a time (`WalkUnfolds`), and the invariant of the walk carried along.  A
`reallocate` that moves is an allocation followed by a deallocation, with both blocks live
for a moment (`MovedIs`).  That moment is why the refinement holds: the new block of a move is
apart from the old one because the old one is still live when the new one is looked for.

### 6.5 SignalManagerProofs

For any signals, ids, and bounds on callbacks and signals sent:

| theorem | what |
|---|---|
| `TablesAlwaysAgree` | `TablesAgree`: mode, callbacks, user's handlers and the kernel agree |
| `WalksAreStable` | `WalkIsStable`: nobody changes what a handler walks through |
| `HandlersCallAll` | `AllAreCalled`, an action property: a handler returns when it has called everything registered, once and in order |

`IInv` says what the tables hold for each signal (`SignalOK`), with the two excuses
`uninstalled` and `orphaned`, that lists have no empty entries and no callback twice
(`Good`), and of the stack that each frame is of another signal, since a signal is blocked
while its handler runs (`FramesOK`).  That is why a client can change a table under a
stacked handler of another signal, and no table a handler walks through.  What a handler
walks through is flattened from lists by recursion; that the result is a sequence is an
induction over a set of numbers (`SetInduction`).

### 6.6 UcdGeneratorProofs

For any thread counts, categories, options, number of runs and any well-formed UnicodeData.txt
(`GeneratorAssumption`, whose last parts are that `all_cats[]` at `main.c:182` names each
category once and that there is at least one):

| theorem | what |
|---|---|
| `TasksAlwaysDone` | `TasksAreDone`: each task is in one place, is done once, and before main goes on behind it |
| `OutputAlwaysComplete` | `OutputIsComplete`: a run that ends with success left every file, whole but for what `fclose` lost; it worked on a part of UnicodeData.txt only where an earlier run left a part in the cache; the table is right |

`WorkOK` follows the tasks: what a process works on is told by its place (`JobsOK`); without
lines there is nothing to do (`LinesOK`); a task lies in the queue, on main's list, with one
process, or is finished (`OnceOK`); what main has yet to enqueue and to wait for is a tail
of the list of chunks or of categories, and all before it is done (`ListsOK`); no file is
begun before every chunk is done (`PhasesOK`).  `ResultOK` follows the data: a chunk is set
up to the cursor of whoever works on it (`TableOK`); a file that was written well belongs to
a whole table and to a directory that was known, and nobody writes it any more (`OutputOK`);
what the buffers of directories hold is what the flags say, and while the program's own path
is taken for the output directory some file is about to fail (`DirsOK`); a text that is cut
comes from a cache of which some run wrote a part (`TextOK`).  That it was an earlier one
(`CutByAnEarlierRun`) takes `EarlierInv`: the number of that run is below this one's as long as
this run has not written the cache, and whenever its lines are others than those of a whole file
or of an error page; a run that writes the cache has none but these.

A look-up may fail on a cut file, where it ends the process, and, through its hint, in a
whole one: when a thread goes on with a lower chunk its hint is of a higher code point, and
if the hint's own code point is looked up it is taken for line 0 (`main.c:1448`).  Main looks
up one chunk only, in ascending order, and begins without a hint, so it does not meet that
case and its look-ups succeed (`LookupSucceeds`, `EndOK`); a worker that fails takes the whole
run along, with failure.
Most steps touch nothing the invariant reads; `QuietKeeps` says so once for all of them.

That the table is right (`TableIsRight`) takes an invariant of its own, `RightInv`, since a
thread keeps where it was from one look-up to the next, and from one chunk to the next.
`LooksRight` is what a thread must bring along for its next code point: the range it keeps is
one of the file, or is behind everything in this chunk; its hint is of a smaller code point, or
the code point begins no range, where a hint does no harm; and it is inside of a range
when the code point is, unless that range began before the chunk.  `LookupReads` and
`LooksOnRight` say that such a look-up answers what the file says and leaves the thread fit for
the next code point; the search itself is read by `SearchFinds`, from the lines ascending.
What a thread brings from one chunk to another depends on the order in which chunks are taken:
`OrderOK` says that the queue descends, and that what a worker looks up is above all that
waits.  `FreshOK` says that no thread has a hint while the lines are read.  `ReadOK` is about
runs whose lines are those of the whole file: on a cut one `OutputIsComplete` promises no more
than `CutByAnEarlierRun`.

### 6.7 TimedTaskProofs

`CallsAreAnsweredByTheirOwn`: `AnswersAreOwn` for any callers, clients and numbers of
calls.  The inductive `AnswersIInv` has to say how far a thread is from what is in the
frame it works in: `PromisesAreKept` relates the caller's place, the answer and the phase
of the thread; `ResultsAreOwn` and `ResultsAreThere` say whose value lies in `result`, and
that it lies there before `done` is set; `StraysTimedOut` that whoever works in memory
that is not its own was given up.

`EveryDestructorRuns`: `DestructorsRun` of `ProcessEnd` under `TimedTask`, for any threads,
numbers of calls and destructors, from `EndAssumption` and `ThreadAssumption`.  That a
destructor runs at most once in each ending that began early is no fact about one state:
`EndIInv` counts. While the process is up, destructor i has run at most once for each thread
whose pass it is behind (`Behind`), and once more for a second pass (`BehindAgain`).  There
is a second pass only for threads that threw out of `~InitDeinit` and now terminate, the set
W of `ThrewOnce`; as it stops at the first destructor that throws, which aborts in a
handler, and the mutex lets one thread run at a time (`PassIsAlone`), all of W together get
at most one run more.  `CompleteRanAll` and `PlaceTells` carry what the flag tells those who
skip the pass.  A second pass that ends the process breaks the count, so that there only the
bound itself is kept.

### 6.8 PartsProofs

The parts that share nothing, one section of the module each.

* Arithmetic: `ArithmeticSaturates`: `SaturationIsExact` is an invariant for any set of integer
  types of any width, every operation and every cast, and all bounds: a subject about integers
  is one of the types (`IntegersHaveTypes`), and the types saturate by `EveryWidthSaturates` and
  `EveryCastSaturates`.  The lemmas are about signs of products (`ProductSign`), what a division
  may exceed (`DivisionBound`, `QuotientFits`), and the bounds by default.
* File locks: `ListsTellTheTruth`: `ListsAreTrue` for any set of processes, number of bytes
  and lengths.  The core is `ApartIsDisjoint`: the three cases of the comparison at
  `mmaped_file.ipp:130` leave over only parts without a common byte.
* Mutex ids: `TwoMutexesStayApart`: `IdsKeepLocksApart`, for any threads, depths and number of
  constructions, when there are at most two mutexes, which is the assumption that the
  finding shows to be needed.  `IdsIInv` adds that the ids given out are those of the mutexes
  alive (`IdsAreTheirs`), that a count under an id is what its thread has open on the
  mutex of that id (`CountsAreOwn`), that entries under ids nobody has count nothing
  (`NothingLeft`), and that the thread that has a mutex open holds its rwlock
  (`HolderIsOpen`).  Without `NothingLeft` a mutex that gets an old id would inherit a count.
* Coroutines: `LoopsSeeEverythingOnce`: `CoroutinesAreWhole` for any objects and frames and
  generators of any length, if the null handle is no frame.  `CoroIInv` says that a frame is
  held by one object at most (`HeldOnce`), that nothing is seen of a frame nobody made, and,
  for each object with a frame (`Whole`), where frame, `done`, `iter_end` and the loop stand
  to one another.
* Source files: `FilesStayWhole`: `FilesAreWhole` for any objects and paths.  `FilesIInv` says
  that an object that does not exist holds nothing, and that path, stream and pragmas of any
  other one, but for those in `assigned`, speak of one file (`Together`).
* Command line: `EngineFollowsCommandLine`: `EngineFollows` for any command lines and paths
  that vanish at any moment.  `CmdIInv` relates three stages: what was parsed is what stands
  in the arguments gone over, some of it emptied (`Copies`); what the engine has is the
  beginning of that with nothing emptied (`FirstOf`), as far as `added` counts.
* Text: what holds of any bytes, string, line or place, where the run takes small ones.
  `WalksTurnBack`: from the beginning of a character `find_next` and then `find_prev` lead to it
  again, in any memory, well formed or not (`StepsAreUndone`, a part of `WalksMeet`).
  `OrdersAreSeen`: `set_endianness` of a string gives its order to all of it, which can be taken
  back, or is refused, and a string that was changed in part reports no order (`OrderIsSeen`, a part of
  `CharactersAgree`).  `WordsAreWhole`: the word an error underlines (`WordIsWhole`).
  `PlacesAlwaysAgree`: the comparisons of `PragmaLocCompare` (`PlacesAgree`).

### 6.9 ParserProofs

`SearchesAreExact`: `ParserIsExact`, for files of any length made of any lines and for every
order in which the two searches are resumed.  The only assumption is `LinesAssumption`: lines
are sequences of characters without a newline among them.  `ParserInv` has six parts.

* `TextInv` is about the two contents while comments are erased from them.  The one with line
  numbers is in order (`InOrder`): lines ascend, what stands between two newlines is of later
  lines than the first, what opens a comment opened one in the file, and only a block comment brings
  characters of two lines together (`Ascending`, `NewlinesDivide`, `OpeningsAreReal`,
  `JumpsAreComments`).  The other has the same characters as far as it goes (`Follows`), so that
  a part can be erased from both by one pair of positions.  Without `JumpsAreComments` a
  location could be of a line its pragma does not stand in.
* `Types`, and `Turns`: one coroutine runs at a time, none before the comments are gone.
* `Located`: the blocks found are where their pragmas are, ascend, and are before everything
  that is not looked at yet.
* `Kept`: a line is in the file or in one body.
* `Scanned`: as long as the searches are not mixed, there is a line q up to which
  `search_super_defines` has read (`HasRead(q)`): what lies ahead of it is the rest of the
  stripped lines, the blocks are those of the pairs up to q (`BlocksUpTo(q)`), and an open
  block began before q with no pragma that would end it since.  Its own index does not say q,
  because the searches erase lines from the vector they walk.

The loops of the source are recursive functions over numbers in the model; `LoopsRun` unfolds them
one value at a time, and what they compute is an induction on the least number that fails.

### 6.10 Only model-checked

* The liveness properties `Progress`, `Delivered`, `SleepersAreReached`, `AcceptedTasksRun`,
  `EnqueueReturns`, `HandlersEnd`, `RunEnds`, `EndingEnds` and `CallsAreAnswered`: fairness and
  ENABLED are beyond the prover.
* What folds over data compute for every input: the walks from one end of a well-formed text
  to the other, the conversions and the code points of characters (`TextSurvives`, but for the
  parts named in 6.8), lines, words and bits of the generator's tables (`TablesAreRight`, whose
  look-ups `TableIsRight` proves as part of the generator), splitting, templates and what
  stripping should leave (`SourceIsRead`, but for the parts named in 6.8).

An induction over data cannot cite the library's theorems, whose parameter is an operator;
where a recursion is over numbers, as in the walk of the static pool, the flattening of
lists, the arguments of the command line and the loops of the parser, the induction is done on
the set of numbers for which the claim holds, by its least element outside.

## 7. Not modelled

* Stubs: `fs-watch` (a constructor that opens a descriptor), `threadkiller`
  (`kill()` is empty), the processing part of `Engine`.
* Values without a life of their own: the exception classes and `Result`, whose
  errors are outcomes in the modules (the compiled variant of `Result` is a thin
  `std::expected`; copies of an exception share their message), `ErrorPrinter`, the
  instantiations of pragmas, metaprogramming and configuration macros.
* Of unistreams: reading and writing through the streams, the iterators, locale facets,
  the converters from and to the paths of C, and the tables that were generated.
* Of mapped files: mapping and resizing, wrappers of system calls.
* Of the engine: removing and replacing include paths, and looking a file up in them.
* Of the generator: the debug log, the compression with brotli, the C and C++ text
  around the bits, an allocation that fails.
* Of the arithmetic: `get_max_10th_power`, which squares instead of multiplying by ten,
  `wrapped_*`, of which the signed ones do not compile.
* Weak memory: accesses to atomics are sequentially consistent here, where the code asks
  for acquire and release; the flags of the generator are read and written as if they
  were atomic.
* Time: a deadline passes at any moment, an order of deadlines is not promised.
* Dead code (`*.old`), vendored code, tests and build files.
