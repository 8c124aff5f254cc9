---------------------------- MODULE UcdGenerator ----------------------------
(***************************************************************************)
(* The Unicode data generator (unistreams/impl/compiled/main.c) as a       *)
(* process: it reads UnicodeData.txt from its cache or downloads it, has   *)
(* the threads of a pool look up the category of every code point, and     *)
(* then has them write one file per category.                              *)
(*                                                                         *)
(* A critical section of the pool's mutex that nothing outside it can see  *)
(* into is one step.  thread_pool_wait_task looks at a flag that workers   *)
(* set and announce without the mutex, so that its look, its sleep, their  *)
(* store and their broadcast are four steps.  So are the reads and writes  *)
(* of the two static buffers from which the output directory is made.      *)
(*                                                                         *)
(* Process 0 is the main thread, the others are the workers.  The cache    *)
(* survives a kill; the user may run the generator MaxRuns times.  What is *)
(* behind want_debug, and an allocation that fails, is left out.           *)
(***************************************************************************)
EXTENDS UcdTables

CONSTANTS
  Threads,        \* the values thread_count may have
  Cats,           \* the categories files are written for, in order
  UnicodeData,    \* the lines of the file at the URL
  Options,        \* whether an output directory is given, and a language known
  MaxRuns         \* bound on the runs of the program

ASSUME GeneratorAssumption ==
  /\ Threads \subseteq 1 .. MaxCp       \* at most 65 in the code
  /\ Threads # {}
  /\ WellFormed(UnicodeData)
  /\ UnicodeData \in Seq([cp : CodePoint, cat : STRING, mark : {"single", "first", "last"}])
  /\ Cats \in Seq(Category) /\ Cats # <<>>
  /\ \A j, k \in DOMAIN Cats : Cats[j] = Cats[k] => j = k     \* all_cats[]
  /\ Options \subseteq [output_dir : BOOLEAN, language : BOOLEAN]
  /\ MaxRuns \in Nat \ {0}

VARIABLES
  cache,          \* the cached file: "none", "empty", "cut", "page" or "whole"
  runs,           \* how often the program was started
  torn,           \* the run that wrote the cache last, if it wrote a part of the text, or 0
  thread_count,   \* the options of this run
  option,
  status,         \* "running", "success" or "failure"
  pc,             \* where a process is
  lines,          \* the lines of the file that was read
  thread,         \* thread[p]: the thread_local variables of the look-up
  cursor,         \* cursor[p]: the code point p looks up next
  table,          \* cat_by_cp
  task_queue,     \* the tasks of the pool, oldest first
  freed,          \* task_queue was freed
  shutdown,       \* pool->shutdown
  mtx,            \* who holds pool->mtx over more than one step, or Nobody
  waiting,        \* the processes asleep on pool->cnd
  job,            \* job[p]: the task p works on
  to_enqueue,     \* the tasks main has yet to enqueue
  to_wait,        \* the tasks main has yet to wait for
  finished,       \* the tasks whose done flag is set
  oks,            \* oks[c]: what writing the file of c returned
  exe,            \* executable_dir: "none", "full" path of the program, "dir"
  exe_known,      \* get_executable_dir: retrieved
  out_dir,        \* output_dir: "none", "asked", "dir" or "full" + /generated
  dir_known,      \* current_output_dir: retrieved
  files,          \* files[c]: what became of the file of c
  exiting         \* the process that destroys the pool, or Nobody

Nobody == -1
Main == 0
MaxThreads == CHOOSE n \in Threads : \A k \in Threads : k <= n
Proc == 0 .. MaxThreads - 1
Worker == 1 .. thread_count - 1

Parse(i) == <<"parse", i>>
Dump(c) == <<"dump", c>>
NoTask == <<"none", 0>>

\* A file that is not there, and one that lacks the end fclose should have flushed.
NoFile == [state |-> "none", cps |-> {}]
CutFile == [state |-> "cut", cps |-> {}]

\* The whole file of a category: the code points whose bits are set in it.
FileOf(c) ==
  [state |-> "written", cps |-> {cp \in CodePoint : Buffer(table, c)[cp] = One}]

disk == <<cache, runs, torn>>
options == <<thread_count, option>>
look == <<lines, thread, cursor, table>>
pool == <<task_queue, freed, shutdown, mtx, waiting>>
main == <<to_enqueue, to_wait>>
dirs == <<exe, exe_known, out_dir, dir_known>>
output == <<oks, files>>
vars == <<disk, options, status, pc, look, pool, job, main, finished, dirs,
          output, exiting>>

Go(p, where) == pc' = [pc EXCEPT ![p] = where]

\* exit_with_error: the process calls exit.
Fail(p) == Go(p, "exit")

----------------------------------------------------------------------------
(* The initial state of a run: options, globals and statics.               *)

Init ==
  /\ cache = "none" /\ runs = 1 /\ torn = 0
  /\ thread_count \in Threads
  /\ option \in Options
  /\ status = "running"
  /\ pc = [p \in Proc |-> IF p = Main THEN "start" ELSE "none"]
  /\ lines = <<>>
  /\ thread = [p \in Proc |-> FreshThread]
  /\ cursor = [p \in Proc |-> 0]
  /\ table = [cp \in CodePoint |-> "unset"]
  /\ task_queue = <<>> /\ freed = FALSE /\ shutdown = FALSE
  /\ mtx = Nobody /\ waiting = {}
  /\ job = [p \in Proc |-> NoTask]
  /\ to_enqueue = <<>> /\ to_wait = <<>> /\ finished = {}
  /\ oks = [c \in ToSet(Cats) |-> FALSE]
  /\ files = [c \in ToSet(Cats) |-> NoFile]
  /\ exe = "none" /\ exe_known = FALSE
  /\ out_dir = (IF option.output_dir THEN "asked" ELSE "none")
  /\ dir_known = option.output_dir
  /\ exiting = Nobody

----------------------------------------------------------------------------
(* The main thread up to the lines of the file.                            *)

\* gen_cachedir and the options; the pool has one thread less than asked for.
GenCachedir ==
  /\ status = "running" /\ pc[Main] = "start"
  /\ \/ pc' = [p \in Proc |-> IF p = Main THEN "read"
                              ELSE IF p \in Worker THEN "idle" ELSE "none"]
        /\ UNCHANGED status
     \/ status' = "failure" /\ UNCHANGED pc
  /\ UNCHANGED <<disk, options, look, pool, job, main, finished, dirs, output, exiting>>

\* What the file's lines are when its text is the one of the cache.  An error
\* page has lines of which no code point can be read; of a text that was cut
\* off the last line is lost.
TextLines(text) ==
  CASE text = "whole" -> {UnicodeData}
    [] text = "cut" -> {SubSeq(UnicodeData, 1, k) : k \in 0 .. Len(UnicodeData) - 1}
    [] text = "page" -> {<<[cp |-> NoBound, cat |-> "Cn", mark |-> "page"]>>}
    [] OTHER -> {<<>>}

\* main: an empty text is fatal, and so is one without a whole line.
UseText(text) ==
  /\ lines' \in TextLines(text)
  /\ IF lines' = <<>> THEN Fail(Main) /\ UNCHANGED main
     ELSE /\ Go(Main, IF thread_count > 1 THEN "enqueue" ELSE "own")
          /\ to_enqueue' = [k \in 1 .. thread_count - 1 |-> Parse(thread_count - k)]
          /\ to_wait' = IF thread_count > 1
                        THEN [k \in 1 .. thread_count |-> Parse(k - 1)] ELSE <<>>

\* download_unicode_file: read_if_exists, which takes a cache that cannot be read for
\* one that is not there.
ReadCache ==
  /\ status = "running" /\ pc[Main] = "read"
  /\ \/ Go(Main, "fetch") /\ UNCHANGED <<lines, main>>
     \/ cache # "none" /\ UseText(cache)
  /\ UNCHANGED <<disk, options, status, thread, cursor, table, pool, job, finished, dirs,
                 output, exiting>>

\* curl_easy_perform fails, and fopen for writing does, or the cache is empty
\* from now on; the page of an HTTP error is not an error.
OpenCache ==
  /\ status = "running" /\ pc[Main] = "fetch"
  /\ \/ Fail(Main) /\ UNCHANGED cache
     \/ /\ cache' = "empty"
        /\ \E text \in {"whole", "page"} : Go(Main, text)
  /\ UNCHANGED <<runs, torn, options, status, look, pool, job, main, finished,
                 dirs, output, exiting>>

\* What is in the file when a part of a text was written; a part of a page is read like
\* a page, or has no whole line, like an empty file.  What is left in a buffer is less
\* than all of UnicodeData.txt.
Part(text) == {"empty", IF text = "whole" THEN "cut" ELSE "page"}
WithoutEnd(text) == IF text = "whole" THEN {"cut"} ELSE Part(text)

\* write_to_file: the text is written, or fwrite writes a part of it, which is fatal, or
\* fclose fails to write the end; nobody looks at that, and the run goes on with the
\* text it has.
WriteCache ==
  /\ status = "running" /\ pc[Main] \in {"whole", "page"}
  /\ \/ cache' = pc[Main] /\ torn' = 0 /\ UseText(pc[Main])
     \/ cache' \in WithoutEnd(pc[Main]) /\ torn' = runs /\ UseText(pc[Main])
     \/ /\ cache' \in Part(pc[Main]) /\ torn' = runs
        /\ Fail(Main) /\ UNCHANGED <<lines, main>>
  /\ UNCHANGED <<runs, options, status, thread, cursor, table, pool, job, finished, dirs,
                 output, exiting>>

----------------------------------------------------------------------------
(* The main thread: enqueueing, its own chunk, waiting.                    *)

\* cnd_signal wakes one sleeper, if there is one.
Signal ==
  IF waiting = {} THEN UNCHANGED waiting
  ELSE \E p \in waiting : waiting' = waiting \ {p}

\* thread_pool_enqueue; the queue may have been freed by a worker's exit.
Enqueue ==
  /\ status = "running" /\ pc[Main] = "enqueue" /\ mtx = Nobody
  /\ task_queue' = Append(task_queue, Head(to_enqueue))
  /\ Signal
  /\ to_enqueue' = Tail(to_enqueue)
  /\ IF Len(to_enqueue) > 1 THEN UNCHANGED pc
     ELSE Go(Main, IF Head(to_enqueue)[1] = "parse" THEN "own" ELSE "wait")
  /\ UNCHANGED <<disk, options, status, look, freed, shutdown, mtx, job, to_wait,
                 finished, dirs, output, exiting>>

\* parse_unicode_data_thread_func: process p looks up the next code point of its
\* chunk, fails, or comes to the end of the chunk.
LookUpNext(p) ==
  /\ status = "running" /\ pc[p] = "parse"
  /\ LET cp == cursor[p]
         a == LookupCat(lines, thread[p], cp)
     IN  IF cp > ChunkLast(thread_count, job[p][2])
         THEN Go(p, "store") /\ UNCHANGED <<table, thread, cursor>>
         ELSE /\ thread' = [thread EXCEPT ![p] = a.thread]
              /\ IF a.ok THEN /\ table' = [table EXCEPT ![cp] = a.cat]
                              /\ cursor' = [cursor EXCEPT ![p] = cp + 1]
                              /\ UNCHANGED pc
                 ELSE Fail(p) /\ UNCHANGED <<table, cursor>>
  /\ UNCHANGED <<disk, options, status, lines, pool, job, main, finished, dirs,
                 output, exiting>>

\* A process begins with a task of the pool, or main with its own chunk.
Begin(p, task) ==
  /\ job' = [job EXCEPT ![p] = task]
  /\ cursor' = [cursor EXCEPT ![p] = IF task[1] = "parse"
                                     THEN ChunkFirst(thread_count, task[2]) ELSE @]
  /\ Go(p, IF task[1] = "parse" THEN "parse" ELSE "dir")

\* Main processes the remaining code points.
ParseOwn ==
  /\ status = "running" /\ pc[Main] = "own"
  /\ Begin(Main, Parse(0))
  /\ UNCHANGED <<disk, options, status, lines, thread, table, pool, main, finished,
                 dirs, output, exiting>>

\* finished[0] = true; without a pool the files are written one by one.
OwnDone ==
  /\ status = "running" /\ pc[Main] = "store"
  /\ finished' = finished \cup {Parse(0)}
  /\ IF thread_count > 1
     THEN /\ job' = [job EXCEPT ![Main] = NoTask]
          /\ Go(Main, "wait") /\ UNCHANGED <<cursor, to_enqueue>>
     ELSE /\ Begin(Main, Dump(Cats[1]))
          /\ to_enqueue' = [k \in 1 .. Len(Cats) - 1 |-> Dump(Cats[k + 1])]
  /\ UNCHANGED <<disk, options, status, lines, thread, table, pool, to_wait, dirs,
                 output, exiting>>

\* Faulty: main waits for the first chunk only.
WaitDoneFirstChunk ==
  /\ status = "running" /\ pc[Main] = "wait" /\ Main \notin waiting /\ mtx = Nobody
  /\ Head(to_wait) \in finished
  /\ IF Head(to_wait)[1] # "parse" /\ Len(to_wait) > 1
     THEN to_wait' = Tail(to_wait) /\ UNCHANGED <<pc, to_enqueue>>
     ELSE IF Head(to_wait)[1] = "parse"
     THEN /\ to_enqueue' = [k \in DOMAIN Cats |-> Dump(Cats[k])]
          /\ to_wait' = to_enqueue'
          /\ Go(Main, "enqueue")
     ELSE Go(Main, "exit") /\ to_wait' = <<>> /\ UNCHANGED to_enqueue
  /\ UNCHANGED <<disk, options, status, look, pool, job, finished, dirs, output, exiting>>

\* Faulty: main looks at the result of the last file only.
WaitDoneLastResult ==
  /\ status = "running" /\ pc[Main] = "wait" /\ Main \notin waiting /\ mtx = Nobody
  /\ Head(to_wait) \in finished
  /\ IF Len(to_wait) > 1 THEN to_wait' = Tail(to_wait) /\ UNCHANGED <<pc, to_enqueue>>
     ELSE IF Head(to_wait)[1] = "parse"
     THEN /\ to_enqueue' = [k \in DOMAIN Cats |-> Dump(Cats[k])]
          /\ to_wait' = to_enqueue'
          /\ Go(Main, "enqueue")
     ELSE /\ Go(Main, IF oks[Cats[Len(Cats)]] THEN "exit_success" ELSE "exit")
          /\ to_wait' = <<>> /\ UNCHANGED to_enqueue
  /\ UNCHANGED <<disk, options, status, look, pool, job, finished, dirs, output, exiting>>

\* thread_pool_wait_task sees its flag set and returns; behind the last one the
\* dumps are enqueued, or their results looked at.
WaitDone ==
  /\ status = "running" /\ pc[Main] = "wait" /\ Main \notin waiting /\ mtx = Nobody
  /\ Head(to_wait) \in finished
  /\ IF Len(to_wait) > 1 THEN to_wait' = Tail(to_wait) /\ UNCHANGED <<pc, to_enqueue>>
     ELSE IF Head(to_wait)[1] = "parse"
     THEN /\ to_enqueue' = [k \in DOMAIN Cats |-> Dump(Cats[k])]
          /\ to_wait' = to_enqueue'
          /\ Go(Main, "enqueue")
     ELSE /\ Go(Main, IF \A c \in ToSet(Cats) : oks[c] THEN "exit_success" ELSE "exit")
          /\ to_wait' = <<>> /\ UNCHANGED to_enqueue
  /\ UNCHANGED <<disk, options, status, look, pool, job, finished, dirs, output, exiting>>

\* It sees the flag unset and, the mutex still held, is about to sleep.
WaitLook ==
  /\ status = "running" /\ pc[Main] = "wait" /\ Main \notin waiting /\ mtx = Nobody
  /\ Head(to_wait) \notin finished
  /\ mtx' = Main
  /\ Go(Main, "cnd_wait")
  /\ UNCHANGED <<disk, options, status, look, task_queue, freed, shutdown, waiting,
                 job, main, finished, dirs, output, exiting>>

\* cnd_wait.
WaitSleep ==
  /\ status = "running" /\ pc[Main] = "cnd_wait"
  /\ mtx' = Nobody
  /\ waiting' = waiting \cup {Main}
  /\ Go(Main, "wait")
  /\ UNCHANGED <<disk, options, status, look, task_queue, freed, shutdown, job, main,
                 finished, dirs, output, exiting>>

----------------------------------------------------------------------------
(* The workers.                                                            *)

\* thread_pool_func from mtx_lock to mtx_unlock or cnd_wait: leave, take the
\* oldest task, or sleep.
Take(w) ==
  /\ status = "running" /\ pc[w] = "idle" /\ w \notin waiting /\ mtx = Nobody
  /\ IF shutdown THEN Go(w, "gone") /\ UNCHANGED <<task_queue, job, cursor, waiting>>
     ELSE IF task_queue = <<>>
     THEN waiting' = waiting \cup {w} /\ UNCHANGED <<pc, task_queue, job, cursor>>
     ELSE /\ Begin(w, Head(task_queue))
          /\ task_queue' = Tail(task_queue)
          /\ UNCHANGED waiting
  /\ UNCHANGED <<disk, options, status, lines, thread, table, freed, shutdown, mtx,
                 main, finished, dirs, output, exiting>>

\* atomic_store_explicit(task.done, true), without the mutex.
StoreDone(w) ==
  /\ status = "running" /\ pc[w] = "store"
  /\ finished' = finished \cup {job[w]}
  /\ Go(w, "broadcast")
  /\ UNCHANGED <<disk, options, status, look, pool, job, main, dirs, output, exiting>>

\* cnd_broadcast, without the mutex.
Broadcast(w) ==
  /\ status = "running" /\ pc[w] = "broadcast"
  /\ waiting' = {}
  /\ job' = [job EXCEPT ![w] = NoTask]
  /\ Go(w, "idle")
  /\ UNCHANGED <<disk, options, status, look, task_queue, freed, shutdown, mtx, main,
                 finished, dirs, output, exiting>>

\* cnd_wait may return without a signal.
SpuriousWakeUp ==
  /\ status = "running"
  /\ \E p \in waiting : waiting' = waiting \ {p}
  /\ UNCHANGED <<disk, options, status, pc, look, task_queue, freed, shutdown, mtx,
                 job, main, finished, dirs, output, exiting>>

----------------------------------------------------------------------------
(* Writing the file of a category, by a worker or by main.                 *)

\* current_output_dir: the directory is known, or get_executable_dir is
\* called, which knows the program's path or asks for it.
AskDir(p) ==
  /\ status = "running" /\ pc[p] = "dir"
  /\ Go(p, IF dir_known THEN "open" ELSE IF exe_known THEN "copy" ELSE "readlink")
  /\ UNCHANGED <<disk, options, status, look, pool, job, main, finished, dirs,
                 output, exiting>>

\* readlink writes the full path of the program into executable_dir; the
\* mutex does not ask again whether another thread was faster.
Readlink(p) ==
  /\ status = "running" /\ pc[p] = "readlink"
  /\ \A q \in Proc : pc[q] # "truncate"         \* the mutex of get_executable_dir
  /\ exe' = "full"
  /\ Go(p, "truncate")
  /\ UNCHANGED <<disk, options, status, look, pool, job, main, finished, exe_known,
                 out_dir, dir_known, output, exiting>>

Truncate(p) ==
  /\ status = "running" /\ pc[p] = "truncate"
  /\ exe' = "dir"
  /\ Go(p, "retrieved")
  /\ UNCHANGED <<disk, options, status, look, pool, job, main, finished, exe_known,
                 out_dir, dir_known, output, exiting>>

StoreRetrieved(p) ==
  /\ status = "running" /\ pc[p] = "retrieved"
  /\ exe_known' = TRUE
  /\ Go(p, "copy")
  /\ UNCHANGED <<disk, options, status, look, pool, job, main, finished, exe, out_dir,
                 dir_known, output, exiting>>

\* snprintf(output_dir, ...) reads executable_dir, which another thread may be
\* about to write; then retrieved is set.
CopyDir(p) ==
  /\ status = "running" /\ pc[p] = "copy"
  /\ out_dir' = exe
  /\ dir_known' = TRUE
  /\ Go(p, "open")
  /\ UNCHANGED <<disk, options, status, look, pool, job, main, finished, exe,
                 exe_known, output, exiting>>

\* What follows the file of a task: a worker reports, main goes on.
Written(p, ok) ==
  /\ oks' = [oks EXCEPT ![job[p][2]] = ok]
  /\ IF p # Main THEN Go(p, "store") /\ UNCHANGED <<job, to_enqueue>>
     ELSE IF ~ok THEN Fail(p) /\ UNCHANGED <<job, to_enqueue>>
     ELSE IF to_enqueue = <<>> THEN Go(p, "exit_success") /\ UNCHANGED <<job, to_enqueue>>
     ELSE /\ job' = [job EXCEPT ![p] = Head(to_enqueue)]
          /\ to_enqueue' = Tail(to_enqueue)
          /\ Go(p, "dir")

\* dump_unicode_data_cat: an unknown language is fatal; fopen fails when it
\* does, and in the directory named like the program itself.
OpenFile(p) ==
  /\ status = "running" /\ pc[p] = "open"
  /\ \/ ~option.language /\ Fail(p) /\ UNCHANGED <<output, job, to_enqueue>>
     \/ option.language /\ Written(p, FALSE) /\ UNCHANGED files
     \/ /\ option.language /\ out_dir # "full"
        /\ files' = [files EXCEPT ![job[p][2]] = [NoFile EXCEPT !.state = "open"]]
        /\ Go(p, "write")
        /\ UNCHANGED <<oks, job, to_enqueue>>
  /\ UNCHANGED <<disk, options, status, look, pool, to_wait, finished, dirs, exiting>>

\* The buffer of the category is made and written.  fwrite falls short, which is
\* reported; or fclose does (MAYBE_DEALLOC), which is not.
WriteFile(p) ==
  /\ status = "running" /\ pc[p] = "write"
  /\ \/ \E file \in {FileOf(job[p][2]), CutFile} :
          files' = [files EXCEPT ![job[p][2]] = file] /\ Written(p, TRUE)
     \/ UNCHANGED files /\ Written(p, FALSE)
  /\ UNCHANGED <<disk, options, status, look, pool, to_wait, finished, dirs, exiting>>

----------------------------------------------------------------------------
(* The end of a run.                                                       *)

\* Faulty: the sleeping workers are not told.
ExitSilent(p) ==
  /\ status = "running" /\ pc[p] \in {"exit", "exit_success"}
  /\ IF thread_count = 1 \/ exiting # Nobody
     THEN /\ status' = (IF pc[p] = "exit" THEN "failure" ELSE "success")
          /\ UNCHANGED <<pc, pool, exiting>>
     ELSE /\ mtx = Nobody
          /\ task_queue' = <<>> /\ freed' = TRUE /\ shutdown' = TRUE
          /\ UNCHANGED <<waiting, mtx>>
          /\ exiting' = p
          /\ Go(p, IF pc[p] = "exit" THEN "join" ELSE "join_success")
          /\ UNCHANGED status
  /\ UNCHANGED <<disk, options, look, job, main, finished, dirs, output>>

\* exit: destroy_thread_pool frees the queue and tells the workers.  The second
\* process that calls exit finds no handler left and ends the program, as does
\* the first when there is no pool.
Exit(p) ==
  /\ status = "running" /\ pc[p] \in {"exit", "exit_success"}
  /\ IF thread_count = 1 \/ exiting # Nobody
     THEN /\ status' = (IF pc[p] = "exit" THEN "failure" ELSE "success")
          /\ UNCHANGED <<pc, pool, exiting>>
     ELSE /\ mtx = Nobody
          /\ task_queue' = <<>> /\ freed' = TRUE /\ shutdown' = TRUE
          /\ waiting' = {} /\ UNCHANGED mtx
          /\ exiting' = p
          /\ Go(p, IF pc[p] = "exit" THEN "join" ELSE "join_success")
          /\ UNCHANGED status
  /\ UNCHANGED <<disk, options, look, job, main, finished, dirs, output>>

\* thrd_join of the threads in turn; a worker that comes to itself fails, calls
\* exit again, and that ends the program.
Join(p) ==
  /\ status = "running" /\ pc[p] \in {"join", "join_success"}
  /\ \A w \in Worker : w < p \/ p = Main => pc[w] = "gone"
  /\ status' = (IF pc[p] = "join" THEN "failure" ELSE "success")
  /\ UNCHANGED <<disk, options, pc, look, pool, job, main, finished, dirs, output, exiting>>

\* The process is killed while it gets its file; what fwrite wrote is there.
Kill ==
  /\ status = "running" /\ pc[Main] \in {"read", "fetch", "whole", "page"}
  /\ status' = "failure"
  /\ IF pc[Main] \in {"whole", "page"}
     THEN cache' \in Part(pc[Main]) /\ torn' = runs
     ELSE UNCHANGED <<cache, torn>>
  /\ UNCHANGED <<runs, options, pc, look, pool, job, main, finished, dirs, output, exiting>>

\* The user starts the program again.
Rerun ==
  /\ status # "running" /\ runs < MaxRuns
  /\ runs' = runs + 1
  /\ thread_count' \in Threads
  /\ option' \in Options
  /\ status' = "running"
  /\ pc' = [p \in Proc |-> IF p = Main THEN "start" ELSE "none"]
  /\ lines' = <<>>
  /\ thread' = [p \in Proc |-> FreshThread]
  /\ cursor' = [p \in Proc |-> 0]
  /\ table' = [cp \in CodePoint |-> "unset"]
  /\ task_queue' = <<>> /\ freed' = FALSE /\ shutdown' = FALSE
  /\ mtx' = Nobody /\ waiting' = {}
  /\ job' = [p \in Proc |-> NoTask]
  /\ to_enqueue' = <<>> /\ to_wait' = <<>> /\ finished' = {}
  /\ oks' = [c \in ToSet(Cats) |-> FALSE]
  /\ files' = [c \in ToSet(Cats) |-> NoFile]
  /\ exe' = "none" /\ exe_known' = FALSE
  /\ out_dir' = (IF option'.output_dir THEN "asked" ELSE "none")
  /\ dir_known' = option'.output_dir
  /\ exiting' = Nobody
  /\ UNCHANGED <<cache, torn>>

\* The last run is over.
Rest == status # "running" /\ UNCHANGED vars

----------------------------------------------------------------------------

MainStep ==
  \/ GenCachedir \/ ReadCache \/ OpenCache \/ WriteCache \/ Enqueue
  \/ ParseOwn \/ OwnDone \/ WaitDone \/ WaitLook \/ WaitSleep

WorkerStep(w) == Take(w) \/ StoreDone(w) \/ Broadcast(w)

OwnStep(p) ==
  \/ LookUpNext(p) \/ AskDir(p) \/ Readlink(p) \/ Truncate(p) \/ StoreRetrieved(p) \/ CopyDir(p)
  \/ OpenFile(p) \/ WriteFile(p) \/ Exit(p) \/ Join(p)

Next ==
  \/ MainStep
  \/ \E w \in Worker : WorkerStep(w)
  \/ \E p \in Proc : OwnStep(p)
  \/ SpuriousWakeUp \/ Kill \/ Rerun \/ Rest

Spec == Init /\ [][Next]_vars

\* The operating system schedules every thread, and a thread that asks for the
\* mutex over and over again is not passed over for ever by main, whose sleep
\* nobody need end; nothing forces a wake-up that nobody asked for, a kill or
\* another run.
FairSpec ==
  /\ Spec
  /\ WF_vars(MainStep)
  /\ \A p \in Proc : WF_vars(OwnStep(p)) /\ SF_vars(Exit(p))
  /\ \A p \in Proc \ {Main} : /\ WF_vars(p \in Worker /\ (StoreDone(p) \/ Broadcast(p)))
                              /\ SF_vars(p \in Worker /\ Take(p))

----------------------------------------------------------------------------
(* Properties.                                                             *)

Tasks == {Parse(i) : i \in 0 .. MaxThreads - 1} \cup {Dump(c) : c \in ToSet(Cats)}
Whole == \A cp \in CodePoint : table[cp] # "unset"
Doing(t) == {p \in Proc : job[p] = t}

\* The types of the variables.
TypeOK ==
  /\ cache \in {"none", "empty", "cut", "page", "whole"}
  /\ runs \in 1 .. MaxRuns /\ torn \in 0 .. MaxRuns
  /\ thread_count \in Threads /\ option \in Options
  /\ status \in {"running", "success", "failure"}
  /\ thread \in [Proc -> [in : BOOLEAN, start : 0 .. NoBound, end : 0 .. NoBound,
                          cat : Category, restart_from : Nat]]
  /\ table \in [CodePoint -> Category \cup {"unset"}]
  /\ task_queue \in Seq(Tasks) /\ job \in [Proc -> Tasks \cup {NoTask}]
  /\ freed \in BOOLEAN /\ shutdown = freed /\ mtx \in {Main, Nobody}
  /\ files \in [ToSet(Cats) -> [state : {"none", "open", "cut", "written"}, cps : SUBSET CodePoint]]
  /\ waiting \subseteq Proc /\ finished \subseteq Tasks

\* Whoever writes a file reads a table in which every code point is set: the
\* flags on which main waits (main.c:1761-1765), each set by another thread
\* without the mutex, do order all parsing before all dumping.
DumpsSeeWholeTable ==
  \A p \in Proc : pc[p] \in {"open", "write"} => Whole

\* A run that ends with EXIT_SUCCESS left for each category a file in the right
\* directory, with the code points the table has: no failed open or write, and no
\* directory made of the program's own path (main.c:838), goes by unseen.  A file that
\* is not whole lost its end where nobody looks, in fclose (main.c:2042).
SuccessIsComplete ==
  status = "success" =>
    /\ Whole
    /\ out_dir \in {"asked", "dir"}
    /\ \A c \in ToSet(Cats) : files[c] \in {FileOf(c), CutFile}

\* A run that makes tables of less than the whole UnicodeData.txt has it from a cache
\* that an earlier run wrote in part: one that was killed, that failed, or that did not
\* look at what fclose returned (main.c:998).  The run that loses the end of the cache
\* itself works on the whole text, and an error page makes no tables.
CutByAnEarlierRun ==
  status = "success" /\ lines # UnicodeData => torn \in 1 .. runs - 1

\* A task is in one place: to be enqueued, in the queue, or with one process;
\* when its flag is set it is nowhere but with the one that set it.
TaskInOnePlace ==
  /\ \A t \in Tasks :
       /\ Cardinality({k \in DOMAIN task_queue : task_queue[k] = t})
          + Cardinality({k \in DOMAIN to_enqueue : to_enqueue[k] = t})
          + Cardinality(Doing(t)) <= 1
       /\ t \in finished => /\ t \notin ToSet(task_queue) \cup ToSet(to_enqueue)
                            /\ \A p \in Doing(t) : pc[p] = "broadcast"

\* thread_pool_destroy frees an empty queue in every run whose file could be
\* parsed: when main exits, all it enqueued is done, even when one of the first
\* files failed (main.c:558-565).
PoolEndsIdle ==
  exiting = Main /\ lines = UnicodeData =>
    /\ \A i \in 0 .. thread_count - 1 : Parse(i) \in finished
    /\ \A c \in ToSet(Cats) : Dump(c) \in finished

\* Where a thread misreads the file: inside a range that began before its chunk, and
\* in a chunk that begins with a range, when the thread comes from a later one.
Misread(i, cp) ==
  LET first == ChunkFirst(thread_count, i) IN
  \/ Inside(lines, cp) \cap Inside(lines, first) # {}
  \/ /\ i \in 1 .. thread_count - 2
     /\ \E k \in DOMAIN lines : lines[k].mark = "first" /\ lines[k].cp = first

\* The table has for each code point the category that UnicodeData.txt gives it:
\* what a thread keeps from one code point, and from one chunk, to the next never
\* makes another answer of it, but where the file is misread (main.c:1448).
TableIsRight ==
  lines = UnicodeData =>
    \A i \in 0 .. thread_count - 1 : \A cp \in Chunk(thread_count, i) :
      \/ table[cp] \in {"unset", CategoryFromString(CategoryOf(lines, cp))}
      \/ Misread(i, cp)

\* What was enqueued is done, once, and in order: a file after all of the table.
TasksAreDone == TypeOK /\ TaskInOnePlace /\ DumpsSeeWholeTable /\ PoolEndsIdle

\* What a success leaves behind is all that was asked for, from all there is, and is
\* what the file says, but for what is lost in the two calls of fclose.
OutputIsComplete == SuccessIsComplete /\ CutByAnEarlierRun /\ TableIsRight

\* Main sleeps for a flag that was set and announced between its look at the
\* flag and its sleep (main.c:2288 against 2199), and nobody is left to announce
\* anything.
MissedWakeUp ==
  /\ Main \in waiting
  /\ Head(to_wait) \in finished
  /\ task_queue = <<>> /\ \A w \in Worker : pc[w] = "idle"

\* Every run ends, with success or an error, but for the wake-up that main can
\* miss: no join, no mutex and no other sleep of the pool lasts for ever.
RunEnds == <>[](status # "running" \/ MissedWakeUp)

=============================================================================
