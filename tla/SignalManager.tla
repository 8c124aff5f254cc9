---------------------------- MODULE SignalManager ----------------------------
(***************************************************************************)
(* sigmgr: which signals the process manages, by a handler of the user or  *)
(* by lists of callbacks, and the one thread that receives them.           *)
(*                                                                         *)
(* Every operation holds managed_mutex from start to end, so an operation  *)
(* is one step.  The handler is not: the kernel starts it without a lock,  *)
(* it then locks, calls its callbacks one by one and unlocks.  A signal is *)
(* blocked while its own handler runs, other signals are not: their        *)
(* handlers run on top, in the same thread.  The mutexes are held iff some *)
(* handler is "calling".  Only signaled_thread has the signals unmasked.   *)
(*                                                                         *)
(* A client is named by its id; it uses a callback_id_t until it           *)
(* unregisters or resets it.  Callbacks are numbered as they are           *)
(* registered, and do not call the manager.                                *)
(***************************************************************************)
EXTENDS Naturals, Sequences, SequencesExt

CONSTANTS
  Signal,         \* the signals in use
  Id,             \* the ids clients register under
  MaxCallbacks,   \* bound on the callbacks registered
  MaxSent         \* bound on the signals sent to the process

ASSUME SignalAssumption == MaxCallbacks \in Nat /\ MaxSent \in Nat

VARIABLES
  managed,           \* managed[s]: the management_type of s
  signal_handlers,   \* the signals with a handler of the user
  signal_callbacks,  \* signal_callbacks[s]: the client_callbacks of s, in order
  installed,         \* the signals whose disposition is not SIG_DFL
  pending,           \* the signals sent and not delivered yet
  unmasked,          \* signaled_thread has unmasked the signals
  frames,            \* the handlers on the stack of signaled_thread
  fate,              \* what became of the process
  registered,        \* how many callbacks were registered so far
  sent,              \* how many signals were sent so far
  uninstalled,       \* signals uninstalled while their handler was starting
  orphaned           \* signals reset by one client under another's callbacks

tables == <<managed, signal_handlers, signal_callbacks, installed, registered,
            uninstalled, orphaned>>
vars == <<tables, pending, unmasked, frames, fate, sent>>

Init ==
  /\ managed = [s \in Signal |-> "DEFAULT"]
  /\ signal_handlers = {}
  /\ signal_callbacks = [s \in Signal |-> <<>>]
  /\ installed = {}
  /\ pending = {}
  /\ unmasked = FALSE
  /\ frames = <<>>
  /\ fate = "running"
  /\ registered = 0
  /\ sent = 0
  /\ uninstalled = {}
  /\ orphaned = {}

-----------------------------------------------------------------------------
(* The tables *)

Entries(s) == ToSet(signal_callbacks[s])
IdsOf(s) == {e.id : e \in Entries(s)}
Position(s, id) == CHOOSE i \in DOMAIN signal_callbacks[s] : signal_callbacks[s][i].id = id

\* What call_client_callbacks goes through.
CallbacksOf(s) ==
  FlattenSeq([i \in DOMAIN signal_callbacks[s] |-> signal_callbacks[s][i].callbacks])

\* The handlers the kernel started which do not hold the mutexes yet.
Starting == {frames[i].sig : i \in {j \in DOMAIN frames : frames[j].at = "locking"}}

Locked == \E i \in DOMAIN frames : frames[i].at = "calling"

\* Faulty variant: an operation that does not lock.
OperationUnlocked ==
  /\ fate = "running"
  /\ UNCHANGED <<pending, unmasked, frames, fate, sent>>

\* What every operation of a client begins with.
Operation ==
  /\ fate = "running"
  /\ ~Locked
  /\ UNCHANGED <<pending, unmasked, frames, fate, sent>>

-----------------------------------------------------------------------------
(* Operations of clients.  A call that changes nothing (the signal has a    *)
(* handler of the user, the id has no entry) is left out.                   *)

Uninstall(S) ==
  /\ managed' = [s \in Signal |-> IF s \in S THEN "DEFAULT" ELSE managed[s]]
  /\ signal_handlers' = signal_handlers \ S
  /\ installed' = installed \ S
  /\ uninstalled' = uninstalled \cup (S \cap Starting)

\* A signal has at most one entry of an id.
Erased(s, id) ==
  IF id \in IdsOf(s) THEN RemoveAt(signal_callbacks[s], Position(s, id))
  ELSE signal_callbacks[s]

Added(s, id, c) ==
  IF id \in IdsOf(s)
  THEN [signal_callbacks[s] EXCEPT ![Position(s, id)].callbacks = Append(@, c)]
  ELSE Append(signal_callbacks[s], [id |-> id, callbacks |-> <<c>>])

RegisterCallback(s, id) ==
  /\ Operation
  /\ registered < MaxCallbacks
  /\ managed[s] # "USERDEFINED"
  /\ managed' = [managed EXCEPT ![s] = "CALLBACKS"]
  /\ installed' = installed \cup {s}
  /\ registered' = registered + 1
  /\ signal_callbacks' = [signal_callbacks EXCEPT ![s] = Added(s, id, registered')]
  /\ orphaned' = orphaned \ {s}
  /\ UNCHANGED <<signal_handlers, uninstalled>>

\* What is left of the entries when callback k of entry i is erased.
Unregistered(list, i, k) ==
  LET left == RemoveAt(list[i].callbacks, k) IN
  IF left = <<>> THEN RemoveAt(list, i) ELSE [list EXCEPT ![i].callbacks = left]

UnregisterCallback(s, i, k) ==
  /\ Operation
  /\ signal_callbacks' = [signal_callbacks EXCEPT ![s] = Unregistered(@, i, k)]
  /\ Uninstall({r \in {s} : signal_callbacks'[s] = <<>>})
  /\ UNCHANGED <<registered, orphaned>>

\* reset_callbacks(sig, id): the others' callbacks stay in the table, but the
\* signal is no longer managed.
ResetSignal(s, id) ==
  /\ Operation
  /\ id \in IdsOf(s)
  /\ signal_callbacks' = [signal_callbacks EXCEPT ![s] = Erased(s, id)]
  /\ Uninstall({s})
  /\ orphaned' = IF Erased(s, id) = <<>> THEN orphaned ELSE orphaned \cup {s}
  /\ UNCHANGED registered

\* Faulty variant of the next: every signal of the id is uninstalled.
ResetIdUninstalls(id) ==
  LET S == {s \in Signal : id \in IdsOf(s)} IN
  /\ Operation
  /\ S # {}
  /\ signal_callbacks' = [s \in Signal |-> Erased(s, id)]
  /\ Uninstall(S)
  /\ UNCHANGED <<registered, orphaned>>

\* reset_callbacks(id)
ResetId(id) ==
  LET S == {s \in Signal : id \in IdsOf(s)} IN
  /\ Operation
  /\ S # {}
  /\ signal_callbacks' = [s \in Signal |-> Erased(s, id)]
  /\ Uninstall({s \in S : Erased(s, id) = <<>>})
  /\ UNCHANGED <<registered, orphaned>>

SetSignalHandler(s) ==
  /\ Operation
  /\ managed[s] = "DEFAULT"
  /\ managed' = [managed EXCEPT ![s] = "USERDEFINED"]
  /\ signal_handlers' = signal_handlers \cup {s}
  /\ installed' = installed \cup {s}
  /\ UNCHANGED <<signal_callbacks, registered, uninstalled, orphaned>>

RemoveSignalHandler(s) ==
  /\ Operation
  /\ managed[s] = "USERDEFINED"
  /\ Uninstall({s})
  /\ UNCHANGED <<signal_callbacks, registered, orphaned>>

-----------------------------------------------------------------------------
(* The kernel and signaled_thread.                                          *)

Send(s) ==
  /\ fate = "running"
  /\ sent < MaxSent
  /\ sent' = sent + 1
  /\ pending' = pending \cup {s}
  /\ UNCHANGED <<tables, unmasked, frames, fate>>

UnmaskAllSignals ==
  /\ ~unmasked
  /\ unmasked' = TRUE
  /\ UNCHANGED <<tables, pending, frames, fate, sent>>

\* SIG_DFL ends the process (for most signals).  The handler interrupts pause
\* or the handler of another signal, wherever that one is.
Deliver(s) ==
  /\ fate = "running" /\ unmasked
  /\ s \in pending
  /\ \A i \in DOMAIN frames : frames[i].sig # s
  /\ pending' = pending \ {s}
  /\ IF s \in installed
     THEN /\ frames' = Append(frames, [sig |-> s, at |-> "locking", called |-> <<>>, due |-> <<>>])
          /\ UNCHANGED fate
     ELSE /\ fate' = "killed"
          /\ UNCHANGED frames
  /\ UNCHANGED <<tables, unmasked, sent>>

Top == Last(frames)
InTop(step) == fate = "running" /\ frames # <<>> /\ Top.at = step

\* What the handler walks through is the table itself, not a copy of it; 0
\* stands for the handler of the user.
Walked(f) ==
  IF managed[f.sig] = "CALLBACKS" THEN CallbacksOf(f.sig)
  ELSE IF f.sig \in signal_handlers THEN <<0>> ELSE <<>>

\* generic_handler locks and looks up how the signal is managed.
Enter ==
  /\ InTop("locking")
  /\ ~Locked
  /\ IF managed[Top.sig] = "DEFAULT"
     THEN /\ fate' = "terminated"
          /\ UNCHANGED <<frames, uninstalled>>
     ELSE /\ frames' = [frames EXCEPT ![Len(frames)] =
                            [@ EXCEPT !.at = "calling", !.due = Walked(Top)]]
          /\ uninstalled' = uninstalled \ {Top.sig}
          /\ UNCHANGED fate
  /\ UNCHANGED <<managed, signal_handlers, signal_callbacks, installed, registered,
                 orphaned, pending, unmasked, sent>>

\* Faulty variant of the next: the iterator is not advanced.
CallStays ==
  /\ InTop("calling")
  /\ Len(Top.called) < Len(Walked(Top))
  /\ UNCHANGED vars

Call ==
  /\ InTop("calling")
  /\ Len(Top.called) < Len(Walked(Top))
  /\ frames' = [frames EXCEPT ![Len(frames)].called =
       Append(@, Walked(Top)[Len(@) + 1])]
  /\ UNCHANGED <<tables, pending, unmasked, fate, sent>>

\* Faulty variant: the handler stops before the last callback.
ReturnEarly ==
  /\ InTop("calling")
  /\ Len(Top.called) + 1 >= Len(Walked(Top))
  /\ frames' = Front(frames)
  /\ UNCHANGED <<tables, pending, unmasked, fate, sent>>

Return ==
  /\ InTop("calling")
  /\ Len(Top.called) >= Len(Walked(Top))
  /\ frames' = Front(frames)
  /\ UNCHANGED <<tables, pending, unmasked, fate, sent>>

-----------------------------------------------------------------------------
Next ==
  \/ \E s \in Signal :
       \/ \E id \in Id : RegisterCallback(s, id) \/ ResetSignal(s, id)
       \/ \E i \in DOMAIN signal_callbacks[s] :
            \E k \in DOMAIN signal_callbacks[s][i].callbacks : UnregisterCallback(s, i, k)
       \/ SetSignalHandler(s)
       \/ RemoveSignalHandler(s)
       \/ Send(s)
       \/ Deliver(s)
  \/ \E id \in Id : ResetId(id)
  \/ UnmaskAllSignals
  \/ Enter
  \/ Call
  \/ Return

Spec == Init /\ [][Next]_vars

\* signaled_thread is scheduled, the kernel delivers what it can.
FairSpec ==
  /\ Spec
  /\ WF_vars(UnmaskAllSignals)
  /\ \A s \in Signal : WF_vars(Deliver(s))
  /\ WF_vars(Enter) /\ WF_vars(Call) /\ WF_vars(Return)

-----------------------------------------------------------------------------
(* Properties *)

\* Every variable holds a value of its type.
TypeOK ==
  /\ managed \in [Signal -> {"DEFAULT", "USERDEFINED", "CALLBACKS"}]
  /\ signal_handlers \subseteq Signal /\ installed \subseteq Signal
  /\ pending \subseteq Signal
  /\ uninstalled \subseteq Signal /\ orphaned \subseteq Signal
  /\ registered \in 0 .. MaxCallbacks /\ sent \in 0 .. MaxSent
  /\ unmasked \in BOOLEAN
  /\ fate \in {"running", "killed", "terminated"}
  /\ \A s \in Signal : \A e \in Entries(s) :
       e.id \in Id /\ e.callbacks # <<>> /\ ToSet(e.callbacks) \subseteq 1 .. registered
  /\ \A i \in DOMAIN frames : frames[i].sig \in Signal /\ frames[i].at \in {"locking", "calling"}

\* The three records of how a signal is managed agree: the kernel has the
\* handler iff the signal is managed, the user's handler is stored iff the
\* signal is the user's, and a signal with callbacks as its manager has some.
RecordsAgree ==
  \A s \in Signal :
    /\ s \in installed <=> managed[s] # "DEFAULT"
    /\ s \in signal_handlers <=> managed[s] = "USERDEFINED"
    /\ managed[s] = "CALLBACKS" => Entries(s) # {}

\* A registered callback is called when its signal arrives: its signal is
\* managed by callbacks, unless reset_callbacks(sig, id) took that from another
\* client.
CallbacksAreLive ==
  \A s \in Signal : Entries(s) # {} => managed[s] = "CALLBACKS" \/ s \in orphaned

\* A client has at most one entry for a signal (the "Shall not happen" of
\* register_callback).
OneEntryPerId ==
  \A s \in Signal : \A i, j \in DOMAIN signal_callbacks[s] :
    signal_callbacks[s][i].id = signal_callbacks[s][j].id => i = j

\* generic_handler finds a signal in DEFAULT ("Shall not be called") only when
\* the signal was uninstalled after the kernel had started the handler.
DefaultOnlyAfterUninstall ==
  \A s \in Starting : managed[s] = "DEFAULT" => s \in uninstalled

\* The tables, the kernel and the callbacks agree after every operation, also in
\* the eyes of a handler that has just started.
TablesAgree ==
  TypeOK /\ RecordsAgree /\ CallbacksAreLive /\ OneEntryPerId /\ DefaultOnlyAfterUninstall

\* While a handler walks through the callbacks nobody changes them: it has
\* called a prefix of what was registered when it locked, in that order.
WalkIsStable ==
  \A i \in DOMAIN frames : frames[i].at = "calling" =>
    /\ Walked(frames[i]) = frames[i].due
    /\ IsPrefix(frames[i].called, frames[i].due)

\* A handler calls all of them before it returns.
AllAreCalled ==
  [][Len(frames') < Len(frames) => Top.called = Top.due]_vars

\* The handler of one signal waits for the mutexes its own thread holds in the
\* handler of another one.
SelfDeadlock == \E i \in DOMAIN frames : frames[i].at = "calling" /\ i < Len(frames)

\* A signal that arrives is handled to the end, unless the process ends or a
\* second signal interrupts a handler that holds the mutexes.
HandlersEnd ==
  \A s \in Signal : s \in pending ~>
    \/ frames = <<>> /\ s \notin pending
    \/ fate # "running"
    \/ SelfDeadlock
=============================================================================
