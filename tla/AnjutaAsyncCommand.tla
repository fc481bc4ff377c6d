------------------------- MODULE AnjutaAsyncCommand -------------------------
(***************************************************************************)
(* One AnjutaAsyncCommand from anjuta_command_start to finalize            *)
(* (libanjuta/anjuta-async-command.c over libanjuta/anjuta-command.c).     *)
(*                                                                         *)
(* Two threads share the private fields of the command:                    *)
(*   - the "AnjutaCommand Thread" runs ::run, which produces items and     *)
(*     progress values and announces them with the notify_* methods;       *)
(*   - the main loop polls the same fields from an idle source and turns   *)
(*     them into the signals data-arrived, progress and command-finished.  *)
(* Each read or write of a shared field is a step of its own.  The fields  *)
(* are plain variables that no lock protects, so the two stores of one     *)
(* notify_* method may become visible in either order.                     *)
(*                                                                         *)
(* ::run is modelled by the pattern every subclass follows, for instance   *)
(* svn_command_push_info (svn-command.c) and git_log_data_command_run:     *)
(* lock, push one item on the output queue, unlock, notify; and, when it   *)
(* fails, svn_command_set_error before it returns a nonzero code.          *)
(***************************************************************************)
EXTENDS Integers, Sequences

CONSTANTS
    MaxItems,     \* bound: items one run may push on the output queue
    MaxProgress,  \* bound: progress values one run may report
    Codes         \* return codes of ::run; 0 is success

ASSUME ConstantsAssumption ==
    /\ MaxItems \in Nat
    /\ MaxProgress \in Nat
    /\ Codes \subseteq Nat
    /\ 0 \in Codes

VARIABLES
    \* fields of AnjutaAsyncCommandPriv
    mutex,             \* who holds priv->mutex
    complete,          \* priv->complete
    return_code,       \* priv->return_code
    new_data_arrived,  \* priv->new_data_arrived
    progress_changed,  \* priv->progress_changed
    progress,          \* priv->progress, in reports made so far
    \* fields of AnjutaCommandPriv
    running,           \* priv->running
    error_message,     \* priv->error_message is set
    \* the object and the idle source
    refs,              \* who holds a reference; the object is freed at {}
    polling,           \* the idle source is attached to the main loop
    \* control of the two threads
    wpc,               \* worker thread
    stores,            \* stores of the current notify_* method still to do
    ppc,               \* notification_poll
    \* data that crosses the threads
    output,            \* the subclass's output queue
    pushed,            \* items ::run has pushed so far
    reported,          \* progress values ::run has reported so far
    result,            \* the code ::run returned
    \* what the client's signal handlers have seen
    client,            \* the signal on which the client drains the output
    received,          \* items taken from the output queue
    shown,             \* values carried by the progress signals
    finished           \* codes carried by the command-finished signals

priv   == <<mutex, complete, return_code, new_data_arrived,
            progress_changed, progress>>
object == <<running, error_message, refs, polling>>
worker == <<wpc, stores, pushed, reported, result>>
seen   == <<received, shown, finished>>
vars   == <<priv, object, worker, ppc, output, client, seen>>

Freed == refs = {}

\* The items ::run pushes, numbered in the order it pushes them.
Item == Nat \ {0}

WorkerPCs == {"none", "run", "push", "unlock", "notify", "progress",
              "error", "unlock_error", "return", "complete", "unref", "done"}

PollPCs == {"idle", "data", "trylock", "emit_data", "unlock", "clear_data",
            "progress", "emit_progress", "clear_progress", "complete",
            "finish"}

Init ==
    /\ mutex = "free"
    /\ complete = FALSE
    /\ return_code = 0
    /\ new_data_arrived = FALSE
    /\ progress_changed = FALSE
    /\ progress = 0
    /\ running = FALSE
    /\ error_message = FALSE
    /\ refs = {"client"}
    /\ polling = FALSE
    /\ wpc = "none"
    /\ stores = {}
    /\ ppc = "idle"
    /\ output = <<>>
    /\ pushed = 0
    /\ reported = 0
    /\ result = 0
    /\ client \in {"data-arrived", "command-finished"}
    /\ received = <<>>
    /\ shown = <<>>
    /\ finished = <<>>

-----------------------------------------------------------------------------
(* Defective variants of some actions.  No specification uses them: each is *)
(* put in the place of the action it varies to show that a property of this *)
(* module detects the defect.                                               *)

\* start_command without g_object_ref
StartWithoutRef ==
    /\ wpc = "none"
    /\ ~running
    /\ running' = TRUE
    /\ polling' = TRUE
    /\ wpc' = "run"
    /\ UNCHANGED <<priv, refs, error_message, stores, pushed, reported, result,
                   ppc, output, client, seen>>

\* g_queue_push_head instead of g_queue_push_tail
PushHead ==
    /\ wpc = "push"
    /\ pushed' = pushed + 1
    /\ output' = <<pushed + 1>> \o output
    /\ wpc' = "unlock"
    /\ UNCHANGED <<priv, object, stores, reported, result, ppc, client, seen>>

\* a failing ::run that sets no error message
ReturnWithoutMessage ==
    /\ wpc = "run"
    /\ result' \in Codes
    /\ wpc' = "return"
    /\ UNCHANGED <<priv, object, stores, pushed, reported, ppc, output,
                   client, seen>>

\* the thread function without g_object_unref
ThreadKeepsRef ==
    /\ wpc = "unref"
    /\ wpc' = "done"
    /\ UNCHANGED <<priv, object, stores, pushed, reported, result, ppc, output,
                   client, seen>>

\* data-arrived emitted without the mutex
PollWithoutLock ==
    /\ ppc = "trylock"
    /\ ppc' = "emit_data"
    /\ UNCHANGED <<priv, object, worker, output, client, seen>>

\* a data-arrived handler that looks at what it popped only after using it:
\* g_queue_pop_head of an empty queue is NULL, here 0
PollEmitDataUnchecked ==
    /\ ppc = "emit_data"
    /\ IF client = "data-arrived"
       THEN /\ received' = Append(received,
                                  IF output = <<>> THEN 0 ELSE Head(output))
            /\ output' = IF output = <<>> THEN <<>> ELSE Tail(output)
            /\ ppc' = IF output = <<>> THEN "unlock" ELSE ppc
       ELSE /\ ppc' = "unlock"
            /\ UNCHANGED <<received, output>>
    /\ UNCHANGED <<priv, object, worker, client, shown, finished>>

\* data-arrived emitted, and the mutex never released
PollKeepsLock ==
    /\ ppc = "unlock"
    /\ ppc' = "clear_data"
    /\ UNCHANGED <<priv, object, worker, output, client, seen>>

\* command-finished emitted, and the source kept
PollReturnsTrue ==
    /\ ppc = "finish"
    /\ finished' = Append(finished, return_code)
    /\ running' = FALSE
    /\ refs' = refs \ {"client"}
    /\ ppc' = "idle"
    /\ UNCHANGED <<priv, error_message, polling, worker, output, client,
                   received, shown>>

-----------------------------------------------------------------------------
(* anjuta_command_start, called by the client on the main loop.            *)

\* command-started sets running, then start_command attaches the idle source
\* and creates the thread with a reference of its own.  A client starts a
\* command once: it drops the command when it finishes.
Start ==
    /\ wpc = "none"
    /\ ~running
    /\ running' = TRUE
    /\ polling' = TRUE
    /\ refs' = refs \cup {"thread"}
    /\ wpc' = "run"
    /\ UNCHANGED <<priv, error_message, stores, pushed, reported, result,
                   ppc, output, client, seen>>

-----------------------------------------------------------------------------
(* The worker thread: ::run and the notify_* methods it calls.             *)

\* anjuta_async_command_lock before a push
Lock ==
    /\ wpc = "run"
    /\ pushed < MaxItems
    /\ mutex = "free"
    /\ mutex' = "worker"
    /\ wpc' = "push"
    /\ UNCHANGED <<complete, return_code, new_data_arrived, progress_changed,
                   progress, object, stores, pushed, reported, result, ppc,
                   output, client, seen>>

Push ==
    /\ wpc = "push"
    /\ pushed' = pushed + 1
    /\ output' = Append(output, pushed + 1)
    /\ wpc' = "unlock"
    /\ UNCHANGED <<priv, object, stores, reported, result, ppc, client, seen>>

Unlock ==
    /\ wpc = "unlock"
    /\ mutex' = "free"
    /\ wpc' = "notify"
    /\ UNCHANGED <<complete, return_code, new_data_arrived, progress_changed,
                   progress, object, stores, pushed, reported, result, ppc,
                   output, client, seen>>

NotifyDataArrived ==
    /\ wpc = "notify"
    /\ new_data_arrived' = TRUE
    /\ wpc' = "run"
    /\ UNCHANGED <<mutex, complete, return_code, progress_changed, progress,
                   object, stores, pushed, reported, result, ppc, output,
                   client, seen>>

\* ::run calls anjuta_command_notify_progress
CallNotifyProgress ==
    /\ wpc = "run"
    /\ reported < MaxProgress
    /\ reported' = reported + 1
    /\ stores' = {"progress_changed", "progress"}
    /\ wpc' = "progress"
    /\ UNCHANGED <<priv, object, pushed, result, ppc, output, client, seen>>

\* one of the two stores of notify_progress
NotifyProgress ==
    /\ wpc = "progress"
    /\ \E s \in stores :
        /\ stores' = stores \ {s}
        /\ progress_changed' = (progress_changed \/ s = "progress_changed")
        /\ progress' = IF s = "progress" THEN reported ELSE progress
        /\ wpc' = IF stores = {s} THEN "run" ELSE "progress"
    /\ UNCHANGED <<mutex, complete, return_code, new_data_arrived, object,
                   pushed, reported, result, ppc, output, client, seen>>

\* ::run ends: on failure it first sets the error message under the lock
Return ==
    /\ wpc = "run"
    /\ \E c \in Codes :
        /\ result' = c
        /\ wpc' = IF c = 0 THEN "return" ELSE "error"
    /\ UNCHANGED <<priv, object, stores, pushed, reported, ppc, output,
                   client, seen>>

SetErrorMessage ==
    /\ wpc = "error"
    /\ mutex = "free"
    /\ mutex' = "worker"
    /\ error_message' = TRUE
    /\ wpc' = "unlock_error"
    /\ UNCHANGED <<complete, return_code, new_data_arrived, progress_changed,
                   progress, running, refs, polling, stores, pushed, reported,
                   result, ppc, output, client, seen>>

UnlockError ==
    /\ wpc = "unlock_error"
    /\ mutex' = "free"
    /\ wpc' = "return"
    /\ UNCHANGED <<complete, return_code, new_data_arrived, progress_changed,
                   progress, object, stores, pushed, reported, result, ppc,
                   output, client, seen>>

\* the thread function calls anjuta_command_notify_complete
CallNotifyComplete ==
    /\ wpc = "return"
    /\ stores' = {"complete", "return_code"}
    /\ wpc' = "complete"
    /\ UNCHANGED <<priv, object, pushed, reported, result, ppc, output,
                   client, seen>>

\* one of the two stores of notify_complete
NotifyComplete ==
    /\ wpc = "complete"
    /\ \E s \in stores :
        /\ stores' = stores \ {s}
        /\ complete' = (complete \/ s = "complete")
        /\ return_code' = IF s = "return_code" THEN result ELSE return_code
        /\ wpc' = IF stores = {s} THEN "unref" ELSE "complete"
    /\ UNCHANGED <<mutex, new_data_arrived, progress_changed, progress, object,
                   pushed, reported, result, ppc, output, client, seen>>

\* g_object_unref; the last reference finalizes, which removes the source
ThreadUnref ==
    /\ wpc = "unref"
    /\ refs' = refs \ {"thread"}
    /\ polling' = (polling /\ refs' # {})
    /\ wpc' = "done"
    /\ UNCHANGED <<priv, running, error_message, stores, pushed, reported,
                   result, ppc, output, client, seen>>

-----------------------------------------------------------------------------
(* anjuta_async_command_notification_poll, dispatched by the main loop.    *)

Poll ==
    /\ ppc = "idle"
    /\ polling
    /\ ppc' = "data"
    /\ UNCHANGED <<priv, object, worker, output, client, seen>>

PollData ==
    /\ ppc = "data"
    /\ ppc' = IF new_data_arrived THEN "trylock" ELSE "progress"
    /\ UNCHANGED <<priv, object, worker, output, client, seen>>

\* g_mutex_trylock: the poll gives up when the worker holds the mutex
PollTrylock ==
    /\ ppc = "trylock"
    /\ \/ /\ mutex = "free"
          /\ mutex' = "main"
          /\ ppc' = "emit_data"
       \/ /\ mutex # "free"
          /\ mutex' = mutex
          /\ ppc' = "progress"
    /\ UNCHANGED <<complete, return_code, new_data_arrived, progress_changed,
                   progress, object, worker, output, client, seen>>

\* the client's data-arrived handler pops the output queue until it is empty
PollEmitData ==
    /\ ppc = "emit_data"
    /\ IF client = "data-arrived" /\ output # <<>>
       THEN /\ received' = Append(received, Head(output))
            /\ output' = Tail(output)
            /\ ppc' = ppc
       ELSE /\ ppc' = "unlock"
            /\ UNCHANGED <<received, output>>
    /\ UNCHANGED <<priv, object, worker, client, shown, finished>>

PollUnlock ==
    /\ ppc = "unlock"
    /\ mutex' = "free"
    /\ ppc' = "clear_data"
    /\ UNCHANGED <<complete, return_code, new_data_arrived, progress_changed,
                   progress, object, worker, output, client, seen>>

PollClearData ==
    /\ ppc = "clear_data"
    /\ new_data_arrived' = FALSE
    /\ ppc' = "progress"
    /\ UNCHANGED <<mutex, complete, return_code, progress_changed, progress,
                   object, worker, output, client, seen>>

PollProgress ==
    /\ ppc = "progress"
    /\ ppc' = IF progress_changed THEN "emit_progress" ELSE "complete"
    /\ UNCHANGED <<priv, object, worker, output, client, seen>>

PollEmitProgress ==
    /\ ppc = "emit_progress"
    /\ shown' = Append(shown, progress)
    /\ ppc' = "clear_progress"
    /\ UNCHANGED <<priv, object, worker, output, client, received, finished>>

PollClearProgress ==
    /\ ppc = "clear_progress"
    /\ progress_changed' = FALSE
    /\ ppc' = "complete"
    /\ UNCHANGED <<mutex, complete, return_code, new_data_arrived, progress,
                   object, worker, output, client, seen>>

PollComplete ==
    /\ ppc = "complete"
    /\ ppc' = IF complete THEN "finish" ELSE "idle"
    /\ UNCHANGED <<priv, object, worker, output, client, seen>>

\* command-finished: the class handler clears running, the client's handler
\* drains the output when it is that kind of client (svn log) and drops its
\* reference; the source is removed because the poll returns FALSE
PollFinish ==
    /\ ppc = "finish"
    /\ finished' = Append(finished, return_code)
    /\ running' = FALSE
    /\ IF client = "command-finished"
       THEN received' = received \o output /\ output' = <<>>
       ELSE UNCHANGED <<received, output>>
    /\ refs' = refs \ {"client"}
    /\ polling' = FALSE
    /\ ppc' = "idle"
    /\ UNCHANGED <<priv, error_message, worker, client, shown>>

-----------------------------------------------------------------------------
Worker ==
    \/ Lock \/ Push \/ Unlock \/ NotifyDataArrived
    \/ CallNotifyProgress \/ NotifyProgress
    \/ Return \/ SetErrorMessage \/ UnlockError
    \/ CallNotifyComplete \/ NotifyComplete \/ ThreadUnref

NotificationPoll ==
    \/ Poll \/ PollData \/ PollTrylock \/ PollEmitData \/ PollUnlock
    \/ PollClearData \/ PollProgress \/ PollEmitProgress
    \/ PollClearProgress \/ PollComplete \/ PollFinish

Next == Start \/ Worker \/ NotificationPoll

Spec == Init /\ [][Next]_vars

\* The client starts the command, the kernel runs the thread, ::run returns
\* (its items are bounded), and the main loop keeps dispatching idle sources.
FairSpec ==
    /\ Spec
    /\ WF_vars(Start)
    /\ WF_vars(Worker)
    /\ WF_vars(NotificationPoll)

-----------------------------------------------------------------------------
(* Properties                                                              *)

\* Types and ranges; in particular all the client takes are items, although
\* data-arrived may find the output queue empty (the flag is cleared after the
\* unlock): it never handles the NULL that g_queue_pop_head returns then.
TypeOK ==
    /\ mutex \in {"free", "worker", "main"}
    /\ complete \in BOOLEAN
    /\ return_code \in Codes
    /\ new_data_arrived \in BOOLEAN
    /\ progress_changed \in BOOLEAN
    /\ progress \in Nat
    /\ running \in BOOLEAN
    /\ error_message \in BOOLEAN
    /\ refs \subseteq {"client", "thread"}
    /\ polling \in BOOLEAN
    /\ wpc \in WorkerPCs
    /\ stores \subseteq {"progress_changed", "progress", "complete",
                         "return_code"}
    /\ ppc \in PollPCs
    /\ output \in Seq(Item)
    /\ pushed \in Nat
    /\ reported \in Nat
    /\ result \in Codes
    /\ client \in {"data-arrived", "command-finished"}
    /\ received \in Seq(Item)
    /\ shown \in Seq(Nat)
    /\ finished \in Seq(Codes)

\* Neither thread touches the private fields after finalize has freed them:
\* while the worker or the poll still has an access to make, and while the
\* idle source can still call the poll, somebody holds a reference.  The idle
\* source itself holds none (start_command passes the bare pointer).
NoUseAfterFree ==
    /\ wpc \notin {"none", "done"} => ~Freed
    /\ ppc # "idle" => ~Freed
    /\ polling => ~Freed

\* The handlers of data-arrived, which the poll emits with the mutex held,
\* never touch the output queue while ::run is pushing on it; nor do the
\* handlers of command-finished, which the poll emits without the mutex.
OutputExclusive ==
    wpc \in {"push", "unlock"} => ppc \notin {"emit_data", "unlock", "finish"}

\* command-finished is emitted at most once, and never before ::run has
\* returned, so that no item or progress value is produced after it; a client
\* told of a failure then finds an error message to report (report_errors hands
\* it to the error dialog without a check for NULL).
FinishedAfterRun ==
    /\ Len(finished) <= 1
    /\ finished # <<>> =>
           /\ wpc \in {"complete", "unref", "done"}
           /\ finished[1] # 0 => error_message

UpTo(n) == [i \in 1 .. n |-> i]

\* The client takes the items in the order ::run pushed them, none twice; what
\* it has not taken is still on the output queue.
ItemsInOrder == received \o output = UpTo(pushed)

\* command-finished is the last signal: no later step of the poll emits
\* data-arrived or progress on a command its client has dropped.
NothingAfterFinished ==
    [][finished # <<>> => UNCHANGED <<received, shown, finished>>]_vars

\* A command the client starts is eventually reported finished, which is when
\* the client drops it, and freed once the thread has dropped it too: no
\* notification blocks the thread for good, and none of the races on the
\* fields makes the poll miss complete.
EventuallyFreed == <>[]Freed

-----------------------------------------------------------------------------
(* What the comment of the signal promises, and a race breaks.               *)

\* anjuta-command.c: "@return_code: The return code of the finished commmand"
FinishedWithReturnCode == finished # <<>> => finished[1] = result
=============================================================================
