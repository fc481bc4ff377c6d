--------------------------- MODULE AnjutaLauncher ---------------------------
(***************************************************************************)
(* AnjutaLauncher (libanjuta/anjuta-launcher.c): one child process at a    *)
(* time, its two output pipes and its exit, turned into calls of the       *)
(* client's output callback and one child-exited signal.                   *)
(*                                                                         *)
(* The main loop dispatches the sources of the launcher, each whole        *)
(* callback as one action: the watches of the two pipes, the child watch   *)
(* and the completion timer.  The kernel runs the children beside it: a    *)
(* child writes, closes its outputs and exits at any moment, and processes *)
(* it has started may keep its outputs open after it.                      *)
(*                                                                         *)
(* The pty only carries password prompts, which are left out; so is the    *)
(* busy signal, which no plugin connects to.                               *)
(***************************************************************************)
EXTENDS Integers, Sequences

CONSTANTS
    MaxRuns,    \* bound: children the client forks; their pids are 1 .. MaxRuns
    MaxOutput,  \* bound: pieces of output a child writes
    Codes,      \* exit codes; 0 is success
    Daemon      \* a child may close both outputs long before it exits

ASSUME ConstantsAssumption ==
    /\ MaxRuns \in Nat
    /\ MaxOutput \in Nat
    /\ Codes \subseteq Nat
    /\ 0 \in Codes
    /\ Daemon \in BOOLEAN

Channel == {"stdout", "stderr"}
Pid == 1 .. MaxRuns
Unset == -1      \* child_status of a launcher that has no child

VARIABLES
    \* fields of AnjutaLauncherPriv
    busy,                  \* priv->busy
    child_pid,             \* priv->child_pid, 0 without a child
    is_done,               \* the channels whose stdout_is_done ... is set
    child_has_terminated,  \* priv->child_has_terminated
    child_status,          \* priv->child_status
    timeout,               \* the source of priv->completion_check_timeout
    terminate_on_exit,     \* priv->terminate_on_exit
    held,                  \* stdout_buffer, stderr_buffer: the incomplete line
    \* the object and its other sources in the main loop
    alive,                 \* the launcher has not been finalized
    aborted,               \* the program has died in the cleanup of a run
    watched,               \* channels with a watch on the current pipes
    child_watches,         \* pids with a child watch on this launcher
    \* the children
    forks,                 \* children forked so far
    proc,                  \* state of each process
    code,                  \* exit code of each process
    \* the pipes of the current run
    open,                  \* pipes some process can still write to
    written,               \* pieces of output written on each pipe
    due,                   \* pieces written before the child exited
    \* what the client has seen
    delivered,             \* pieces of this run handed to the callback
    exited                 \* the status of each child-exited, for each pid

flags    == <<busy, child_pid, is_done, child_has_terminated, child_status,
              timeout, terminate_on_exit, held>>
sources  == <<alive, aborted, watched, child_watches>>
children == <<forks, proc, code, open, written, due>>
seen     == <<delivered, exited>>
vars     == <<flags, sources, children, seen>>

None == [ch \in Channel |-> 0]

\* anjuta_launcher_initialize: every field of the run and every option
Initialize ==
    /\ busy' = FALSE
    /\ child_pid' = 0
    /\ is_done' = {}
    /\ child_has_terminated' = TRUE
    /\ child_status' = Unset
    /\ timeout' = "none"
    /\ terminate_on_exit' = FALSE
    /\ held' = None

Init ==
    /\ busy = FALSE
    /\ child_pid = 0
    /\ is_done = {}
    /\ child_has_terminated = TRUE
    /\ child_status = Unset
    /\ timeout = "none"
    /\ terminate_on_exit = FALSE
    /\ held = None
    /\ alive = TRUE
    /\ aborted = FALSE
    /\ watched = {}
    /\ child_watches = {}
    /\ forks = 0
    /\ proc = [p \in Pid |-> "none"]
    /\ code = [p \in Pid |-> 0]
    /\ open = {}
    /\ written = None
    /\ due = None
    /\ delivered = None
    /\ exited = [p \in Pid |-> <<>>]

-----------------------------------------------------------------------------
(* The children                                                            *)

\* A process writes to a pipe of the current run; a write on a pipe that the
\* launcher, or the end of the program, has shut down fails.
Write(ch) ==
    /\ busy
    /\ ~aborted
    /\ ch \in open
    /\ written["stdout"] + written["stderr"] < MaxOutput
    /\ written' = [written EXCEPT ![ch] = @ + 1]
    /\ UNCHANGED <<flags, sources, forks, proc, code, open, due, seen>>

\* The last process that can write to a pipe closes it.  An ordinary child
\* keeps one of its outputs until it exits.
CloseOutput(ch) ==
    /\ busy
    /\ ch \in open
    /\ open' = open \ {ch}
    /\ proc[child_pid] = "running" /\ ~Daemon => open' # {}
    /\ UNCHANGED <<flags, sources, forks, proc, code, written, due, seen>>

\* The child exits, by itself or killed (anjuta_launcher_reset); the outputs
\* in keep stay open in the processes it has started.
Exit(p) ==
    /\ proc[p] = "running"
    /\ proc' = [proc EXCEPT ![p] = "exited"]
    /\ \E c \in Codes : code' = [code EXCEPT ![p] = c]
    /\ IF busy /\ p = child_pid
       THEN /\ \E keep \in SUBSET open : open' = keep
            /\ due' = written
       ELSE UNCHANGED <<open, due>>
    /\ UNCHANGED <<flags, sources, forks, written, seen>>

-----------------------------------------------------------------------------
(* The callbacks of the main loop                                          *)

Unread(ch) == written[ch] - delivered[ch] - held[ch]

\* A source of the pipes or of the child is ready.
PipeReady(ch) ==
    /\ ch \in watched
    /\ Unread(ch) > 0 \/ ch \notin open
ChildReady(p) == p \in child_watches /\ proc[p] = "exited"

(* Defective variants of some definitions.  No specification uses them:     *)
(* each is put in the place of the one it varies to show that a property of *)
(* this module detects the defect.                                          *)

\* the incomplete line is kept and delivered as well
ScanWithoutCut(ch) ==
    /\ alive
    /\ PipeReady(ch)
    /\ delivered' = [delivered EXCEPT ![ch] = @ + held[ch] + Unread(ch)]
    /\ \E keep \in 0 .. held[ch] + Unread(ch) : held' = [held EXCEPT ![ch] = keep]
    /\ UNCHANGED <<busy, child_pid, is_done, child_has_terminated, child_status,
                   timeout, terminate_on_exit, sources, children, exited>>

\* the exit is not followed by anjuta_launcher_synchronize
ChildTerminatedQuietly(p) ==
    /\ alive
    /\ ChildReady(p)
    /\ child_watches' = child_watches \ {p}
    /\ proc' = [proc EXCEPT ![p] = "reaped"]
    /\ child_status' = code[p]
    /\ child_has_terminated' = TRUE
    /\ UNCHANGED <<busy, child_pid, is_done, timeout, terminate_on_exit, held,
                   alive, aborted, watched, forks, code, open, written, due,
                   seen>>

\* the status of the child is not saved
ChildTerminatedUnsaved(p) ==
    /\ alive
    /\ ChildReady(p)
    /\ child_watches' = child_watches \ {p}
    /\ proc' = [proc EXCEPT ![p] = "reaped"]
    /\ child_has_terminated' = TRUE
    /\ timeout' = IF is_done = Channel THEN "check"
                  ELSE IF terminate_on_exit THEN "exit" ELSE timeout
    /\ UNCHANGED <<busy, child_pid, is_done, child_status, terminate_on_exit,
                   held, alive, aborted, watched, forks, code, open, written,
                   due, seen>>

\* the incomplete lines are dropped
CleanupDropsLines ==
    /\ watched' = {}
    /\ UNCHANGED delivered
    /\ Initialize

\* dispose leaves the child watch of a running child
DisposeKeepsChildWatch ==
    /\ alive
    /\ alive' = FALSE
    /\ IF busy
       THEN /\ watched' = {}
            /\ delivered' = [ch \in Channel |-> delivered[ch] + held[ch]]
            /\ Initialize
       ELSE UNCHANGED <<flags, watched, delivered>>
    /\ UNCHANGED <<aborted, child_watches, children, exited>>

-----------------------------------------------------------------------------
\* anjuta_launcher_synchronize with the new values of its flags: a timer when
\* both pipes are closed, whether or not the child has exited; an idle source
\* when the child has exited and the client does not wait for the pipes
Synchronize(done, terminated) ==
    timeout' = IF done = Channel THEN "check"
               ELSE IF terminated /\ terminate_on_exit THEN "exit"
               ELSE timeout

\* anjuta_launcher_scan_output, anjuta_launcher_scan_error: all there is to
\* read goes to the callback except the last incomplete line, of keep pieces;
\* a closed pipe is done, and its watch ends
Scan(ch) ==
    /\ alive
    /\ PipeReady(ch)
    /\ \E keep \in 0 .. held[ch] + Unread(ch) :
        /\ delivered' = [delivered EXCEPT ![ch] = @ + held[ch] + Unread(ch) - keep]
        /\ held' = [held EXCEPT ![ch] = IF Unread(ch) > 0 THEN keep ELSE @]
        /\ Unread(ch) = 0 => keep = held[ch]
    /\ IF ch \in open
       THEN UNCHANGED <<is_done, watched, timeout>>
       ELSE /\ is_done' = is_done \cup {ch}
            /\ watched' = watched \ {ch}
            /\ Synchronize(is_done', child_has_terminated)
    /\ UNCHANGED <<busy, child_pid, child_has_terminated, child_status,
                   terminate_on_exit, alive, aborted, child_watches, children,
                   exited>>

\* anjuta_launcher_child_terminated; pid is not compared with child_pid
ChildTerminated(p) ==
    /\ alive
    /\ ChildReady(p)
    /\ child_watches' = child_watches \ {p}
    /\ proc' = [proc EXCEPT ![p] = "reaped"]
    /\ child_status' = code[p]
    /\ child_has_terminated' = TRUE
    /\ Synchronize(is_done, TRUE)
    /\ UNCHANGED <<busy, child_pid, is_done, terminate_on_exit, held, alive,
                   aborted, watched, forks, code, open, written, due, seen>>

\* anjuta_launcher_execution_done_cleanup up to anjuta_launcher_initialize:
\* the watches of the open pipes are removed, incomplete lines delivered
Cleanup ==
    /\ watched' = {}
    /\ delivered' = [ch \in Channel |-> delivered[ch] + held[ch]]
    /\ Initialize

\* The last lines of the cleanup of both outputs: in the block of stderr_buffer
\* it is stdout_buffer that is freed (line 981), and the block before has freed
\* it already when that output has an incomplete line as well.  What a second
\* free does is undefined: the program may survive it (the cleanup goes on), or
\* it ends there, before the launcher is idle and before child-exited, and the
\* client with it.
DoubleFreeAborts ==
    /\ \A ch \in Channel : held[ch] > 0
    /\ aborted' = TRUE
    /\ UNCHANGED <<flags, alive, watched, child_watches, children, seen>>

\* The completion source: check_for_execution_done or call_execution_done.
\* It has a lower priority than the watches, and the timer is long enough for
\* the exit of a child to be noticed, so that it never overtakes one that is
\* ready.  child-exited comes last, when the launcher can run another child.
ExecutionDone ==
    /\ alive
    /\ timeout # "none"
    /\ \A ch \in Channel : ~PipeReady(ch)
    /\ \A p \in Pid : ~ChildReady(p)
    /\ timeout = "check" => is_done = Channel
    /\ \/ /\ exited' = [exited EXCEPT ![child_pid] = Append(@, child_status)]
          /\ Cleanup
          /\ UNCHANGED <<alive, aborted, child_watches, children>>
       \/ DoubleFreeAborts

-----------------------------------------------------------------------------
(* The client, on the main loop or in its child-exited handler             *)

\* anjuta_launcher_set_terminate_on_exit, before a run
SetTerminateOnExit ==
    /\ alive
    /\ ~busy
    /\ forks < MaxRuns
    /\ terminate_on_exit' = TRUE
    /\ UNCHANGED <<busy, child_pid, is_done, child_has_terminated, child_status,
                   timeout, held, sources, children, seen>>

\* anjuta_launcher_execute_v, which refuses while it is busy
Execute ==
    /\ alive
    /\ ~busy
    /\ forks < MaxRuns
    /\ forks' = forks + 1
    /\ busy' = TRUE
    /\ child_pid' = forks'
    /\ is_done' = {}
    /\ child_has_terminated' = FALSE
    /\ child_status' = 0
    /\ watched' = Channel
    /\ child_watches' = child_watches \cup {forks'}
    /\ proc' = [proc EXCEPT ![forks'] = "running"]
    /\ open' = Channel
    /\ written' = None
    /\ due' = None
    /\ delivered' = None
    /\ UNCHANGED <<timeout, terminate_on_exit, held, alive, aborted, code,
                   exited>>

\* anjuta_launcher_execute_v when forkpty fails
ForkFails ==
    /\ alive
    /\ ~busy
    /\ Initialize
    /\ UNCHANGED <<sources, children, seen>>

\* The last reference is dropped: anjuta_launcher_dispose, then finalize.  A
\* busy launcher removes its child watch and cleans up without a signal.
Dispose ==
    /\ alive
    /\ \/ /\ alive' = FALSE
          /\ IF busy
             THEN /\ child_watches' = child_watches \ {child_pid}
                  /\ Cleanup
             ELSE UNCHANGED <<flags, watched, child_watches, delivered>>
          /\ UNCHANGED <<aborted, children, exited>>
       \/ busy /\ DoubleFreeAborts

-----------------------------------------------------------------------------
Dispatch ==
    /\ ~aborted
    /\ \/ \E ch \in Channel : Scan(ch)
       \/ \E p \in Pid : ChildTerminated(p)
       \/ ExecutionDone

Kernel ==
    \/ \E ch \in Channel : Write(ch) \/ CloseOutput(ch)
    \/ \E p \in Pid : Exit(p)

Client ==
    /\ ~aborted
    /\ SetTerminateOnExit \/ Execute \/ ForkFails \/ Dispose

Next == Dispatch \/ Kernel \/ Client

Spec == Init /\ [][Next]_vars

\* The main loop dispatches what is ready; the kernel and the client owe
\* nothing.
FairSpec == Spec /\ WF_vars(Dispatch)

-----------------------------------------------------------------------------
(* Properties                                                              *)

Count == [Channel -> 0 .. MaxOutput]
Reported(p) == exited[p] # <<>>

\* Types and ranges; in particular the counts of output stay within what the
\* children may write.
TypeOK ==
    /\ busy \in BOOLEAN
    /\ child_pid \in 0 .. MaxRuns
    /\ is_done \subseteq Channel
    /\ child_has_terminated \in BOOLEAN
    /\ child_status \in Codes \cup {Unset}
    /\ timeout \in {"none", "check", "exit"}
    /\ terminate_on_exit \in BOOLEAN
    /\ held \in Count
    /\ alive \in BOOLEAN
    /\ aborted \in BOOLEAN
    /\ watched \subseteq Channel
    /\ child_watches \subseteq Pid
    /\ forks \in 0 .. MaxRuns
    /\ proc \in [Pid -> {"none", "running", "exited", "reaped"}]
    /\ code \in [Pid -> Codes]
    /\ open \subseteq Channel
    /\ written \in Count
    /\ due \in Count
    /\ delivered \in Count
    /\ exited \in [Pid -> Seq(Codes)]

\* The documentation of child-exited: "Emitted when the child has exited", with
\* the "status as returned by waitpid function"; and it is emitted once.
ExitedMeansExited ==
    \A p \in Pid : Reported(p) =>
        /\ proc[p] = "reaped"
        /\ exited[p] = <<code[p]>>

\* When child-exited arrives the client has had all the output the child wrote
\* before it exited, the last incomplete line included, even when the client
\* does not wait for the pipes to be closed.
OutputBeforeExit ==
    [][\A p \in Pid : proc[p] = "reaped" /\ ~Reported(p) /\ Reported(p)' =>
           \A ch \in Channel : delivered'[ch] >= due[ch]]_vars

\* A launcher that is not busy, or that has been finalized, leaves no source
\* behind in the main loop that would call back with its pointer.
NoStraySources ==
    ~busy \/ ~alive => watched = {} /\ child_watches = {} /\ timeout = "none"

\* A busy launcher never misses the end of its child: as soon as both pipes are
\* done, or the child has terminated and the client does not wait for them, the
\* completion source is there.
CompletionScheduled ==
    busy =>
        /\ watched = Channel \ is_done
        /\ is_done = Channel => timeout # "none"
        /\ child_has_terminated /\ terminate_on_exit => timeout # "none"

\* The child may be reported: its pipes are closed, or the client does not wait
\* for them.
Finished(p) ==
    /\ busy /\ child_pid = p
    /\ proc[p] = "exited"
    /\ open = {} \/ terminate_on_exit

\* A child that has exited is eventually reported, unless the launcher is gone
\* or the program did not survive the double free of the cleanup, which it meets
\* only if both outputs end in an incomplete line.
EventuallyReported ==
    \A p \in Pid : Finished(p) ~> Reported(p) \/ ~alive \/ aborted
=============================================================================
