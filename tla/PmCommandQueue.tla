--------------------------- MODULE PmCommandQueue ---------------------------
(***************************************************************************)
(* PmCommandQueue (plugins/am-project/command-queue.c): the jobs of an     *)
(* AmpProject (load, save, add, remove, set property).  A job has three    *)
(* functions: setup and complete run on the main thread and may change the *)
(* links between the nodes of the project, worker runs in the thread       *)
(* "am-project-worker" and follows them.  There is no lock: the two        *)
(* asynchronous queues and the counter busy keep the functions apart.      *)
(*                                                                         *)
(* The project is a client of its queue and is modelled as far as its      *)
(* life goes: the plugin drops it at any moment, some jobs hold a          *)
(* reference on it, and amp_project_dispose frees the data of the project  *)
(* and then the queue, in the middle of a job of the worker or in the      *)
(* complete function of another.                                           *)
(***************************************************************************)
EXTENDS Integers, Sequences, SequencesExt, SequenceFilter

CONSTANTS
    Job,      \* the jobs that may be pushed
    Pinning,  \* those whose node or parent is the project itself
    none,     \* no job
    exit      \* the job of PmExitCommand

ASSUME ConstantsAssumption ==
    /\ Pinning \subseteq Job
    /\ none \notin Job
    /\ exit \notin Job
    /\ exit # none

VARIABLES
    \* PmCommandQueue
    job_queue,
    work_queue,
    done_queue,
    idle_func,  \* queue->idle_func # 0
    stopping,
    busy,
    memory,     \* the structure is "live", or "freed" by g_free
    \* sources of the main loop
    idling,     \* pm_command_queue_idle is attached
    freeing,    \* pm_command_queue_delayed_free is attached
    \* the worker thread and the job it has popped
    worker,
    wjob,
    \* the main thread: the function it is in, the job it handles, the caller
    \* of pm_command_queue_run_command, the caller of pm_command_queue_free
    main,
    mjob,
    caller,
    resume,
    \* the project
    owned,      \* the plugin holds a reference
    cleared,    \* amp_project_dispose has freed the data of the project
    live,       \* the jobs pushed and not freed
    \* history
    pushed,     \* the jobs pushed, in order
    discarded,  \* the jobs whose setup refused
    worked,     \* the jobs the worker has done, in order
    completed   \* the jobs handed to their complete function, in order

fields  == <<job_queue, work_queue, done_queue, idle_func, stopping, busy, memory>>
sources == <<idling, freeing>>
thread  == <<worker, wjob>>
loop    == <<main, mjob, caller, resume>>
project == <<owned, cleared, live>>
hist    == <<pushed, discarded, worked, completed>>
vars    == <<fields, sources, thread, loop, project, hist>>

\* pm_command_queue_new, called before the first push
Init ==
    /\ job_queue = <<>>
    /\ work_queue = <<>>
    /\ done_queue = <<>>
    /\ idle_func = TRUE
    /\ stopping = FALSE
    /\ busy = 0
    /\ memory = "live"
    /\ idling = TRUE
    /\ freeing = FALSE
    /\ worker = "pop"
    /\ wjob = none
    /\ main = "loop"
    /\ mjob = none
    /\ caller = "loop"
    /\ resume = "loop"
    /\ owned = TRUE
    /\ cleared = FALSE
    /\ live = {}
    /\ pushed = <<>>
    /\ discarded = {}
    /\ worked = <<>>
    /\ completed = <<>>

\* The last reference on the project has gone; dispose comes before anything
\* else the main thread does.
Disposable ==
    /\ ~owned
    /\ ~cleared
    /\ live \cap Pinning = {}

Main(fn) == main = fn /\ ~Disposable

-----------------------------------------------------------------------------
(* Defective variants of some definitions.  No specification uses them:     *)
(* each is put in the place of the one it varies to show that a property of *)
(* this module detects the defect.                                          *)

\* run_command called although a job is at work
PushAndRun(j) ==
    /\ Main("loop") \/ Main("complete")
    /\ owned
    /\ ~Contains(pushed, j)
    /\ pushed' = Append(pushed, j)
    /\ live' = live \cup {j}
    /\ job_queue' = Append(job_queue, j)
    /\ main' = "run"
    /\ caller' = main
    /\ UNCHANGED <<work_queue, done_queue, idle_func, stopping, busy, memory,
                   sources, thread, mjob, resume, owned, cleared, discarded,
                   worked, completed>>

\* the job pushed last is run first
PopTail ==
    /\ Main("run")
    /\ job_queue # <<>>
    /\ mjob' = Last(job_queue)
    /\ job_queue' = Front(job_queue)
    /\ main' = "setup"
    /\ UNCHANGED <<work_queue, done_queue, idle_func, stopping, busy, memory,
                   sources, thread, caller, resume, project, hist>>

\* the job goes to the worker and nothing waits for its end
SetupWithoutIdle ==
    /\ Main("setup")
    /\ busy' = 1
    /\ work_queue' = Append(work_queue, mjob)
    /\ main' = IF caller = "idle" THEN "loop" ELSE caller
    /\ mjob' = none
    /\ UNCHANGED <<job_queue, done_queue, idle_func, stopping, memory, sources,
                   thread, caller, resume, project, hist>>

\* pm_job_free counts the job as well
FreeJobAndCount ==
    /\ Main("complete")
    /\ live' = live \ {mjob}
    /\ busy' = busy - 1
    /\ main' = "freed"
    /\ UNCHANGED <<job_queue, work_queue, done_queue, idle_func, stopping, memory,
                   sources, thread, mjob, caller, resume, owned, cleared, hist>>

\* busy is not decremented
KeepBusy ==
    /\ Main("freed")
    /\ mjob' = none
    /\ main' = "idle"
    /\ UNCHANGED <<fields, sources, thread, caller, resume, project, hist>>

\* the structure is freed at once, without pm_command_queue_delayed_free
JoinAndFree ==
    /\ main = "join"
    /\ worker = "exited"
    /\ live' = live \ {j \in Job : Contains(job_queue \o done_queue, j)}
    /\ job_queue' = <<>>
    /\ work_queue' = <<>>
    /\ done_queue' = <<>>
    /\ memory' = "freed"
    /\ main' = resume
    /\ UNCHANGED <<idle_func, stopping, busy, sources, thread, mjob, caller,
                   resume, owned, cleared, hist>>

-----------------------------------------------------------------------------
(* The main thread                                                         *)

\* pm_command_queue_push, from the main loop or from a handler of the signal
\* a complete function emits; run_command does nothing while a job is at work
Push(j) ==
    /\ Main("loop") \/ Main("complete")
    /\ owned
    /\ ~Contains(pushed, j)
    /\ pushed' = Append(pushed, j)
    /\ live' = live \cup {j}
    /\ job_queue' = Append(job_queue, j)
    /\ IF busy = 0
       THEN main' = "run" /\ caller' = main
       ELSE UNCHANGED <<main, caller>>
    /\ UNCHANGED <<work_queue, done_queue, idle_func, stopping, busy, memory,
                   sources, thread, mjob, resume, owned, cleared, discarded,
                   worked, completed>>

\* pm_command_queue_run_command takes the next job
NextJob ==
    /\ Main("run")
    /\ job_queue # <<>>
    /\ mjob' = Head(job_queue)
    /\ job_queue' = Tail(job_queue)
    /\ main' = "setup"
    /\ UNCHANGED <<work_queue, done_queue, idle_func, stopping, busy, memory,
                   sources, thread, caller, resume, project, hist>>

\* there is none: the idle function ends its source
NoJob ==
    /\ Main("run")
    /\ job_queue = <<>>
    /\ IF caller = "idle"
       THEN idle_func' = FALSE /\ idling' = FALSE /\ main' = "loop"
       ELSE main' = caller /\ UNCHANGED <<idle_func, idling>>
    /\ UNCHANGED <<job_queue, work_queue, done_queue, stopping, busy, memory,
                   freeing, thread, mjob, caller, resume, project, hist>>

\* setup returns TRUE: the job goes to the worker, and an idle function waits
\* for it
Setup ==
    /\ Main("setup")
    /\ busy' = 1
    /\ idle_func' = TRUE
    /\ idling' = (idling \/ ~idle_func)
    /\ work_queue' = Append(work_queue, mjob)
    /\ main' = IF caller = "idle" THEN "loop" ELSE caller
    /\ mjob' = none
    /\ UNCHANGED <<job_queue, done_queue, stopping, memory, freeing, thread,
                   caller, resume, project, hist>>

\* setup returns FALSE (no setup of am-project does, the queue allows it): the
\* job is freed, the next one tried
Discard ==
    /\ Main("setup")
    /\ discarded' = discarded \cup {mjob}
    /\ live' = live \ {mjob}
    /\ mjob' = none
    /\ main' = "run"
    /\ UNCHANGED <<fields, sources, thread, caller, resume, owned, cleared,
                   pushed, worked, completed>>

\* The main loop dispatches pm_command_queue_idle.
Idle ==
    /\ Main("loop")
    /\ idling
    /\ main' = "idle"
    /\ UNCHANGED <<fields, sources, thread, mjob, caller, resume, project, hist>>

\* one turn of its loop: the queue is being destroyed,
IdleStops ==
    /\ Main("idle")
    /\ stopping
    /\ idling' = FALSE
    /\ main' = "loop"
    /\ UNCHANGED <<fields, freeing, thread, mjob, caller, resume, project, hist>>

\* a job is done and its complete function called,
IdleCompletes ==
    /\ Main("idle")
    /\ ~stopping
    /\ done_queue # <<>>
    /\ mjob' = Head(done_queue)
    /\ done_queue' = Tail(done_queue)
    /\ completed' = Append(completed, mjob')
    /\ main' = "complete"
    /\ UNCHANGED <<job_queue, work_queue, idle_func, stopping, busy, memory,
                   sources, thread, caller, resume, project, pushed, discarded,
                   worked>>

\* or there is none, and run_command decides whether the source goes on
IdleRuns ==
    /\ Main("idle")
    /\ ~stopping
    /\ done_queue = <<>>
    /\ IF busy = 0
       THEN main' = "run" /\ caller' = "idle"
       ELSE main' = "loop" /\ UNCHANGED caller
    /\ UNCHANGED <<fields, sources, thread, mjob, resume, project, hist>>

\* the complete function returns and the job is freed
FreeJob ==
    /\ Main("complete")
    /\ live' = live \ {mjob}
    /\ main' = "freed"
    /\ UNCHANGED <<fields, sources, thread, mjob, caller, resume, owned, cleared,
                   hist>>

\* queue->busy--
EndJob ==
    /\ Main("freed")
    /\ busy' = busy - 1
    /\ mjob' = none
    /\ main' = "idle"
    /\ UNCHANGED <<job_queue, work_queue, done_queue, idle_func, stopping, memory,
                   sources, thread, caller, resume, project, hist>>

-----------------------------------------------------------------------------
(* The end of the project                                                  *)

\* anjuta_pm_project_unload
Unload ==
    /\ Main("loop") \/ Main("complete")
    /\ owned
    /\ owned' = FALSE
    /\ UNCHANGED <<fields, sources, thread, loop, cleared, live, hist>>

\* amp_project_dispose frees the data of the project, then the queue:
\* pm_command_queue_stop_thread asks the worker to end and joins it
Dispose ==
    /\ Disposable
    /\ cleared' = TRUE
    /\ stopping' = TRUE
    /\ idle_func' = FALSE
    /\ work_queue' = Append(work_queue, exit)
    /\ resume' = main
    /\ main' = "join"
    /\ UNCHANGED <<job_queue, done_queue, busy, memory, sources, thread, mjob,
                   caller, owned, live, hist>>

\* g_thread_join returns; the queues and their jobs are freed, and the
\* structure will be, in the main loop
Join ==
    /\ main = "join"
    /\ worker = "exited"
    /\ live' = live \ {j \in Job : Contains(job_queue \o done_queue, j)}
    /\ job_queue' = <<>>
    /\ work_queue' = <<>>
    /\ done_queue' = <<>>
    /\ freeing' = TRUE
    /\ main' = resume
    /\ UNCHANGED <<idle_func, stopping, busy, memory, idling, thread, mjob,
                   caller, resume, owned, cleared, hist>>

\* pm_command_queue_delayed_free.  Idle sources of one priority are dispatched
\* in the order they were attached: never before the idle function, if that
\* is still attached
DelayedFree ==
    /\ Main("loop")
    /\ freeing
    /\ ~idling
    /\ freeing' = FALSE
    /\ memory' = "freed"
    /\ UNCHANGED <<job_queue, work_queue, done_queue, idle_func, stopping, busy,
                   idling, thread, loop, project, hist>>

-----------------------------------------------------------------------------
(* The worker thread: pm_command_queue_thread_main_loop                    *)

Pop ==
    /\ worker = "pop"
    /\ work_queue # <<>>
    /\ wjob' = Head(work_queue)
    /\ work_queue' = Tail(work_queue)
    /\ worker' = IF wjob' = exit THEN "exit" ELSE "work"
    /\ UNCHANGED <<job_queue, done_queue, idle_func, stopping, busy, memory,
                   sources, loop, project, hist>>

\* the work function ends
Work ==
    /\ worker = "work"
    /\ worked' = Append(worked, wjob)
    /\ done_queue' = Append(done_queue, wjob)
    /\ wjob' = none
    /\ worker' = "pop"
    /\ UNCHANGED <<job_queue, work_queue, idle_func, stopping, busy, memory,
                   sources, loop, project, pushed, discarded, completed>>

\* pm_command_exit_work
ExitWork ==
    /\ worker = "exit"
    /\ done_queue' = Append(done_queue, exit)
    /\ wjob' = none
    /\ worker' = "exited"
    /\ UNCHANGED <<job_queue, work_queue, idle_func, stopping, busy, memory,
                   sources, loop, project, hist>>

-----------------------------------------------------------------------------
RunCommand == NextJob \/ NoJob \/ Setup \/ Discard

MainLoop ==
    \/ Idle \/ IdleStops \/ IdleCompletes \/ IdleRuns \/ FreeJob \/ EndJob
    \/ RunCommand
    \/ Dispose \/ Join \/ DelayedFree

Worker == Pop \/ Work \/ ExitWork

Next ==
    \/ \E j \in Job : Push(j)
    \/ Unload
    \/ MainLoop
    \/ Worker

Spec == Init /\ [][Next]_vars

\* The main loop and the worker go on; nobody has to push a job or to unload
\* the project.
FairSpec == Spec /\ WF_vars(MainLoop) /\ WF_vars(Worker)

-----------------------------------------------------------------------------
(* Properties                                                              *)

\* Types and ranges; in particular busy, a guint that every finished job
\* decrements, never leaves 0 and 1.
TypeOK ==
    /\ job_queue \in Seq(Job)
    /\ work_queue \in Seq(Job \cup {exit})
    /\ done_queue \in Seq(Job \cup {exit})
    /\ idle_func \in BOOLEAN
    /\ stopping \in BOOLEAN
    /\ busy \in {0, 1}
    /\ memory \in {"live", "freed"}
    /\ idling \in BOOLEAN
    /\ freeing \in BOOLEAN
    /\ worker \in {"pop", "work", "exit", "exited"}
    /\ wjob \in Job \cup {none, exit}
    /\ main \in {"loop", "idle", "complete", "freed", "run", "setup", "join"}
    /\ mjob \in Job \cup {none}
    /\ caller \in {"loop", "complete", "idle"}
    /\ resume \in {"loop", "complete", "freed", "run"}
    /\ owned \in BOOLEAN
    /\ cleared \in BOOLEAN
    /\ live \subseteq Job
    /\ pushed \in Seq(Job)
    /\ discarded \subseteq Job
    /\ worked \in Seq(Job)
    /\ completed \in Seq(Job)

\* "The GUI cannot change links, else the Work cannot follow links": setup and
\* complete functions never run while the worker is in a work function, though
\* no lock says so.
FunctionsApart == main \in {"setup", "complete"} => worker # "work"

\* Jobs go through setup, worker and complete in the order they were pushed,
\* each once; what the worker has done the main thread completes in that order.
InOrder ==
    /\ IsPrefix(worked, Filter(pushed, Job \ discarded))
    /\ IsPrefix(completed, worked)

\* Back in the main loop, a queue with work left is busy and its idle function
\* is attached: neither a job that waits nor one that is done is forgotten.
NoStall ==
    main = "loop" /\ ~stopping =>
        /\ job_queue # <<>> => busy = 1
        /\ busy = 1 => idling /\ idle_func
        /\ busy = 0 => work_queue = <<>> /\ worker = "pop" /\ done_queue = <<>>

\* g_free comes last: the worker has been joined, no source and no function
\* on the stack of the main thread uses the queue any more, even when it was
\* freed inside the complete function of one of its jobs.
NoUseAfterFree ==
    memory = "freed" =>
        /\ worker = "exited"
        /\ ~idling
        /\ main \notin {"idle", "complete", "freed", "run", "setup"}

\* Every job is freed in the end, done, refused or dropped with the project:
\* the join always returns and the idle function always comes back.
EveryJobFreed == \A j \in Job : j \in live ~> j \notin live

-----------------------------------------------------------------------------
\* command-queue.c says of the data of the project: "Work has always a full
\* access to specific data", and of the links "Work has always a full access to
\* link".  amp_project_dispose frees both before it joins the worker.
WorkHasProject == worker = "work" => ~cleared
=============================================================================
