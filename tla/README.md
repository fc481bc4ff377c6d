# A verification of Anjuta's asynchronous core

Anjuta is an IDE: a small shell (`src/src`), a library (`src/libanjuta`) and
some forty plugins (`src/plugins`) that run compilers, debuggers and version
control programs, load projects in a thread and show the results in GTK
widgets. What is hard in it, and what its few tests do not reach, is the
machinery that turns work done elsewhere (a child process, a thread, a
debugger) into callbacks on the one main loop. This directory models that
machinery in TLA+, checks it with TLC and proves its central properties with
TLAPS.

Contents: 1 the system, 2 the models and the code, 3 the runs, 4 the proofs,
5 where the code departs from what it says, 6 what is left out, 7 the plan,
8 how to run it.

## 1. The system

Everything runs on the GTK main thread unless stated otherwise; concurrency
comes from threads, from child processes, and from handlers that call back into
the object that is emitting a signal.

| component | state it keeps | operations | interacts with | hard behaviour | what makes it correct |
|---|---|---|---|---|---|
| `AnjutaAsyncCommand` over `AnjutaCommand` (`anjuta-async-command.c`, `anjuta-command.c`) | a mutex and six plain fields shared by a thread and an idle source | start, lock/unlock, `notify_data_arrived`, `notify_progress`, `notify_complete`, the poll, finalize | subclasses' `::run` (Subversion, Git), clients through `data-arrived`, `progress`, `command-finished` | races on the fields, signals emitted with the mutex held, the reference of the thread | no use after finalize, items not lost or reordered, finished once and last, with the code and the message of the run |
| `AnjutaCommandQueue` (`anjuta-command-queue.c`) | a `GQueue`, `busy`, the execute mode | push, start, `on_command_finished`, finalize | every VCS plugin, find in files | a command that completes inside its own start, pushes from completion handlers, the queue dropped in its `finished` handler | commands one at a time, in order, each once; never stuck, never early |
| `AnjutaLauncher` (`anjuta-launcher.c`) | the child, two pipes, their done flags, a completion timer | execute, the pipe watches, the child watch, `check_for_execution_done`, cleanup, dispose | build, run, GDB, Git, CVS, symbol-db | four sources in any order, pipes that outlive the child, reuse and dispose from handlers | `child-exited` once, true, after the output; no stray source |
| `PmCommandQueue` (`am-project/command-queue.c`) | a job queue, two asynchronous queues, `busy`, an idle source, a thread | push, the turn of the idle function, the thread's loop, stop and free | `AmpProject`, the project manager | two threads kept apart by a counter, pushes and dispose from complete functions, join | functions of the two threads never overlap, no job forgotten, freed last |
| `AnjutaPmProject` (`project-manager/project.c`) | `incomplete_node`, `loaded` | load, unload, node-loaded | the project backends | counts that must return to zero when loads fail or are repeated | the project is announced loaded once, when all its nodes are |
| debugger queue (`debug-manager/queue.c`, `command.c`) | queued commands, the one in progress, the debugger's state | append, execute, callbacks, emission of states, clear, cancel | debug manager and its views, GDB or JavaScript backends | commands that need a state the ones before them may not reach, insertions by priority, callbacks from callbacks | each command runs in a state it allows, its callback is called once, the plugins see every change of state |
| GDB backend (`gdb/debugger.c`, `gdb/plugin.c`) | a queue of gdb commands, the one gdb answers, a count of prompts, flags of what happened | the methods of `IAnjutaDebugger`, the reading of gdb's output, the end of gdb | the debugger queue, `AnjutaLauncher`, gdb | a line does not say which command it answers, a program that runs owes a second prompt, gdb may refuse anything or die | each request answered once, by its own lines, then one report of the state the program is in |
| find in files (`document-manager/search-files.c`) | `busy`, a queue of commands, a tree of files | search, filter, replace, stop | `AnjutaCommandQueue` | its flag is cleared only by the queue's `finished` | the dialog never stays busy |
| plugin manager and profiles (`anjuta-plugin-manager.c`, `anjuta-profile-manager.c`) | plugins, their dependencies, active and cached ones; a stack of profiles | activate, unload, resolve, freeze, thaw | the shell and all plugins | order of activation, unload of what depends, loads while frozen | a plugin is active only with all it needs |
| symbol database (`symbol-db/*.c`) | a scan pipeline, query queues, an SQL engine with a mutex | add files, update, query | the launcher (ctags), the project manager, the editor | a thread, children and sources on one database | no file lost between the stages |
| the rest: editor, dialogs, views, panes, wizards, parsers, generators | what is drawn or typed, trees of tokens | | | little concurrency | |

How they interact. A client calls down (push, execute, load), and hears back
through signals and callbacks that the main loop dispatches. Commands own
launchers (Git) or threads (Subversion); queues own commands; dialogs own
queues and drop them in the handler that tells them the work is over. A
handler may therefore push into, restart or free the object that is calling
it. Every model here keeps that: a callback that lets the client act is either
a frame on an explicit call stack or a state of the thread in which the client's
actions are enabled.

`PROJECT.json` lists all the components, modelled or not, and the hazards, each
at the line where it bites, with the properties that watch it.

## 2. The models and the code

Each definition that stands for code is mapped to its lines in `PROJECT.json`.
Every component module also has, apart from the specification, a section of
*defective variants*: the change a plausible bug would make to one definition,
kept to show that a property notices it. No specification refers to them.

### `AnjutaAsyncCommand`: one command, two threads

The variables are the fields of `AnjutaAsyncCommandPriv`, the error message of
`AnjutaCommandPriv`, the references (`refs`: the client's and the one
`start_command` takes for the thread), the idle source (`polling`), the program
counters of the thread (`wpc`) and of the poll (`ppc`), the output queue of the
subclass, and history: what the client received and was shown, and how often it
was told of the end.

Every access of a shared field is an action. The thread's two stores in
`notify_progress` and in `notify_complete` are done in either order (`stores`
holds those still to come), since nothing orders plain stores for another
thread. The poll's `g_mutex_trylock`, its emission of `data-arrived` with the
mutex held and its clearing of the flag afterwards are separate steps, as in
the source. `::run` follows the pattern of all its implementations (lock, push,
unlock, notify; set the error, return a code). Two kinds of client are
modelled: one drains the output in `data-arrived`, one in `command-finished`,
the two styles of the Subversion and Git plugins; either drops the command in
its last handler.

### `AnjutaCommandQueue`, and `SerialRunner` as what it promises

All of this runs on the main thread, and the difficulty is the nesting:
`anjuta_command_start` may emit `command-finished` before it returns, the
handler `on_command_finished` starts the next command, and so on. `stack` is the call
stack, innermost first; a frame is a call of the start method of a command, an
emission of `command-finished` on its way through the class closure, the
client's handlers and the queue's, the release of a command after it, or the
emission of `finished`. `connected` counts handlers, so that a second
connection would call `on_command_finished` twice; `held` and `owned` count references,
so that a use after the last unref is visible.

`SerialRunner` is the abstract specification: what was submitted waits in
order; one runs; what has run is done. `AnjutaCommandQueue` implements it
(`SerialExecution`, with `waiting <- queue` and the command flagged running as
`current`), and fairly (`AllPushedRun`).

### `AnjutaLauncher`: one child after another

The main loop dispatches the sources of a launcher, each callback as one action,
in any order that the state of the pipes and of the child allows: `Scan` (the two pipe
watches with the read, the held incomplete line, the callback, the end of
file and `anjuta_launcher_synchronize`), `ChildTerminated` (the child watch: the status, the flag
and `synchronize`), `ExecutionDone` (the completion timer or idle source, the
cleanup with the last incomplete lines, and `child-exited`). The watches have a
higher priority than the completion source and the shortest timer is 50 ms, so
`ExecutionDone` is enabled only when no watch is ready.
Beside it the kernel lets a child write, close an output, exit; processes the
child started may keep its pipes open. The client executes, sets
`terminate_on_exit` and drops the launcher at any time between callbacks.
The cleanup frees `stdout_buffer` a second time when both outputs end in an incomplete line
(section 5). What follows is up to the allocator and is a choice in the model: the program
goes on as if nothing had happened, or it is over (`DoubleFreeAborts`, after both lines
were delivered and before `child-exited`; `aborted` then stops everything).
`written`, `due` (written when the child exited) and
`delivered` count pieces of output. The pid is never reused, so a report for
an earlier child would be seen. `Daemon` says whether a child may close both its
outputs long before it exits.

### `PmCommandQueue`: the jobs of a project

Jobs go from `job_queue` through a setup function (main thread), `work_queue`,
the worker thread, `done_queue` and a complete function (main thread, in the
idle function). `main` is the function the main thread is in, `caller` and
`resume` who called `run_command` and `pm_command_queue_free`. Push is enabled
in the main loop and inside a complete function, whose signal handlers push
(the project manager reloads incomplete nodes and saves changed ones there).
Nothing forbids a setup function to refuse its job, so `Discard` is there although no
job of am-project does; the order of the jobs is stated without them (`Filter` of the module
`SequenceFilter`, a recursive function that can be proved about, which the debugger queue also uses for
its walk over the queue in `CancelUnexpected`).

The project that owns the queue is modelled as far as its life: the plugin drops it
(`Unload`) in the main loop or in a handler, `Pinning` jobs hold a reference on
it because their node or parent is the project itself, and when the last
reference goes `amp_project_dispose` runs there and then (`Disposable` blocks
every other action of the main thread): it frees the data of the project, then
asks the worker to end and joins it. `DelayedFree` is the idle source that frees
the structure.

Two idle sources of equal priority are dispatched in the order in which they
were attached, so the delayed free comes after the idle function: that is the
guard `~idling` of `DelayedFree`.

### `DebuggerCommands`, and `DebuggerBackend` as what a backend promises

The debug manager and a debugger plugin share `IAnjutaDebugger`. What they agree
on is in two modules: `DebuggerCommands` has the states, the kinds of commands of
`command.c` with the flags that say which states each needs and which it leads to
(`Need`, `GoingTo`, `Asynchronous`, `HighPriority`, `Asks`), and the states a backend
may be in after each (`EndsOf`); `DebuggerBackend` is the contract: one request at a
time, in a state the request needs, its callback once, then a report of a state it
may end in, unless the backend ends; and it does report or end. `reply` counts the calls that
are still owed.

### `DmaDebuggerQueue`: the commands of the debug manager

Everything is on the main thread and everything reenters. `stack` is the call
stack, innermost first: a frame is a call of `dma_debugger_queue_complete`, an
emission on its way through the states (`emit`), the recheck and the loop of
`dma_debugger_queue_execute` (`execute`, `send`), a signal with its listeners at
work (`window`), a callback, `debugger-ready`. Between two frames a listener may
append (`ListenerAppends`), from the main loop a menu may (`UserAppends`).
`AppendCommand` is `dma_debugger_queue_append` with its check of the state and its ways
in: first (asynchronous and high priority), before the link of `insert_command` (from a
listener or callback), last. Completing a command that has not led where it
announced cancels what no longer fits (`CancelUnexpected`); `EmitStateChange` is one
iteration of `dma_queue_emit_debugger_state`, with the states it inserts on the way. Three
constants are options of the environment that lead to a disagreement of section 5: the
backend dies idle (`DiesIdle`), a client aborts a load (`AbortsLoad`) or stops the debugger once more while
it stops (`QuitsAgain`). They are FALSE in the runs that pass. Half of the proofs leave them open; the theorems on the queue and its backend
assume that they are FALSE, and section 4 says what happens otherwise.

The backend in this module is the contract as the queue sees it: `ends` are
the states it may report, `job` the command it works on, which may not be the one in
progress any more. It may report only from the main loop, except for the
commands that are ready before they return. `DebugSession` is the abstract specification of what listeners
hear: the life cycle of a session, one signal for each step. `phase` is the session
as the emitted signals tell it, and `SignalsInOrder` the refinement.

### `GdbDebugger`: the backend that talks to gdb

A request queues commands (`Request`); one is written to gdb (`Execute`) when
`debugger_is_busy` is 0; each line of output is one action (`ReadDone`, `ReadError`,
`ReadRunning`, ...), and the last prompt reports (`EmitReady`). A command is a record of
what it does and of the request it belongs to; a line carries the command it
answers, which the code cannot see: that is how `OwnAnswer` can say that the
parser of `current_cmd` gets its own lines. gdb is external: it answers a command
with success or an error and a prompt, runs the program, which stops, loads a library
or exits, and dies at any time, all its output being read before its end is known (that is
`OutputBeforeExit` of `AnjutaLauncher`). The requests come from the debug
manager: one at a time, in a state they need, which is `CommandsFitState` of
`DmaDebuggerQueue`; in return `ImplementsBackend` shows that the plugin keeps the
contract, but for one case, which it names: an error of `-break-list` calls the callback twice
(`Calls`, `AnsweredTwice`). The two modules meet in `EndsOf`: it is what the one assumes and the other
shows.

### `AnjutaPmProject`: a project that is loaded

The main loop, in the functions of `project.c` and in the complete functions of the
load jobs, and the workers of the projects. `project`, `incomplete_node` and
`loaded` are the fields of `AnjutaPmProject`, `busy` that of the plugin. Each `AmpProject`
has its `queue` of nodes to load (what `PmCommandQueue` shows of it, jobs one at a time
and in order, is assumed here), the `proxy` in which the worker loads the first one and
its monitor of `configure.ac`. `incomplete` and `loading` are the two flags in the state
of the nodes; a node that is dropped from the tree while a job holds it stays in them, and
`gen` tells it from the one that takes its place.

`Open` and `Close` are what the plugin does (`project_manager_load_gbf`,
`project_manager_unload_gbf`); `Work` is the work function, which reads `configure.ac` and
may fail with or without it; `Complete` is the complete function with the merge of the
new tree into the old one, the signal, the count and the jobs it pushes; `FileChanged` the
monitor. The project that is closed is not disconnected: its jobs go on, its
signals reach `AnjutaPmProject`, and the count and the new jobs go to whatever project is
open then. `Dispose` comes when the last reference has gone, which a job on the
root, or on a child whose parent is the root, delays.

## 3. The runs

| run | instance | distinct states | what it shows |
|---|---|---|---|
| `async_command` | 2 items, 2 progress values, codes 0 and 1 | 26 706 | no thread or source uses a freed command; the output is never shared; the items arrive in order; the end is told once, last, and with a message if it is a failure; the command is freed in the end |
| `async_return_code` | same | violation | the code told to the client may not be the one `::run` returned |
| `command_queue` | 4 commands, both modes | 5 758 | the queue implements `SerialRunner` (one command at a time, in order); `busy` means what it says; no use after free of a command or of the queue; `finished` once and after everything; all that is pushed runs |
| `launcher` | 3 runs, 2 pieces of output, codes 0 and 1, `Daemon = FALSE` | 46 721 | `child-exited` once, true and after the output; completion comes, unless the launcher is dropped or the double free of the cleanup ends the program; no source left behind |
| `launcher_daemon` | 1 run, 1 piece, `Daemon = TRUE` | violation | `child-exited` for a child that runs |
| `project_queue` | 3 jobs, one of which pins the project | 3 811 | setup and complete functions never overlap the worker's; order; nothing forgotten; the structure freed last; every job freed |
| `project_dispose` | same | violation | the worker in a job of a project whose data are freed |
| `debugger_queue` | 3 commands of 13 kinds | 775 705 | queue and backend agree when both are idle; each callback once and by its own command; what is sent fits the state; no stale link; signals in the order of a session; every command ends |
| `debugger_dies` | same, `DiesIdle = TRUE` | violation | a queue that believes in a session that has ended |
| `debugger_abort_load` | same, `AbortsLoad = TRUE` | violation | an abort that cancels itself |
| `gdb_backend` | requests of 17 kinds, gdb that refuses, loses the program, dies | 6 441 | prompts counted right; lines go to their own command; the state reported is the state known; the plugin implements `DebuggerBackend`, fairly, but for the list of the breakpoints, which is answered twice when it fails |
| `project_loading` | 2 projects, 2 packages, 1 change, 1 failure | 303 143 | a package that is not loaded has its one job, whatever was reloaded or has failed; unless a load fails, the plugin stops being busy |

**Bounds.** `MaxItems = 2`: an item pushed while the one before is being
announced is the case that matters, and the flags cannot tell two unannounced
items from three. `MaxProgress = 2`: a report during the emission of the one
before. Codes `{0, 1}`: success and failure are all the code distinguishes.
Four commands: one at work, one that completes inside its start, one pushed
from its handler and one waiting behind it. Three runs of a launcher: a run
before, one that reuses the launcher with all its fields dirty, and one whose
sources could collide with it. Two pieces of output: a line delivered and one
held back until the end. Three jobs: one out, one that waits, one pushed from a
complete function. Three debugger commands: one in progress, one waiting, one
that is put first and cancels or overtakes; the safety properties were also checked with
four (19.4 million states). Thirteen kinds: one for each combination of flags that
the queue treats differently. Seventeen kinds for gdb: one for each sequence of gdb commands a
request makes, and `list_break` for its parser. Two projects: one that is open, one that was closed with its jobs at
work. Two packages, and a `configure.ac` that asks for none, one or both: a package that stays, one that
goes and one that comes, in one change, which the root's reload may find before, during or after
the load of the packages. `MaxGen = 1`: a package that has gone and come back while its
first node is still in a job; a third would need a second change. What these small numbers cannot show, the proofs do for all
numbers.

**Fairness.** It is never more than what the program's scheduling gives.
The main loop keeps dispatching what is ready (`WF` of the poll, of `Dispatch`,
of `MainLoop`, of the calls in progress); the kernel runs the threads (`WF` of
`Worker`). In `AnjutaAsyncCommand` and `AnjutaCommandQueue` it is also assumed that a client starts
the command or the manual queue it has made, and that the work of a command
ends: `::run` is bounded and a command at work completes (`WF` of `Complete`). No child of a launcher
is obliged to exit, to write or to close anything: `EventuallyReported` only
speaks of one that has exited, and not of a program that was aborted. No client of `PmCommandQueue` is obliged
to push or unload, and no user to open or close a project; the worker of a project, the events of its monitor and
the release of its last reference come (`WF` of `Work`, `FileChanged`, `Complete`, `Dispose`
in `AnjutaPmProject`). A debugger that works ends its work or itself: calls return (`WF` of
`Return`), and the main loop comes to the output of the backend although clients keep
adding commands in between, which needs `SF` in `DmaDebuggerQueue`: an action of a client
disables the report for a moment, the main loop serves all its sources in turn. That a
backend does report is what `GdbDebugger` shows (`Answers` in `DebuggerBackend`), from: the
plugin reads what gdb writes, gdb answers, and the program being debugged stops or is
interrupted (`WF` of `Read`, of gdb, of `ProgramStops`); no request ends if it runs for ever.
In the other modules weak fairness suffices, because no modelled
action is enabled and disabled for ever by another: the one that comes near, the poll's
trylock against the mutex, is repeated only as often as `::run` locks.

**Deadlock** is checked in the debugger runs, where there is always something
to do. It is off in the others, because those systems
really stop: the command is freed, the clients have pushed all they had, the
runs are used up, the project is gone. A wait that never ends is caught by the
liveness properties instead (`EventuallyFreed`, `AllPushedRun`, `EveryJobFreed`).

## 4. The proofs

`*_proofs` modules hold theorems checked by TLAPS for every value of the
constants, under the named assumptions of the modules (`ConstantsAssumption`: bounds are
naturals, 0 is a code, `none` is not a command and so on; TLC evaluates them
in each run). The form is always the same: an inductive invariant `IInv`, a lemma for
the initial states, lemmas for the steps, and the theorem by `PTL`.

**`AnjutaAsyncCommand_proofs`.** `IInv` adds to the types four facts: who holds
which reference in which state (`RefInv`), that the mutex is held exactly
between the steps that lock and unlock it (`MutexInv`), that `complete` is seen
only after `::run` has returned (`CompleteInv`), that a failure code travels only after its message is set
(`ErrorInv`). `NoUseAfterFree` needs `RefInv`, because the idle source holds no
reference of its own: it is safe only because the client's reference outlives
it. That a failure has its message is the third part of `FinishedAfterRun`. `OutputExclusive` needs both `MutexInv` and `CompleteInv`, because the
handlers of `command-finished` take no lock. Proved: `NoUseAfterFree`,
`OutputExclusive`, `FinishedAfterRun`, `ItemsInOrder` and the action property
`NothingAfterFinished`.

**`AnjutaCommandQueue_proofs`.** The argument is a token: a busy queue has
exactly one, which is the command at work or the innermost call; all the calls
below it only return. So a nested start never meets another command at work
(`OneAtATime`, which no run states because `SerialExecution` implies it), a queue without a token is not busy (`BusyIffWorking`), and each step of
the queue is a step of `SerialRunner` or a stutter
(`Implements`, the refinement of the safety part). A second invariant, `LifeInv`,
counts: a command whose client has dropped it does not run and will not (`RefInv`), a queued command
has a reference of the queue and no handler connected, so the `unref` that
`on_command_finished` still owes is never that of a queued command; and the queue
announces with nothing queued or at work (`AliveInv`, `CountInv`). Hence `NoUseAfterFree` and
`FinishedMeansAllDone`, and that a count of references, which is unsigned, never goes below 0, the part of the
types that no step shows by itself (`TypeCorrect`).

**`AnjutaLauncher_proofs`.** If no child closes both outputs before it exits
(`~Daemon`), then `child-exited` tells the truth, once; no stray source;
completion scheduled (`CompletionScheduled`, the safety half of
`EventuallyReported`); output first. `IInv` says what is in the pipes
(`PipesInv`), that the fields of a busy launcher describe its last child (`RunInv`), and what its watches and
statuses are in each phase of the child (`ChildInv`). The assumption is
needed and not an artefact: `launcher_daemon` is the counterexample without it. Both outcomes of
the double free are in these theorems; `child-exited` is true and last, where it is emitted at all.

**`PmCommandQueue_proofs`.** Again a token: while the project lives `busy` is
the number of jobs that are in the work queue, in the worker's hands, in the
done queue or in their complete function (`TokenInv`), and setup functions run only when
it is 0. After the dispose the queues are empty and the worker is over, and
what is on the main thread's stack only returns (`StopInv`). Proved:
`FunctionsApart`, `NoStall`, `NoUseAfterFree` and the types, of which `busy \in {0, 1}` is the
one that matters. `InOrder` needs a second invariant, `OrderInv`: the pushed jobs without the
discarded ones are those the worker has done, the one that is handed over and the job queue, in
this order (`LineInv`), and those it has done are the completed ones followed by the done queue (`DoneInv`).
Each step moves one job across one of these borders.

**`SequenceFilter_proofs`.** What both queues need of `Filter`: it keeps the elements of a
set, in their order, each as often as it was, and it distributes over concatenation. These are facts about
sequences of any length, so they need an induction, and the induction theorems of the library take an
operator that the provers cannot instantiate. `SeqInduction` states the principle on
a set instead (a set of sequences that has the empty one and every extension
of one it has, has them all), and follows from the well-foundedness of strict inclusion on finite sets.

**`DmaDebuggerQueue_proofs`.** For every set of commands and every choice of kinds, however
deep the queue is reentered, and, up to `LinkInv`, for every option. The signals follow the life of a session
(`SignalsFollowSession`): the phase of the
session is a function of `debugger_state` (`PhaseInv`), which only `EmitStateChange`
changes, one step of the life cycle at a time (`OneStep`); every call on the stack that leads
there carries a state of a debugger that is not busy (`CallsInv`), because the backend reports
no other (`BackendInv`). The types (`QueueTypes`) say that `insert_command` has one
link for each emission on the stack.

`NoUseOfFreedLink` is the hard one: the link a listener's command goes before
(`insert_command`) has not been freed when it is used, although between the two the listener,
or one inside it, may have completed, cancelled and sent commands. It takes four invariants, each
inductive with the help of the ones before.
`CallInv`: which calls are where on the stack and which states they carry, and what is left on it
while the queue and the backend disagree or an abort waits. `PlaceInv`: a command is in one place,
in the queue, in progress or in one call about to append it, and a queue that waits for nothing is about to be sent.
`RunningInv`: no command that needs a stopped debugger waits behind one that runs the program,
an interrupt waits only behind commands that change no state. `OpenInv`: at most one emission has
listeners that may still append; what they append goes before their link and is sent before it, and
if the debugger has ended under them, the queue is empty and all they append is refused.
`LinkInv` is their conjunction with `~crashed` (`LinksAreQueued`).

That the queue and the backend fit is the other half, and the longer one. Under `Orderly` (none of the three
options) `FitInv` is inductive (`QueueFitsBackend`), and four theorems follow from it: `QueueInSync` (back in the
main loop with an idle backend nothing is queued or in progress and both states are the backend's), `CallbacksFindOwner` (an answer goes to the client that asked),
`SentCommandsFit` (a command is sent only in a state it needs) and `ClientsAnsweredOnce`. None of the four
is inductive: a command may be sent in a state
it needs because the ones before it were, and they because the cancellations kept only what fits, which
depends on the state each call on the stack will report. `FitInv` adds to `LinkInv`:

- what each call on the stack says of the backend: the state that is reported or emitted is the one the backend is in, or
  `Running` while it runs the program (`SettleInv`); a callback is still to come only from a busy backend that does not run the
  program (`ReplyInv`); a call that will send to an idle backend comes after the emissions that lead to its state, or
  is a listener's (`SentInv`); what each signal being emitted says of the state (`TellInv`);
- who works on what: a busy backend works on the command in progress, unless an interrupt has taken
  its place or an asynchronous command is about to (`WorkInv`, `JobInv`); an idle backend finds none in progress, except one whose end
  is on the stack (`IdleInv`);
- what waits: a listener finds no command that sets the state before its link (`LinkFirstInv`), each command needs a state that
  the commands before it announce (`PlanInv`), and the first ones, up to one that sets the state, fit the
  state of the backend as it is now or as the command in progress will leave it (`FrontInv`);
- which commands have had their answer: none that waits, nor the one in progress while its callback is to come (`AnswerInv`).

The proof has one lemma per part and per kind of step (append, complete, emit, send, what the backend does), and lemmas on a
sequence from which elements are taken out or into which one is put (`Thins`, `Inserts`).
The backend in these theorems keeps the contract of `DebuggerBackend`, one answer to a request. The gdb plugin does not
when a `-break-list` fails (`AnsweredTwice` of `GdbDebugger`): the client of that request is told twice, so
`AnsweredOnce` is about every other request of a session with gdb.

The hypothesis is needed. With three commands TLC finds all four properties violated when the backend
may end while it is idle, and `InSync` and `CommandsFitState` violated when a load may be aborted; with five commands, `InSync`
when the debugger is stopped once more while it stops. These are the disagreements of section 5.

**`GdbDebugger_proofs`.** All four invariants of the gdb run and the refinement of the safety
part of `DebuggerBackend` (`Implements`), for every set of kinds. The argument follows one
command through the pipe: between the plugin and gdb there is at most the command, the answer
to it, what its program has done, or the debt of one prompt (`Pipe`, three numbers `a`, `e` and
`owed` that say which lines these are), and `debugger_is_busy` is counted from them; so all of
it belongs to `current_cmd` (`Own`). The state reported needs more: what a request has
still to send is the rest of its plan (`Plan`), and the plan with the lines that are read
fixes which flags are set and what is known of the program (`Flags`). A callback is
still to come exactly while the command with a parser for it is to be answered (`Reply`), so none is when the
last prompt arrives; and since a parser is called once for a command (`Fresh`), it is called when the callback is owed.
`Implements` has the exception of `ImplementsBackend`, `AnsweredTwice`; `ImplementsUnlisted` says that it is
the only one: clients that never ask for the list of the breakpoints have the contract to the letter. The lemmas go by lines: `AnswerRead`, `EventRead` and `LastPrompt` say what
may be read and what is then left, `Executing` that a command goes out only when nothing is on its way.

**`AnjutaPmProject_proofs`.** `AllPending` is `NothingForgotten` for any projects,
packages, files and bounds, with any loads failing. The argument is about the flag `LOADING`:
a node of the open project that has it, is in the tree and is not loaded has one job in its queue
or has failed (`PendingInv`), because it is set where the job is pushed and nowhere else and cleared where
the job is completed; and once the root has been
loaded every incomplete node has the flag or a failure (`LoadingInv`). `OnceInv` says that no two jobs of a
queue load the same package, which is where the test of `LOADING` in
`on_pm_project_load_incomplete` is needed; `LifeInv` that only live projects have jobs
and nodes. The proof needs that the sets of new nodes are finite, since `SetToSeq`
puts them into a queue.

**Model-checked only.** The liveness properties (`EventuallyFreed`,
`AllPushedRun`, `EventuallyReported`, `EveryJobFreed`, `CommandsEnd`, `LoadAnnounced`): fairness and `ENABLED`
are out of the prover's reach. Of `ImplementsBackend`, that every
request ends. Every safety property of a run that passes is proved. That `Filter` is `SelectSeq` is not claimed anywhere; the models use `Filter`.

## 5. Where the code departs from what it says

Five runs each show one disagreement; `PROJECT.json` quotes the lines.

1. `anjuta_async_command_notify_complete` sets `complete` before `return_code`
   with no lock, and the poll reads them in that order: a failed command may be
   reported with code 0, and its error message is then never shown.
2. A child that closes both outputs and works on is reported as exited with
   status 0, 200 ms later: the timer that should check whether the child has
   terminated notes that it has not, and goes on.
3. `amp_project_dispose` frees the tables and tokens that a job at work uses,
   then joins the worker.
4. When gdb dies while nothing is in progress, `on_dma_debugger_stopped` updates
   `debugger_state` only: the queue is empty and `queue_state`, against which the next
   command is checked, is still that of the session that has ended.
5. An abort while a program is loading is put at the head of the queue and then
   cancelled by the completion it asks for: the debugger goes on loading.

Also seen while modelling, and not shown by a run of their own:

- The poll of an asynchronous command clears `new_data_arrived` after it has emitted `data-arrived` and
  released the mutex (`anjuta-async-command.c:96`): an item announced in between is
  in the queue, but no signal tells of it.
- `dma_quit_debugger` (`debug-manager/start.c:1388`) called again while the debugger is
  stopping, with a load or a start waiting: the interrupt it sends first is checked against the state
  the queue will have in the end (`check_state`, `queue.c:446`) but goes to the head of the queue (`queue.c:702`), and the quit
  that follows is refused. When the debugger has stopped, the interrupt goes to a backend that runs no program,
  which ignores it (`gdb/debugger.c:2347`) and so never reports that it is done: the commands behind
  it wait until something else is appended. With `QuitsAgain = TRUE` and five commands TLC finds `InSync` and `CommandsEnd`
  violated in this way. `NoUseAfterFree` is proved for this case too.
- When a child leaves an incomplete line on both outputs, the cleanup of the launcher delivers them and
  then frees `stdout_buffer` twice (`anjuta-launcher.c:981` means `stderr_buffer`), before it emits
  `child-exited`; `stderr_buffer` leaks whenever it is set. `AnjutaLauncher` lets such a
  run go on or end there. That it goes on unharmed is an idealisation, the
  behaviour being undefined.
- `debugger_list_breakpoint_finish` does not return once it has called its callback for an error
  (`gdb/debugger.c:2774`) and calls it again (`gdb/debugger.c:2805`). `on_breakpoint_list_callback` of `breakpoints.c`, which asked for
  the list, runs twice: `AnsweredTwice` in `GdbDebugger`.
- A process that was
  attached to and exits is reported as a loaded program; the comment in
  `debugger_attach_process_finish` expects a restart that the flag `starting` prevents.
- A load that fails leaves the plugin busy: `pm_command_load_complete` passes `complete`
  FALSE with every error, and the view emits it as signal number `NODE_LOADED` instead of
  `signals[NODE_LOADED]` (`project-view.c:1388`), so the dialog in `on_project_loaded`
  (`project-manager/plugin.c:1298`) is never shown. If `configure.ac` is missing, the
  monitor goes too, and the project is not loaded again when the file comes back.
- The root of a project that was closed while it was loading announces
  `project_loaded` when it is done (Open, Close, Work, Complete), with no project open or with another one in its place;
  `libanjuta.idl:3653` says "Emitted when the project is fully loaded". Closing a project
  does not pop the busy status that opening it pushed (`plugin.c:1366`).
- When the root is loaded again a package that stays is given the children of its
  new, incomplete copy, that is none, while its own state remains that of a loaded node.
- A change of `configure.ac` between the moment the worker reads it and the new monitor of
  `amp_project_update_root` is not noticed.

## 6. What is left out, and why

*Inside the modelled components.* Of `AnjutaAsyncCommand`, the automatic
monitor and `cancel`, which subclasses implement. Of the launcher, the pty, the
password dialog (whose nested main loop could run other sources inside a
callback: listed as a hazard), stdin and the character conversion. Of the project's queue, what a work function
does, and a nested main loop in a complete function. `g_thread_new` is taken
not to fail. Of the debugger queue, `dma_debugger_queue_start` and `stop`, which connect it to a
plugin before a load, and `frame-changed` and `signal-received`, which open the same
window as `program-moved`; user commands in gdb, which may do anything to its state.
Of the gdb plugin, connecting to a remote target (its dialog runs a nested main
loop in a parser, where the prompt that is read reports that the command is done while the user may still retry, `gdb/debugger.c:2091`), core files, a gdb that cannot be started,
`START` for a program that already runs (the clients only start what they have just
loaded), and the parsers of data. `exit` and `unload` are modelled although no client calls
them. Of the project manager, the jobs that save and change nodes, `anjuta_pm_project_refresh`, which nothing
calls, a makefile of which only a part could be parsed, and modules and groups between the root and its
packages. Memory that leaks (the `PmJob` structures are never freed, nor is the last
`done_queue`) is not tracked.

*Whole components.* The components marked `not_modelled` in `PROJECT.json` are
either planned (section 7) or are widgets, dialogs, parsers, generated code and
wrappers of outside programs: they hold little state between two calls, and
what could go wrong in them is in data and layout, which a model of this
kind would leave out.

## 7. The plan

Done: the components of section 2. What remains, the most central first.

1. The life of a breakpoint in `breakpoints.c` over `DmaDebuggerQueue` (pending,
   added, changed and removed while the debugger answers or has gone).
2. `SearchFiles`: find in files over `AnjutaCommandQueue`, its `busy` flag and
   the cases where the queue is started empty.
3. `AnjutaPluginManager`, then profiles: the closure of dependencies and the
   order of activation as recursive functions checked against their
   definition as a relation, unload of dependents as a state machine.
4. The scan pipeline of symbol-db, over `AnjutaLauncher` at the level of its
   contract (an abstract specification of one run, which `AnjutaLauncher` would
   be shown to implement, and which `GdbDebugger` could use too).
5. More proofs: that `WorkHasProject` holds when every job pins the project, which is what a repair
   would do; that `GdbDebugger` keeps the contract that `DmaDebuggerQueue` assumes of its backend, in one composition of the two.

## 8. How to run it

    tlc -workers 2 -config AnjutaLauncher.cfg AnjutaLauncherMC.tla
    tlapm AnjutaLauncher_proofs.tla

Each `*MC.tla` extends a component and gives it a small instance; each `.cfg`
names the specification, the constants and the properties. A run named as a
violation in section 3 stops with a counterexample, by intent.
