----------------------- MODULE PmCommandQueue_proofs -----------------------
(***************************************************************************)
(* The two threads of PmCommandQueue without a lock, whatever the number   *)
(* of jobs: their functions never overlap, no job is forgotten, the        *)
(* structure is freed last, and the completions follow the order of the    *)
(* pushes.                                                                 *)
(*                                                                         *)
(* The counter busy is a token.  While the project lives it counts the one *)
(* job that is in the work queue, in the hands of the worker, in the done  *)
(* queue or in its complete function; the main thread runs a setup         *)
(* function only when it is 0. From the dispose on nothing is pushed, and  *)
(* once the join has returned the worker is over and the queues are empty: *)
(* what is left of the calls on the stack of the main thread only returns. *)
(*                                                                         *)
(* The order.  The jobs pushed, without the ones whose setup function has  *)
(* refused, are at every step those the worker has done, the one           *)
(* handed over, and those in the job queue, in this order; and those it    *)
(* has done are the completed ones, followed by the done queue.  Each step *)
(* moves one job across one of these borders.                              *)
(***************************************************************************)
EXTENDS PmCommandQueue, SequenceFilter_proofs

One(b) == IF b THEN 1 ELSE 0

\* The jobs that busy stands for.
Out ==
    Len(work_queue) + Len(done_queue)
        + One(worker = "work") + One(main \in {"complete", "freed"})

TokenInv ==
    ~cleared =>
        /\ work_queue \in Seq(Job)
        /\ done_queue \in Seq(Job)
        /\ worker \in {"pop", "work"}
        /\ busy = Out
        /\ main \in {"run", "setup"} => busy = 0

\* What the functions on the stack of the main thread still rely on.
StackInv ==
    /\ caller \in {"loop", "idle"}
    /\ worker = "work" => wjob \in Job
    /\ main = "setup" => mjob \in Job
    /\ Disposable => main \in {"loop", "complete", "freed", "run"}
    /\ main = "join" => cleared

\* The project has been disposed of.
StopInv ==
    /\ stopping <=> cleared
    /\ cleared =>
           /\ ~owned
           /\ main # "setup"
           /\ main = "join" =>
                  /\ resume = "run" => busy = 0
                  /\ resume \in {"complete", "freed"} => busy = 1
           /\ main = "run" => busy = 0
           /\ main \in {"complete", "freed"} => busy = 1
           /\ main # "join" =>
                  /\ job_queue = <<>>
                  /\ work_queue = <<>>
                  /\ done_queue = <<>>
                  /\ worker = "exited"

\* The idle function is attached exactly when idle_func says so, and as long
\* as a job is out; a job waits only behind one that is out, or while
\* run_command is about to take it.
SourceInv ==
    ~cleared =>
        /\ idling = idle_func
        /\ busy = 1 => idling
        /\ job_queue # <<>> /\ main = "loop" => busy = 1

FreeInv ==
    /\ freeing => cleared /\ main # "join"
    /\ memory = "freed" => cleared /\ ~idling /\ ~freeing /\ main = "loop"

IInv == TypeOK /\ TokenInv /\ StackInv /\ StopInv /\ SourceInv /\ FreeInv

-----------------------------------------------------------------------------
\* A new queue: no job is out, the idle function is attached.
LEMMA InitInv == Init => IInv
<1> SUFFICES ASSUME Init PROVE IInv
  OBVIOUS
<1> USE ConstantsAssumption DEF Init
<1>1. TypeOK
  <2>1. /\ idle_func \in BOOLEAN /\ stopping \in BOOLEAN /\ idling \in BOOLEAN
        /\ freeing \in BOOLEAN /\ owned \in BOOLEAN /\ cleared \in BOOLEAN
    OBVIOUS
  <2> QED
    BY <2>1 DEF TypeOK
<1>2. TokenInv
  BY DEF TokenInv, Out, One
<1>3. StackInv /\ StopInv
  BY DEF StackInv, StopInv, Disposable
<1>4. SourceInv /\ FreeInv
  BY DEF SourceInv, FreeInv
<1> QED
  BY <1>1, <1>2, <1>3, <1>4 DEF IInv

\* busy is decremented only for a job it counts, and nothing is appended to a
\* queue that does not belong there.
LEMMA TypeStep ==
    ASSUME IInv, [Next]_vars
    PROVE  TypeOK'
<1> USE ConstantsAssumption DEF IInv, TypeOK, StackInv, StopInv, TokenInv, Main, One, Out
<1>1. ASSUME NEW j \in Job, Push(j) PROVE TypeOK'
  <2>1. CASE busy = 0
    BY <1>1, <2>1 DEF Push, vars, fields, sources, thread, loop, project, hist
  <2>2. CASE busy # 0
    BY <1>1, <2>2 DEF Push, vars, fields, sources, thread, loop, project, hist
  <2> QED
    BY <2>1, <2>2
<1>2. CASE NextJob
  BY <1>2 DEF NextJob, vars, fields, sources, thread, loop, project, hist
<1>3. CASE NoJob
  <2>1. CASE caller = "idle"
    BY <1>3, <2>1, ZenonT(60) DEF NoJob, vars, fields, sources, thread, loop, project, hist
  <2>2. CASE caller = "loop"
    BY <1>3, <2>2 DEF NoJob, vars, fields, sources, thread, loop, project, hist
  <2> QED
    BY <2>1, <2>2
<1>4. CASE Setup
  BY <1>4 DEF Setup, vars, fields, sources, thread, loop, project, hist
<1>5. CASE Discard
  BY <1>5 DEF Discard, vars, fields, sources, thread, loop, project, hist
<1>6. CASE Idle
  BY <1>6 DEF Idle, vars, fields, sources, thread, loop, project, hist
<1>7. CASE IdleStops
  BY <1>7, ZenonT(60) DEF IdleStops, vars, fields, sources, thread, loop, project, hist
<1>8. CASE IdleCompletes
  BY <1>8 DEF IdleCompletes, vars, fields, sources, thread, loop, project, hist
<1>9. CASE IdleRuns
  BY <1>9 DEF IdleRuns, vars, fields, sources, thread, loop, project, hist
<1>10. CASE FreeJob
  BY <1>10 DEF FreeJob, vars, fields, sources, thread, loop, project, hist
<1>11. CASE EndJob
  BY <1>11 DEF EndJob, vars, fields, sources, thread, loop, project, hist
<1>12. CASE Dispose
  <2>1. main \in {"loop", "complete", "freed", "run"} /\ ~owned /\ ~cleared
    BY <1>12 DEF Dispose, Disposable
  <2>2. work_queue' \in Seq(Job \cup {exit})
    BY <1>12 DEF Dispose
  <2>3. cleared' \in BOOLEAN /\ stopping' \in BOOLEAN /\ idle_func' \in BOOLEAN
    BY <1>12 DEF Dispose
  <2> QED
    BY <1>12, <2>1, <2>2, <2>3 DEF Dispose, vars, fields, sources, thread, loop, project, hist
<1>13. CASE Join
  BY <1>13 DEF Join, vars, fields, sources, thread, loop, project, hist
<1>14. CASE DelayedFree
  BY <1>14, ZenonT(60) DEF DelayedFree, vars, fields, sources, thread, loop, project, hist
<1>15. CASE Unload
  <2>1. owned' \in BOOLEAN
    BY <1>15 DEF Unload
  <2> QED
    BY <1>15, <2>1 DEF Unload, vars, fields, sources, thread, loop, project, hist
<1>16. CASE Pop
  BY <1>16 DEF Pop, vars, fields, sources, thread, loop, project, hist
<1>17. CASE Work
  BY <1>17 DEF Work, vars, fields, sources, thread, loop, project, hist
<1>18. CASE ExitWork
  BY <1>18 DEF ExitWork, vars, fields, sources, thread, loop, project, hist
<1>19. CASE UNCHANGED vars
  BY <1>19 DEF vars, fields, sources, thread, loop, project, hist
<1> QED
  BY <1>1, <1>2, <1>3, <1>4, <1>5, <1>6, <1>7, <1>8, <1>9, <1>10, <1>11, <1>12, <1>13, <1>14, <1>15, <1>16, <1>17, <1>18, <1>19
     DEF Next, MainLoop, RunCommand, Worker

\* Every hand-over of a job moves the token.
LEMMA TokenStep ==
    ASSUME IInv, [Next]_vars
    PROVE  TokenInv'
<1> USE ConstantsAssumption DEF IInv, TypeOK, TokenInv, StackInv, Main, One, Out
<1>1. ASSUME NEW j \in Job, Push(j) PROVE TokenInv'
  BY <1>1, SMTT(30) DEF Push, vars, fields, sources, thread, loop, project, hist
<1>2. CASE NextJob
  BY <1>2 DEF NextJob, vars, fields, sources, thread, loop, project, hist
<1>3. CASE NoJob
  BY <1>3 DEF NoJob, vars, fields, sources, thread, loop, project, hist
<1>4. CASE Setup
  BY <1>4 DEF Setup, vars, fields, sources, thread, loop, project, hist
<1>5. CASE Discard
  BY <1>5 DEF Discard, vars, fields, sources, thread, loop, project, hist
<1>6. CASE Idle
  BY <1>6 DEF Idle, vars, fields, sources, thread, loop, project, hist
<1>7. CASE IdleStops
  BY <1>7 DEF IdleStops, vars, fields, sources, thread, loop, project, hist
<1>8. CASE IdleCompletes
  BY <1>8 DEF IdleCompletes, vars, fields, sources, thread, loop, project, hist
<1>9. CASE IdleRuns
  BY <1>9 DEF IdleRuns, vars, fields, sources, thread, loop, project, hist
<1>10. CASE FreeJob
  BY <1>10 DEF FreeJob, vars, fields, sources, thread, loop, project, hist
<1>11. CASE EndJob
  BY <1>11 DEF EndJob, vars, fields, sources, thread, loop, project, hist
<1>12. CASE Dispose
  BY <1>12 DEF Dispose, vars, fields, sources, thread, loop, project, hist
<1>13. CASE Join
  BY <1>13 DEF Join, vars, fields, sources, thread, loop, project, hist
<1>14. CASE DelayedFree
  BY <1>14 DEF DelayedFree, vars, fields, sources, thread, loop, project, hist
<1>15. CASE Unload
  BY <1>15 DEF Unload, vars, fields, sources, thread, loop, project, hist
<1>16. CASE Pop
  BY <1>16 DEF Pop, vars, fields, sources, thread, loop, project, hist
<1>17. CASE Work
  BY <1>17 DEF Work, vars, fields, sources, thread, loop, project, hist
<1>18. CASE ExitWork
  BY <1>18 DEF ExitWork, vars, fields, sources, thread, loop, project, hist
<1>19. CASE UNCHANGED vars
  BY <1>19 DEF vars, fields, sources, thread, loop, project, hist
<1> QED
  BY <1>1, <1>2, <1>3, <1>4, <1>5, <1>6, <1>7, <1>8, <1>9, <1>10, <1>11, <1>12, <1>13, <1>14, <1>15, <1>16, <1>17, <1>18, <1>19
     DEF Next, MainLoop, RunCommand, Worker

\* Functions are only called when their callers hold what they rely on.
LEMMA StackStep ==
    ASSUME IInv, [Next]_vars
    PROVE  StackInv'
<1> USE ConstantsAssumption DEF IInv, TypeOK, TokenInv, StackInv, StopInv, Main, Disposable, One, Out
<1>1. ASSUME NEW j \in Job, Push(j) PROVE StackInv'
  BY <1>1, SMTT(30) DEF Push, vars, fields, sources, thread, loop, project, hist
<1>2. CASE NextJob
  BY <1>2 DEF NextJob, vars, fields, sources, thread, loop, project, hist
<1>3. CASE NoJob
  BY <1>3 DEF NoJob, vars, fields, sources, thread, loop, project, hist
<1>4. CASE Setup
  BY <1>4 DEF Setup, vars, fields, sources, thread, loop, project, hist
<1>5. CASE Discard
  BY <1>5 DEF Discard, vars, fields, sources, thread, loop, project, hist
<1>6. CASE Idle
  BY <1>6 DEF Idle, vars, fields, sources, thread, loop, project, hist
<1>7. CASE IdleStops
  BY <1>7 DEF IdleStops, vars, fields, sources, thread, loop, project, hist
<1>8. CASE IdleCompletes
  BY <1>8 DEF IdleCompletes, vars, fields, sources, thread, loop, project, hist
<1>9. CASE IdleRuns
  BY <1>9 DEF IdleRuns, vars, fields, sources, thread, loop, project, hist
<1>10. CASE FreeJob
  BY <1>10 DEF FreeJob, vars, fields, sources, thread, loop, project, hist
<1>11. CASE EndJob
  BY <1>11 DEF EndJob, vars, fields, sources, thread, loop, project, hist
<1>12. CASE Dispose
  BY <1>12 DEF Dispose, vars, fields, sources, thread, loop, project, hist
<1>13. CASE Join
  BY <1>13 DEF Join, vars, fields, sources, thread, loop, project, hist
<1>14. CASE DelayedFree
  BY <1>14 DEF DelayedFree, vars, fields, sources, thread, loop, project, hist
<1>15. CASE Unload
  BY <1>15 DEF Unload, vars, fields, sources, thread, loop, project, hist
<1>16. CASE Pop
  BY <1>16 DEF Pop, vars, fields, sources, thread, loop, project, hist
<1>17. CASE Work
  BY <1>17 DEF Work, vars, fields, sources, thread, loop, project, hist
<1>18. CASE ExitWork
  BY <1>18 DEF ExitWork, vars, fields, sources, thread, loop, project, hist
<1>19. CASE UNCHANGED vars
  BY <1>19 DEF vars, fields, sources, thread, loop, project, hist
<1> QED
  BY <1>1, <1>2, <1>3, <1>4, <1>5, <1>6, <1>7, <1>8, <1>9, <1>10, <1>11, <1>12, <1>13, <1>14, <1>15, <1>16, <1>17, <1>18, <1>19
     DEF Next, MainLoop, RunCommand, Worker

\* The dispose finds the main thread where it may be interrupted, and nothing
\* it has emptied is filled again.
LEMMA StopStep ==
    ASSUME IInv, [Next]_vars
    PROVE  StopInv'
<1> USE ConstantsAssumption DEF IInv, TypeOK, TokenInv, StackInv, StopInv, Main, Disposable, One, Out
<1>1. ASSUME NEW j \in Job, Push(j) PROVE StopInv'
  BY <1>1 DEF Push, vars, fields, sources, thread, loop, project, hist
<1>2. CASE NextJob
  BY <1>2 DEF NextJob, vars, fields, sources, thread, loop, project, hist
<1>3. CASE NoJob
  <2>1. CASE caller = "idle"
    BY <1>3, <2>1 DEF NoJob, vars, fields, sources, thread, loop, project, hist
  <2>2. CASE caller = "loop"
    BY <1>3, <2>2 DEF NoJob, vars, fields, sources, thread, loop, project, hist
  <2> QED
    BY <2>1, <2>2
<1>4. CASE Setup
  BY <1>4 DEF Setup, vars, fields, sources, thread, loop, project, hist
<1>5. CASE Discard
  BY <1>5 DEF Discard, vars, fields, sources, thread, loop, project, hist
<1>6. CASE Idle
  BY <1>6 DEF Idle, vars, fields, sources, thread, loop, project, hist
<1>7. CASE IdleStops
  BY <1>7 DEF IdleStops, vars, fields, sources, thread, loop, project, hist
<1>8. CASE IdleCompletes
  BY <1>8 DEF IdleCompletes, vars, fields, sources, thread, loop, project, hist
<1>9. CASE IdleRuns
  BY <1>9 DEF IdleRuns, vars, fields, sources, thread, loop, project, hist
<1>10. CASE FreeJob
  BY <1>10 DEF FreeJob, vars, fields, sources, thread, loop, project, hist
<1>11. CASE EndJob
  BY <1>11 DEF EndJob, vars, fields, sources, thread, loop, project, hist
<1>12. CASE Dispose
  <2>1. main \in {"loop", "complete", "freed", "run"} /\ ~owned /\ ~cleared
    BY <1>12 DEF Dispose, Disposable
  <2> QED
    BY <1>12, <2>1 DEF Dispose, vars, fields, sources, thread, loop, project, hist
<1>13. CASE Join
  BY <1>13 DEF Join, vars, fields, sources, thread, loop, project, hist
<1>14. CASE DelayedFree
  BY <1>14 DEF DelayedFree, vars, fields, sources, thread, loop, project, hist
<1>15. CASE Unload
  BY <1>15 DEF Unload, vars, fields, sources, thread, loop, project, hist
<1>16. CASE Pop
  BY <1>16 DEF Pop, vars, fields, sources, thread, loop, project, hist
<1>17. CASE Work
  BY <1>17 DEF Work, vars, fields, sources, thread, loop, project, hist
<1>18. CASE ExitWork
  BY <1>18 DEF ExitWork, vars, fields, sources, thread, loop, project, hist
<1>19. CASE UNCHANGED vars
  BY <1>19 DEF vars, fields, sources, thread, loop, project, hist
<1> QED
  BY <1>1, <1>2, <1>3, <1>4, <1>5, <1>6, <1>7, <1>8, <1>9, <1>10, <1>11, <1>12, <1>13, <1>14, <1>15, <1>16, <1>17, <1>18, <1>19
     DEF Next, MainLoop, RunCommand, Worker

\* The idle function ends only when nothing waits.
LEMMA SourceStep ==
    ASSUME IInv, [Next]_vars
    PROVE  SourceInv'
<1> USE ConstantsAssumption DEF IInv, TypeOK, TokenInv, StackInv, StopInv, SourceInv, Main, One, Out
<1>1. ASSUME NEW j \in Job, Push(j) PROVE SourceInv'
  BY <1>1 DEF Push, vars, fields, sources, thread, loop, project, hist
<1>2. CASE NextJob
  BY <1>2 DEF NextJob, vars, fields, sources, thread, loop, project, hist
<1>3. CASE NoJob
  <2>1. CASE caller = "idle"
    <3>1. idling' = FALSE /\ idle_func' = FALSE /\ UNCHANGED <<job_queue, busy, cleared>>
      BY <1>3, <2>1 DEF NoJob, project
    <3>2. ~cleared => busy = 0 /\ job_queue = <<>>
      BY <1>3 DEF NoJob
    <3>3. idling' = idle_func'
      BY <3>1
    <3>4. ~cleared' => busy' # 1 /\ job_queue' = <<>>
      BY <3>1, <3>2
    <3> QED
      BY <3>3, <3>4
  <2>2. CASE caller = "loop"
    BY <1>3, <2>2 DEF NoJob, vars, fields, sources, thread, loop, project, hist
  <2> QED
    BY <2>1, <2>2
<1>4. CASE Setup
  BY <1>4 DEF Setup, vars, fields, sources, thread, loop, project, hist
<1>5. CASE Discard
  BY <1>5 DEF Discard, vars, fields, sources, thread, loop, project, hist
<1>6. CASE Idle
  BY <1>6 DEF Idle, vars, fields, sources, thread, loop, project, hist
<1>7. CASE IdleStops
  BY <1>7 DEF IdleStops, vars, fields, sources, thread, loop, project, hist
<1>8. CASE IdleCompletes
  BY <1>8 DEF IdleCompletes, vars, fields, sources, thread, loop, project, hist
<1>9. CASE IdleRuns
  BY <1>9 DEF IdleRuns, vars, fields, sources, thread, loop, project, hist
<1>10. CASE FreeJob
  BY <1>10 DEF FreeJob, vars, fields, sources, thread, loop, project, hist
<1>11. CASE EndJob
  BY <1>11 DEF EndJob, vars, fields, sources, thread, loop, project, hist
<1>12. CASE Dispose
  BY <1>12 DEF Dispose, vars, fields, sources, thread, loop, project, hist
<1>13. CASE Join
  BY <1>13 DEF Join, vars, fields, sources, thread, loop, project, hist
<1>14. CASE DelayedFree
  BY <1>14 DEF DelayedFree, vars, fields, sources, thread, loop, project, hist
<1>15. CASE Unload
  BY <1>15 DEF Unload, vars, fields, sources, thread, loop, project, hist
<1>16. CASE Pop
  BY <1>16 DEF Pop, vars, fields, sources, thread, loop, project, hist
<1>17. CASE Work
  BY <1>17 DEF Work, vars, fields, sources, thread, loop, project, hist
<1>18. CASE ExitWork
  BY <1>18 DEF ExitWork, vars, fields, sources, thread, loop, project, hist
<1>19. CASE UNCHANGED vars
  BY <1>19 DEF vars, fields, sources, thread, loop, project, hist
<1> QED
  BY <1>1, <1>2, <1>3, <1>4, <1>5, <1>6, <1>7, <1>8, <1>9, <1>10, <1>11, <1>12, <1>13, <1>14, <1>15, <1>16, <1>17, <1>18, <1>19
     DEF Next, MainLoop, RunCommand, Worker

\* The structure is freed when the idle function has gone.
LEMMA FreeStep ==
    ASSUME IInv, [Next]_vars
    PROVE  FreeInv'
<1> USE ConstantsAssumption DEF IInv, TypeOK, TokenInv, StopInv, FreeInv, StackInv, Main
<1>1. ASSUME NEW j \in Job, Push(j) PROVE FreeInv'
  BY <1>1 DEF Push, vars, fields, sources, thread, loop, project, hist
<1>2. CASE NextJob
  BY <1>2 DEF NextJob, vars, fields, sources, thread, loop, project, hist
<1>3. CASE NoJob
  BY <1>3 DEF NoJob, vars, fields, sources, thread, loop, project, hist
<1>4. CASE Setup
  BY <1>4 DEF Setup, vars, fields, sources, thread, loop, project, hist
<1>5. CASE Discard
  BY <1>5 DEF Discard, vars, fields, sources, thread, loop, project, hist
<1>6. CASE Idle
  BY <1>6 DEF Idle, vars, fields, sources, thread, loop, project, hist
<1>7. CASE IdleStops
  BY <1>7 DEF IdleStops, vars, fields, sources, thread, loop, project, hist
<1>8. CASE IdleCompletes
  BY <1>8 DEF IdleCompletes, vars, fields, sources, thread, loop, project, hist
<1>9. CASE IdleRuns
  BY <1>9 DEF IdleRuns, vars, fields, sources, thread, loop, project, hist
<1>10. CASE FreeJob
  BY <1>10 DEF FreeJob, vars, fields, sources, thread, loop, project, hist
<1>11. CASE EndJob
  BY <1>11 DEF EndJob, vars, fields, sources, thread, loop, project, hist
<1>12. CASE Dispose
  <2>1. ~owned /\ ~cleared
    BY <1>12 DEF Dispose, Disposable
  <2> QED
    BY <1>12, <2>1 DEF Dispose, vars, fields, sources, thread, loop, project, hist
<1>13. CASE Join
  BY <1>13 DEF Join, vars, fields, sources, thread, loop, project, hist
<1>14. CASE DelayedFree
  BY <1>14 DEF DelayedFree, vars, fields, sources, thread, loop, project, hist
<1>15. CASE Unload
  BY <1>15 DEF Unload, vars, fields, sources, thread, loop, project, hist
<1>16. CASE Pop
  BY <1>16 DEF Pop, vars, fields, sources, thread, loop, project, hist
<1>17. CASE Work
  BY <1>17 DEF Work, vars, fields, sources, thread, loop, project, hist
<1>18. CASE ExitWork
  BY <1>18 DEF ExitWork, vars, fields, sources, thread, loop, project, hist
<1>19. CASE UNCHANGED vars
  BY <1>19 DEF vars, fields, sources, thread, loop, project, hist
<1> QED
  BY <1>1, <1>2, <1>3, <1>4, <1>5, <1>6, <1>7, <1>8, <1>9, <1>10, <1>11, <1>12, <1>13, <1>14, <1>15, <1>16, <1>17, <1>18, <1>19
     DEF Next, MainLoop, RunCommand, Worker

-----------------------------------------------------------------------------
(* Theorems                                                                *)

\* The counter of the jobs that are out, and what the calls on the stack of
\* the main thread rely on, hold in every reachable state.
THEOREM Invariant == Spec => []IInv
<1>1. IInv /\ [Next]_vars => IInv'
  BY TypeStep, TokenStep, StackStep, StopStep, SourceStep, FreeStep DEF IInv
<1> QED
  BY InitInv, <1>1, PTL DEF Spec

\* busy stays 0 or 1: it is never decremented for a job that it does not
\* count, be it the exit job or one freed by the dispose.
THEOREM TypeCorrect == Spec => []TypeOK
<1>1. IInv => TypeOK
  BY DEF IInv
<1> QED
  BY Invariant, <1>1, PTL

\* Setup and complete functions, which change the links of the nodes, never
\* run while the worker runs a work function, which follows them.
THEOREM NoOverlap == Spec => []FunctionsApart
<1>1. IInv => FunctionsApart
  <2> SUFFICES ASSUME IInv PROVE FunctionsApart
    OBVIOUS
  <2>1. CASE cleared
    BY <2>1 DEF IInv, StopInv, FunctionsApart
  <2>2. CASE ~cleared
    BY <2>2 DEF IInv, TypeOK, TokenInv, Out, One, FunctionsApart
  <2> QED
    BY <2>1, <2>2
<1> QED
  BY Invariant, <1>1, PTL

\* A queue with work left is busy and its idle function attached when the
\* main thread is back in its loop, from wherever the jobs were pushed.
THEOREM NoJobForgotten == Spec => []NoStall
<1>1. IInv => NoStall
  <2> SUFFICES ASSUME IInv, main = "loop", ~stopping PROVE NoStall
    BY DEF NoStall
  <2>1. ~cleared
    BY DEF IInv, StopInv
  <2>2. /\ job_queue # <<>> => busy = 1
        /\ busy = 1 => idling /\ idle_func
    BY <2>1 DEF IInv, SourceInv
  <2>3. busy = 0 => work_queue = <<>> /\ worker = "pop" /\ done_queue = <<>>
    BY <2>1 DEF IInv, TypeOK, TokenInv, Out, One
  <2> QED
    BY <2>2, <2>3 DEF NoStall
<1> QED
  BY Invariant, <1>1, PTL

\* The structure is freed after the worker has been joined and when no source
\* and no call on the stack of the main thread uses it, wherever the last
\* reference on the project was dropped.
THEOREM FreedLast == Spec => []NoUseAfterFree
<1>1. IInv => NoUseAfterFree
  BY DEF IInv, StopInv, FreeInv, NoUseAfterFree
<1> QED
  BY Invariant, <1>1, PTL

-----------------------------------------------------------------------------
(* The order of the jobs                                                   *)

\* The jobs whose setup has not refused, in the order they were pushed.
Kept == Filter(pushed, Job \ discarded)

\* The job between the queue and the end of its work function.
Handed ==
    IF worker = "work" THEN <<wjob>>
    ELSE IF work_queue # <<>> /\ Head(work_queue) # exit THEN <<Head(work_queue)>>
    ELSE IF main = "setup" THEN <<mjob>>
    ELSE <<>>

\* A job is pushed once, and refused after it has been pushed.
HistoryInv == IsInjective(pushed) /\ discarded \subseteq Range(pushed)

\* Every job that was not refused is done, handed over or waiting, in that
\* order; the dispose drops what waits.
LineInv ==
    /\ ~cleared => Kept = worked \o Handed \o job_queue
    /\ cleared => \E rest \in Seq(Job) : Kept = worked \o Handed \o rest

\* What is done is completed or waits for it, in that order.
DoneInv ==
    /\ ~cleared => completed \o done_queue = worked
    /\ cleared => \E rest \in Seq(Job) : completed \o rest = worked

\* The exit job is the last of the worker.
ExitInv ==
    cleared =>
        /\ worker = "pop" => \/ work_queue = <<exit>>
                             \/ \E j \in Job : work_queue = <<j, exit>>
        /\ worker = "work" => work_queue = <<exit>>
        /\ worker \in {"exit", "exited"} => work_queue = <<>>

OrderInv == HistoryInv /\ LineInv /\ DoneInv /\ ExitInv

\* Nothing has been pushed.
LEMMA InitOrder == Init => OrderInv
<1> SUFFICES ASSUME Init PROVE OrderInv
  OBVIOUS
<1>1. HistoryInv
  BY DEF Init, HistoryInv, IsInjective
<1>2. LineInv
  <2>1. Kept = <<>> /\ Handed = <<>>
    BY FilterEmpty DEF Init, Kept, Handed
  <2> QED
    BY <2>1 DEF Init, LineInv
<1>3. DoneInv /\ ExitInv
  BY DEF Init, DoneInv, ExitInv
<1> QED
  BY <1>1, <1>2, <1>3 DEF OrderInv

\* At most one job is out.
LEMMA BusyCounts ==
    ASSUME TypeOK, TokenInv, ~cleared
    PROVE  /\ Len(work_queue) \in {0, 1}
           /\ worker = "work" => work_queue = <<>> /\ main # "setup"
           /\ busy = 0 => work_queue = <<>> /\ worker # "work"
<1>1. /\ Len(work_queue) \in Nat /\ Len(done_queue) \in Nat
      /\ busy \in {0, 1}
      /\ busy = Len(work_queue) + Len(done_queue)
              + (IF worker = "work" THEN 1 ELSE 0)
              + (IF main \in {"complete", "freed"} THEN 1 ELSE 0)
      /\ main = "setup" => busy = 0
  BY DEF TypeOK, TokenInv, Out, One
<1>2. Len(work_queue) = 0 => work_queue = <<>>
  BY EmptySeq DEF TypeOK
<1>3. Len(work_queue) \in {0, 1}
  BY ONLY <1>1, SMTT(30)
<1>4. worker = "work" => Len(work_queue) = 0 /\ main # "setup"
  BY ONLY <1>1
<1>5. busy = 0 => Len(work_queue) = 0 /\ worker # "work"
  BY ONLY <1>1
<1> QED
  BY ONLY <1>2, <1>3, <1>4, <1>5

\* Only push and a refusal add to these two.
LEMMA HistoryStep ==
    ASSUME IInv, OrderInv, [Next]_vars
    PROVE  HistoryInv'
<1> USE DEF IInv, TypeOK, OrderInv, HistoryInv
<1>1. ASSUME NEW j \in Job, Push(j) PROVE HistoryInv'
  <2>1. pushed' = Append(pushed, j) /\ discarded' = discarded /\ ~Contains(pushed, j)
    BY <1>1 DEF Push
  <2>2. \A i \in 1 .. Len(pushed) : pushed[i] # j
    BY <2>1 DEF Contains
  <2>3. /\ Len(pushed) \in Nat
        /\ DOMAIN pushed = 1 .. Len(pushed)
        /\ DOMAIN pushed' = 1 .. Len(pushed) + 1
        /\ \A i \in 1 .. Len(pushed) : pushed'[i] = pushed[i]
        /\ pushed'[Len(pushed) + 1] = j
    BY <2>1
  <2>4. IsInjective(pushed')
    BY <2>2, <2>3 DEF IsInjective
  <2>5. Range(pushed') = Range(pushed) \cup {j}
    BY <2>1, RangeAppend
  <2> QED
    BY <2>1, <2>4, <2>5
<1>2. CASE Discard
  <2>1. mjob \in Job /\ main = "setup" /\ ~cleared
    BY <1>2 DEF Discard, Main, StackInv, StopInv
  <2>2. worker # "work" /\ work_queue = <<>>
    BY <2>1 DEF TokenInv, Out, One
  <2>3. Kept = worked \o <<mjob>> \o job_queue
    BY <2>1, <2>2 DEF LineInv, Handed
  <2>4. mjob \in Range(Kept)
    <3>1. Kept = Append(worked, mjob) \o job_queue
      BY <2>1, <2>3, AppendIsConcat
    <3>2. mjob \in Range(Append(worked, mjob) \o job_queue)
      BY <2>1, MiddleIn
    <3> QED
      BY ONLY <3>1, <3>2
  <2>5. Range(Kept) \subseteq Range(pushed)
    BY FilterRange DEF Kept
  <2>6. discarded' = discarded \cup {mjob} /\ pushed' = pushed
    BY <1>2 DEF Discard
  <2> QED
    BY <2>4, <2>5, <2>6
<1>3. CASE UNCHANGED <<pushed, discarded>>
  BY <1>3
<1>4. CASE Unload
  BY <1>3, <1>4 DEF Unload, hist
<1>5. CASE MainLoop /\ ~Discard
  BY <1>3, <1>5 DEF MainLoop, RunCommand, Idle, IdleStops, IdleCompletes, IdleRuns,
         FreeJob, EndJob, NextJob, NoJob, Setup, Dispose, Join, DelayedFree, hist
<1>6. CASE Worker
  BY <1>3, <1>6 DEF Worker, Pop, Work, ExitWork, hist
<1>7. CASE UNCHANGED vars
  BY <1>3, <1>7 DEF vars, hist
<1> QED
  BY <1>1, <1>2, <1>4, <1>5, <1>6, <1>7 DEF Next, MainLoop, RunCommand

\* The worker pops the exit job after every other.
LEMMA ExitStep ==
    ASSUME IInv, OrderInv, [Next]_vars
    PROVE  ExitInv'
<1> USE ConstantsAssumption DEF IInv, TypeOK, OrderInv, ExitInv
<1>1. CASE Dispose
  <2>1. /\ ~cleared
        /\ worker' = worker
        /\ work_queue' = Append(work_queue, exit)
    BY <1>1 DEF Dispose, Disposable, thread
  <2>2. /\ worker \in {"pop", "work"}
        /\ work_queue \in Seq(Job)
        /\ worker = "work" => work_queue = <<>>
        /\ worker = "pop" => Len(work_queue) \in {0, 1}
    BY <2>1, BusyCounts DEF TokenInv
  <2>3. CASE work_queue = <<>>
    BY <2>1, <2>2, <2>3
  <2>4. CASE work_queue # <<>>
    <3>1. worker = "pop" /\ Len(work_queue) = 1
      BY <2>2, <2>4
    <3>2. work_queue[1] \in Job /\ work_queue = <<work_queue[1]>>
      BY <2>2, <3>1, Single
    <3>3. Append(<<work_queue[1]>>, exit) = <<work_queue[1], exit>>
      BY AppendSingle, Zenon
    <3> QED
      BY <2>1, <3>1, <3>2, <3>3, Zenon
  <2> QED
    BY <2>3, <2>4
<1>2. CASE Join
  BY <1>2 DEF Join, thread
<1>3. CASE Pop
  <2>1. /\ cleared' = cleared /\ worker = "pop"
        /\ wjob' = Head(work_queue) /\ work_queue' = Tail(work_queue)
        /\ worker' = IF wjob' = exit THEN "exit" ELSE "work"
    BY <1>3 DEF Pop, project
  <2>2. CASE work_queue = <<exit>>
    BY <2>1, <2>2
  <2>3. ASSUME NEW j \in Job, work_queue = <<j, exit>> PROVE ExitInv'
    <3>1. wjob' = j /\ work_queue' = <<exit>> /\ j # exit
      BY <2>1, <2>3
    <3> QED
      BY <2>1, <3>1
  <2>4. CASE ~cleared
    BY <2>1, <2>4
  <2> QED
    BY <2>1, <2>2, <2>3, <2>4
<1>4. CASE Work
  BY <1>4 DEF Work, project
<1>5. CASE ExitWork
  BY <1>5 DEF ExitWork, project
<1>6. CASE Setup
  <2>1. ~cleared'
    BY <1>6 DEF Setup, Main, StopInv, project
  <2> QED
    BY <2>1
<1>7. CASE UNCHANGED <<cleared, worker, work_queue>>
  BY <1>7
<1>8. CASE Unload
  BY <1>7, <1>8 DEF Unload, fields, thread
<1>9. CASE MainLoop /\ ~Dispose /\ ~Join /\ ~Setup
  BY <1>7, <1>9 DEF MainLoop, RunCommand, Idle, IdleStops, IdleCompletes, IdleRuns,
         FreeJob, EndJob, NextJob, NoJob, Discard, DelayedFree, fields, thread, project
<1>10. ASSUME NEW j \in Job, Push(j) PROVE ExitInv'
  BY <1>7, <1>10 DEF Push, thread
<1>11. CASE UNCHANGED vars
  BY <1>7, <1>11 DEF vars, fields, thread, project
<1> QED
  BY <1>1, <1>2, <1>3, <1>4, <1>5, <1>6, <1>8, <1>9, <1>10, <1>11
     DEF Next, MainLoop, RunCommand, Worker

\* What the worker has done is completed from the head of the done queue.
LEMMA DoneStep ==
    ASSUME IInv, OrderInv, [Next]_vars
    PROVE  DoneInv'
<1> USE ConstantsAssumption DEF IInv, TypeOK, OrderInv, DoneInv
<1>1. CASE IdleCompletes
  <2>1. /\ ~cleared /\ cleared' = cleared /\ worked' = worked
        /\ done_queue # <<>>
        /\ completed' = Append(completed, Head(done_queue))
        /\ done_queue' = Tail(done_queue)
    BY <1>1 DEF IdleCompletes, Main, StopInv, project
  <2>2. done_queue \in Seq(Job)
    BY <2>1 DEF TokenInv
  <2>3. Append(completed, Head(done_queue)) \o Tail(done_queue) = completed \o done_queue
    BY <2>1, <2>2
  <2> QED
    BY <2>1, <2>3
<1>2. CASE Work
  <2>1. /\ cleared' = cleared /\ completed' = completed
        /\ wjob \in Job
        /\ worked' = Append(worked, wjob)
        /\ done_queue' = Append(done_queue, wjob)
    BY <1>2 DEF Work, StackInv, project
  <2>2. ASSUME NEW rest \in Seq(Job), completed \o rest = worked
        PROVE  Append(rest, wjob) \in Seq(Job) /\ completed \o Append(rest, wjob) = worked'
    <3>1. Append(rest, wjob) \in Seq(Job)
      BY <2>1, AppendProperties
    <3>2. completed \o Append(rest, wjob) = Append(completed \o rest, wjob)
      BY <2>1, ConcatAppend, SMTT(30)
    <3> QED
      BY <2>1, <2>2, <3>1, <3>2
  <2>3. CASE cleared
    BY <2>1, <2>2, <2>3
  <2>4. CASE ~cleared
    BY <2>1, <2>2, <2>4 DEF TokenInv
  <2> QED
    BY <2>3, <2>4
<1>3. CASE Dispose
  BY <1>3 DEF Dispose, Disposable, hist, TokenInv
<1>4. CASE Join
  BY <1>4 DEF Join, hist, StackInv
<1>5. CASE ExitWork
  BY <1>5 DEF ExitWork, TokenInv, hist, project
<1>6. CASE UNCHANGED <<cleared, worked, completed, done_queue>>
  BY <1>6
<1>7. CASE Unload
  BY <1>6, <1>7 DEF Unload, fields, hist
<1>8. CASE MainLoop /\ ~Dispose /\ ~Join /\ ~IdleCompletes
  BY <1>6, <1>8 DEF MainLoop, RunCommand, Idle, IdleStops, Setup, IdleRuns,
         FreeJob, EndJob, NextJob, NoJob, Discard, DelayedFree, fields, project, hist
<1>9. ASSUME NEW j \in Job, Push(j) PROVE DoneInv'
  BY <1>6, <1>9 DEF Push
<1>10. CASE Pop
  BY <1>6, <1>10 DEF Pop, project, hist
<1>11. CASE UNCHANGED vars
  BY <1>6, <1>11 DEF vars, fields, hist, project
<1> QED
  BY <1>1, <1>2, <1>3, <1>4, <1>5, <1>7, <1>8, <1>9, <1>10, <1>11
     DEF Next, MainLoop, RunCommand, Worker

\* The jobs handed over, in order, are a sequence of jobs.
LEMMA HandedType ==
    ASSUME IInv
    PROVE  Handed \in Seq(Job)
<1> USE ConstantsAssumption
<1>1. worker = "work" => <<wjob>> \in Seq(Job)
  BY DEF IInv, StackInv
<1>2. work_queue # <<>> /\ Head(work_queue) # exit => <<Head(work_queue)>> \in Seq(Job)
  BY DEF IInv, TypeOK
<1>3. main = "setup" => <<mjob>> \in Seq(Job)
  BY DEF IInv, StackInv
<1> QED
  BY <1>1, <1>2, <1>3 DEF Handed

\* A prefix of a sequence is a prefix of it with more at its end.
LEMMA PrefixOfConcat ==
    ASSUME NEW T, NEW s \in Seq(T), NEW t \in Seq(T)
    PROVE  IsPrefix(s, s \o t)
<1>1. /\ Len(s) \in Nat /\ Len(t) \in Nat
      /\ Len(s \o t) = Len(s) + Len(t)
      /\ \A i \in 1 .. Len(s) + Len(t) : (s \o t)[i] =
             IF i <= Len(s) THEN s[i] ELSE t[i - Len(s)]
  BY ConcatProperties, LenProperties
<1>2. \A i \in 1 .. Len(s) : (s \o t)[i] = s[i] /\ s[i] \in T
  BY <1>1, ElementOfSeq
<1>3. SubSeq(s \o t, 1, Len(s)) = SubSeq(s, 1, Len(s))
  <2> DEFINE u == SubSeq(s \o t, 1, Len(s))
             v == SubSeq(s, 1, Len(s))
  <2>1. /\ u \in Seq(T) /\ Len(u) = Len(s)
        /\ \A i \in 1 .. Len(s) : u[i] = (s \o t)[i]
    BY <1>1, <1>2
  <2>2. v = s
    BY SubSeqFull
  <2> HIDE DEF u, v
  <2> QED
    BY <1>2, <2>1, <2>2, SeqEqual
<1> QED
  BY <1>1, <1>3 DEF IsPrefix

\* A job takes its turn: it is handed over from the head of the queue, and
\* done when nothing else is handed over.
LEMMA LineStep ==
    ASSUME IInv, OrderInv, [Next]_vars
    PROVE  LineInv'
<1> USE ConstantsAssumption DEF IInv, TypeOK, OrderInv, LineInv
<1> DEFINE Idling == worker # "work" /\ work_queue = <<>>
<1>0. ~cleared /\ busy = 0 => Idling
  BY BusyCounts
<1>t. pushed \in Seq(Job) /\ worked \in Seq(Job) /\ job_queue \in Seq(Job)
  OBVIOUS
<1>1. ASSUME NEW j \in Job, Push(j) PROVE LineInv'
  <2>1. /\ ~cleared /\ cleared' = cleared
        /\ main # "setup" /\ main' # "setup"
        /\ pushed' = Append(pushed, j) /\ job_queue' = Append(job_queue, j)
        /\ ~Contains(pushed, j)
        /\ UNCHANGED <<discarded, worked, worker, wjob, work_queue>>
    BY <1>1 DEF Push, Main, StopInv, thread
  <2>2. Handed' = Handed
    BY <2>1 DEF Handed
  <2>3. j \notin discarded
    <3>1. DOMAIN pushed = 1 .. Len(pushed)
      OBVIOUS
    <3>2. j \notin Range(pushed)
      BY <2>1, <3>1 DEF Contains, Range
    <3> QED
      BY <3>2 DEF HistoryInv
  <2>4. Kept' = Append(Kept, j)
    <3>1. Filter(Append(pushed, j), Job \ discarded) = Append(Filter(pushed, Job \ discarded), j)
      <4> DEFINE S == Job \ discarded
      <4>1. j \in S
        BY <2>3
      <4>2. \A q \in Seq(Job), x \in Job :
                x \in S => Filter(Append(q, x), S) = Append(Filter(q, S), x)
        <5> HIDE DEF S
        <5> QED
          BY FilterAppend
      <4>3. Filter(Append(pushed, j), S) = Append(Filter(pushed, S), j)
        <5> HIDE DEF S
        <5> QED
          BY ONLY <1>t, <4>1, <4>2, j \in Job
      <4> QED
        BY <4>3
    <3> QED
      BY <2>1, <3>1 DEF Kept
  <2>5. worked \o Handed \in Seq(Job)
    BY <2>1, HandedType, ConcatProperties
  <2>6. (worked \o Handed) \o Append(job_queue, j) = Append((worked \o Handed) \o job_queue, j)
    BY ONLY <1>t, <2>5, j \in Job, ConcatAppend
  <2> QED
    BY <2>1, <2>2, <2>4, <2>6
<1>2. CASE NextJob
  <2>1. /\ ~cleared /\ cleared' = cleared
        /\ main = "run" /\ main' = "setup"
        /\ job_queue # <<>>
        /\ mjob' = Head(job_queue) /\ job_queue' = Tail(job_queue)
        /\ UNCHANGED <<pushed, discarded, worked, worker, wjob, work_queue>>
    BY <1>2 DEF NextJob, Main, StopInv, thread, hist, project
  <2>2. Idling
    BY <1>0, <2>1 DEF TokenInv
  <2>3. Handed = <<>> /\ Handed' = <<Head(job_queue)>>
    BY <2>1, <2>2 DEF Handed
  <2>4. worked \o <<>> \o job_queue = worked \o <<Head(job_queue)>> \o Tail(job_queue)
    BY <2>1, HeadMoves
  <2>5. Kept' = Kept
    BY <2>1 DEF Kept
  <2> QED
    BY <2>1, <2>3, <2>4, <2>5
<1>3. CASE Setup
  <2>1. /\ ~cleared /\ cleared' = cleared
        /\ main = "setup" /\ main' # "setup"
        /\ work_queue' = Append(work_queue, mjob)
        /\ UNCHANGED <<pushed, discarded, worked, job_queue, worker, wjob>>
        /\ mjob \in Job
    BY <1>3 DEF Setup, Main, StopInv, StackInv, thread, hist, project
  <2>2. Idling
    BY <1>0, <2>1 DEF TokenInv
  <2>3. Handed = <<mjob>> /\ Handed' = <<mjob>>
    BY <2>1, <2>2 DEF Handed
  <2>4. Kept' = Kept
    BY <2>1 DEF Kept
  <2> QED
    BY <2>1, <2>3, <2>4
<1>4. CASE Discard
  <2>1. /\ ~cleared /\ cleared' = cleared
        /\ main = "setup" /\ main' # "setup"
        /\ discarded' = discarded \cup {mjob}
        /\ UNCHANGED <<pushed, worked, job_queue, worker, wjob, work_queue>>
        /\ mjob \in Job
    BY <1>4 DEF Discard, Main, StopInv, StackInv, thread, fields
  <2>2. Idling
    BY <1>0, <2>1 DEF TokenInv
  <2>3. Handed = <<mjob>> /\ Handed' = <<>>
    BY <2>1, <2>2 DEF Handed
  <2>4. Kept = worked \o <<mjob>> \o job_queue
    BY <2>1, <2>3
  <2>5. Kept' = Filter(Kept, Job \ {mjob})
    <3>1. (Job \ discarded) \cap (Job \ {mjob}) = Job \ (discarded \cup {mjob})
      OBVIOUS
    <3> QED
      BY <2>1, <3>1, FilterTwice DEF Kept
  <2>6. IsInjective(Kept)
    BY FilterDistinct DEF Kept, HistoryInv
  <2>7. Kept' = worked \o job_queue
    <3> DEFINE S == Job \ {mjob}
    <3>1. mjob \in Job /\ mjob \notin S /\ Job \ {mjob} \subseteq S
      BY <2>1
    <3>2. Kept = Append(worked, mjob) \o job_queue
      BY <2>1, <2>4, AppendIsConcat
    <3>3. IsInjective(Append(worked, mjob) \o job_queue)
      BY ONLY <2>6, <3>2
    <3>4. Filter(Append(worked, mjob) \o job_queue, S) = worked \o job_queue
      <4> HIDE DEF S
      <4> QED
        BY ONLY <1>t, <3>1, <3>3, MiddleGone
    <3> QED
      BY ONLY <2>5, <3>2, <3>4
  <2>8. worked \o <<>> = worked
    BY ConcatEmptySeq
  <2> QED
    BY <2>1, <2>3, <2>7, <2>8
<1>5. CASE Pop
  <2>1. /\ cleared' = cleared /\ main' = main
        /\ worker = "pop" /\ work_queue # <<>>
        /\ wjob' = Head(work_queue) /\ work_queue' = Tail(work_queue)
        /\ worker' = IF wjob' = exit THEN "exit" ELSE "work"
        /\ UNCHANGED <<pushed, discarded, worked, job_queue, mjob>>
    BY <1>5 DEF Pop, loop, hist, project
  <2>2. main # "setup"
    BY <1>0, <2>1 DEF TokenInv, StopInv
  <2>3. Handed' = Handed
    <3>1. CASE Head(work_queue) # exit
      BY <2>1, <3>1 DEF Handed
    <3>2. CASE Head(work_queue) = exit
      <4>1. cleared
        BY <2>1, <3>2 DEF TokenInv
      <4>2. work_queue = <<exit>>
        BY <2>1, <3>2, <4>1 DEF ExitInv
      <4>3. Handed = <<>>
        BY <2>1, <2>2, <4>2 DEF Handed
      <4>4. work_queue' = <<>> /\ worker' = "exit"
        BY <2>1, <4>2
      <4> QED
        BY <2>1, <2>2, <4>3, <4>4 DEF Handed
    <3> QED
      BY <3>1, <3>2
  <2>4. Kept' = Kept
    BY <2>1 DEF Kept
  <2> QED
    BY <2>1, <2>3, <2>4
<1>6. CASE Work
  <2>1. /\ cleared' = cleared /\ main' = main
        /\ worker = "work" /\ worker' = "pop"
        /\ worked' = Append(worked, wjob)
        /\ UNCHANGED <<pushed, discarded, work_queue, job_queue, mjob>>
        /\ wjob \in Job
    BY <1>6 DEF Work, StackInv, loop, project
  <2>2. main # "setup"
    BY <2>1, BusyCounts DEF StopInv
  <2>3. work_queue = <<>> \/ work_queue = <<exit>>
    BY <2>1, BusyCounts DEF ExitInv
  <2>4. Handed = <<wjob>> /\ Handed' = <<>>
    BY <2>1, <2>2, <2>3 DEF Handed
  <2>5. worked \o <<wjob>> = worked' \o <<>>
    BY <2>1, AppendIsConcat, AppendProperties, ConcatEmptySeq
  <2>6. Kept' = Kept
    BY <2>1 DEF Kept
  <2> QED
    BY <2>1, <2>4, <2>5, <2>6
<1>7. CASE ExitWork
  <2>1. /\ cleared /\ cleared' = cleared /\ main' = main
        /\ worker = "exit" /\ worker' = "exited"
        /\ UNCHANGED <<pushed, discarded, worked, work_queue, job_queue, mjob>>
    BY <1>7 DEF ExitWork, TokenInv, loop, project, hist
  <2>2. Handed' = Handed /\ Kept' = Kept
    BY <2>1 DEF Handed, Kept
  <2> QED
    BY <2>1, <2>2
<1>8. CASE Dispose
  <2>1. /\ ~cleared /\ cleared'
        /\ main # "setup" /\ main' # "setup"
        /\ work_queue' = Append(work_queue, exit)
        /\ UNCHANGED <<pushed, discarded, worked, worker, wjob, job_queue>>
    BY <1>8 DEF Dispose, Disposable, StackInv, thread, hist
  <2>2. work_queue \in Seq(Job)
    BY <2>1 DEF TokenInv
  <2>3. Handed' = Handed
    <3>1. CASE work_queue = <<>>
      BY <2>1, <3>1 DEF Handed
    <3>2. CASE work_queue # <<>>
      <4>1. Head(work_queue') = Head(work_queue) /\ work_queue' # <<>>
        BY <2>1, <2>2, <3>2, HeadAppend
      <4> QED
        BY <2>1, <3>2, <4>1 DEF Handed
    <3> QED
      BY <3>1, <3>2
  <2>4. Kept' = Kept
    BY <2>1 DEF Kept
  <2> QED
    BY <2>1, <2>3, <2>4
<1>9. CASE Join
  <2>1. /\ cleared /\ cleared' = cleared
        /\ worker = "exited" /\ worker' = worker
        /\ work_queue' = <<>>
        /\ main # "setup" /\ main' # "setup"
        /\ UNCHANGED <<pushed, discarded, worked>>
    BY <1>9 DEF Join, StackInv, thread, hist
  <2>2. work_queue = <<>>
    BY <2>1 DEF ExitInv
  <2>3. Handed' = Handed /\ Kept' = Kept
    BY <2>1, <2>2 DEF Handed, Kept
  <2> QED
    BY <2>1, <2>3
<1>10. ASSUME UNCHANGED <<cleared, pushed, discarded, worked, worker, wjob, work_queue, job_queue>>,
              main # "setup", main' # "setup"
       PROVE  LineInv'
  <2>1. Handed' = Handed /\ Kept' = Kept
    BY <1>10 DEF Handed, Kept
  <2> QED
    BY <1>10, <2>1
<1>11. CASE NoJob
  BY <1>10, <1>11 DEF NoJob, Main, StackInv, thread, hist, project
<1>12. CASE Idle \/ IdleStops \/ IdleCompletes \/ IdleRuns
  BY <1>10, <1>12 DEF Idle, IdleStops, IdleCompletes, IdleRuns, Main, fields, thread, hist, project
<1>13. CASE FreeJob \/ EndJob \/ DelayedFree
  BY <1>10, <1>13 DEF FreeJob, EndJob, DelayedFree, Main, fields, loop, thread, hist, project
<1>14. CASE Unload
  BY <1>10, <1>14 DEF Unload, Main, fields, loop, thread, hist, project
<1>15. CASE UNCHANGED vars
  <2>1. Handed' = Handed /\ Kept' = Kept
    BY <1>15 DEF Handed, Kept, vars, fields, loop, thread, hist
  <2> QED
    BY <1>15, <2>1 DEF vars, fields, hist, project
<1> QED
  BY <1>1, <1>2, <1>3, <1>4, <1>5, <1>6, <1>7, <1>8, <1>9, <1>11, <1>12, <1>13, <1>14, <1>15
     DEF Next, MainLoop, RunCommand, Worker

\* The jobs pushed and not discarded are, in order, those done, the one in hand, the
\* finished ones that wait and the queued ones: pm_command_queue_push, the worker
\* and pm_command_queue_idle keep this while they interleave.
THEOREM OrderInvariant == Spec => []OrderInv
<1>1. IInv /\ OrderInv /\ [Next]_vars => OrderInv'
  BY HistoryStep, LineStep, DoneStep, ExitStep DEF OrderInv
<1> QED
  BY Invariant, InitOrder, <1>1, PTL DEF Spec

\* The completions follow the order of the pushes (pm_command_queue_push to the
\* complete function of each job), without the jobs whose node is removed while
\* they wait, whatever the threads do between two steps of each other.
THEOREM JobsInOrder == Spec => []InOrder
<1>1. IInv /\ OrderInv => InOrder
  <2> SUFFICES ASSUME IInv, OrderInv PROVE InOrder
    OBVIOUS
  <2>1. Kept \in Seq(Job)
    BY FilterIsSeq DEF Kept, IInv, TypeOK
  <2>2. IsPrefix(worked, Kept)
    <3>1. PICK rest \in Seq(Job) : Kept = worked \o Handed \o rest
      BY DEF IInv, TypeOK, OrderInv, LineInv
    <3>2. Handed \in Seq(Job) /\ worked \in Seq(Job)
      BY HandedType DEF IInv, TypeOK
    <3>3. Kept = worked \o (Handed \o rest) /\ Handed \o rest \in Seq(Job)
      BY <3>1, <3>2, ConcatAssociative, ConcatProperties
    <3> QED
      BY <3>2, <3>3, PrefixOfConcat
  <2>3. IsPrefix(completed, worked)
    <3>1. \E rest \in Seq(Job) : worked = completed \o rest
      BY DEF IInv, TokenInv, OrderInv, DoneInv
    <3> QED
      BY <3>1, PrefixOfConcat DEF IInv, TypeOK
  <2> QED
    BY <2>2, <2>3 DEF InOrder, Kept
<1> QED
  BY Invariant, OrderInvariant, <1>1, PTL
=============================================================================
