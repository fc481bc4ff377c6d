------------------------ MODULE AnjutaLauncher_proofs ------------------------
(***************************************************************************)
(* As long as no child closes both of its outputs before it exits, every   *)
(* run of the launcher ends as its client needs: the completion source is  *)
(* scheduled when it is due, the output arrives before child-exited,       *)
(* child-exited tells the truth, once, and no source is left behind.  For  *)
(* any number of runs, any amount of output and any codes.                 *)
(***************************************************************************)
EXTENDS AnjutaLauncher, TLAPS

\* What is in the pipes: nothing is delivered that was not written, and a pipe
\* that is done is closed and empty.
PipesInv ==
    /\ \A ch \in Channel :
           delivered[ch] + held[ch] <= written[ch] /\ due[ch] <= written[ch]
    /\ written["stdout"] + written["stderr"] <= MaxOutput
    /\ \A ch \in is_done :
           ch \notin open /\ delivered[ch] + held[ch] = written[ch]

\* A busy launcher has the last child forked as its child; one that is not has
\* nothing.
RunInv ==
    /\ busy => alive /\ child_pid = forks /\ child_pid \in Pid
    /\ busy => exited[child_pid] = <<>>
    /\ ~busy => is_done = {} /\ held = None
    /\ timeout = "check" => is_done = Channel
    /\ timeout = "exit" => child_has_terminated
    /\ \A p \in Pid : p > forks => proc[p] = "none" /\ exited[p] = <<>>

\* The only child watch is the one of the current child, until it terminates;
\* a child that runs keeps a pipe open.
ChildInv ==
    /\ busy => child_watches = IF child_has_terminated THEN {} ELSE {child_pid}
    /\ busy => proc[child_pid] \in IF child_has_terminated
                                   THEN {"reaped"} ELSE {"running", "exited"}
    /\ busy /\ child_has_terminated => child_status = code[child_pid]
    /\ busy /\ open = {} => proc[child_pid] # "running"

IInv ==
    /\ TypeOK /\ PipesInv /\ RunInv /\ ChildInv
    /\ NoStraySources /\ CompletionScheduled /\ ExitedMeansExited

-----------------------------------------------------------------------------
(* The inductive invariant: one lemma per action                           *)

\* A new launcher has no child, no pipe and no source.
LEMMA InitIInv == Init => IInv
<1> SUFFICES ASSUME Init PROVE IInv
    OBVIOUS
<1> USE ConstantsAssumption
<1>1. TypeOK
    <2>1. None \in Count
        BY DEF None, Count
    <2>2. exited \in [Pid -> Seq(Codes)] /\ code \in [Pid -> Codes]
        BY DEF Init
    <2>3. proc \in [Pid -> {"none", "running", "exited", "reaped"}]
        BY DEF Init
    <2>4. child_pid \in 0 .. MaxRuns /\ forks \in 0 .. MaxRuns
        BY DEF Init
    <2>5. QED
        BY <2>1, <2>2, <2>3, <2>4 DEF Init, TypeOK
<1>2. PipesInv /\ RunInv /\ ChildInv
    BY DEF Init, PipesInv, RunInv, ChildInv, None, Channel
<1>3. NoStraySources /\ CompletionScheduled /\ ExitedMeansExited
    BY DEF Init, NoStraySources, CompletionScheduled, ExitedMeansExited, Reported
<1>4. QED
    BY <1>1, <1>2, <1>3 DEF IInv

\* A child that writes.
LEMMA WriteStep ==
    ASSUME IInv, NEW ch \in Channel, Write(ch)
    PROVE  IInv'
<1> USE ConstantsAssumption
<1>1. TypeOK /\ PipesInv /\ RunInv /\ ChildInv
    BY DEF IInv
<1>2. /\ busy /\ ch \in open /\ written' = [written EXCEPT ![ch] = @ + 1]
      /\ written["stdout"] + written["stderr"] < MaxOutput
      /\ UNCHANGED <<flags, sources, forks, proc, code, open, due, seen>>
    BY DEF Write
<1>3. written \in [Channel -> Nat]
    BY <1>1 DEF TypeOK, Count
<1>4. /\ written'["stdout"] + written'["stderr"] <= MaxOutput
      /\ \A c \in Channel : written'[c] \in Nat /\ written[c] <= written'[c]
      /\ \A c \in Channel \ {ch} : written'[c] = written[c]
    BY <1>2, <1>3 DEF Channel
<1>5. written' \in Count
    BY <1>2, <1>3, <1>4 DEF Count, Channel
<1>6. TypeOK'
    BY <1>1, <1>2, <1>5 DEF TypeOK, flags, sources, seen
<1>7. PipesInv'
    <2>1. \A c \in Channel : /\ delivered[c] \in Nat /\ held[c] \in Nat
                             /\ due[c] \in Nat /\ written[c] \in Nat
        BY <1>1 DEF TypeOK, Count
    <2>2. UNCHANGED <<delivered, held, due, is_done, open>>
        BY <1>2 DEF flags, seen
    <2>3. \A c \in Channel : delivered[c] + held[c] <= written'[c]
                             /\ due[c] <= written'[c]
        BY <1>1, <1>4, <2>1 DEF PipesInv
    <2>4. ch \notin is_done /\ is_done \subseteq Channel
        BY <1>1, <1>2 DEF PipesInv, TypeOK
    <2>5. QED
        BY <1>1, <1>4, <2>2, <2>3, <2>4 DEF PipesInv
<1>8. RunInv' /\ ChildInv'
    BY <1>1, <1>2 DEF RunInv, ChildInv, flags, sources, seen
<1>9. (NoStraySources /\ CompletionScheduled /\ ExitedMeansExited)'
    BY <1>2 DEF IInv, NoStraySources, CompletionScheduled, ExitedMeansExited,
       Reported, flags, sources, seen
<1>10. QED
    BY <1>6, <1>7, <1>8, <1>9 DEF IInv

\* A pipe that closes before its child exits leaves the other one open.
LEMMA CloseOutputStep ==
    ASSUME IInv, ~Daemon, NEW ch \in Channel, CloseOutput(ch)
    PROVE  IInv'
<1>1. TypeOK /\ PipesInv /\ RunInv /\ ChildInv
    BY DEF IInv
<1>2. /\ busy /\ open' = open \ {ch}
      /\ proc[child_pid] = "running" => open' # {}
      /\ UNCHANGED <<flags, sources, forks, proc, code, written, due, seen>>
    BY DEF CloseOutput
<1>3. TypeOK'
    BY <1>1, <1>2 DEF TypeOK, flags, sources, seen
<1>4. PipesInv'
    BY <1>1, <1>2 DEF PipesInv, flags, seen
<1>5. RunInv' /\ ChildInv'
    BY <1>1, <1>2 DEF RunInv, ChildInv, flags, sources, seen
<1>6. (NoStraySources /\ CompletionScheduled /\ ExitedMeansExited)'
    BY <1>2 DEF IInv, NoStraySources, CompletionScheduled, ExitedMeansExited,
       Reported, flags, sources, seen
<1>7. QED
    BY <1>3, <1>4, <1>5, <1>6 DEF IInv

\* A child that exits is still watched.
LEMMA ExitStep ==
    ASSUME IInv, NEW p \in Pid, Exit(p)
    PROVE  IInv'
<1>1. TypeOK /\ PipesInv /\ RunInv /\ ChildInv /\ ExitedMeansExited
    BY DEF IInv
<1>2. /\ proc[p] = "running" /\ proc' = [proc EXCEPT ![p] = "exited"]
      /\ \E c \in Codes : code' = [code EXCEPT ![p] = c]
      /\ open' \subseteq open
      /\ due' = written \/ due' = due
      /\ UNCHANGED <<flags, sources, forks, written, seen>>
    BY <1>1 DEF Exit, TypeOK
<1>3. TypeOK'
    <2>1. proc' \in [Pid -> {"none", "running", "exited", "reaped"}]
          /\ code' \in [Pid -> Codes]
        BY <1>1, <1>2 DEF TypeOK
    <2>2. due' \in Count /\ open' \subseteq Channel
        BY <1>1, <1>2 DEF TypeOK
    <2>3. QED
        BY <1>1, <1>2, <2>1, <2>2 DEF TypeOK, flags, sources, seen
<1>4. PipesInv'
    <2>1. \A c \in Channel : written[c] \in Nat
        BY <1>1 DEF TypeOK, Count
    <2>2. \A c \in Channel : due'[c] <= written[c]
        BY <1>1, <1>2, <2>1 DEF PipesInv
    <2>3. QED
        BY <1>1, <1>2, <2>2 DEF PipesInv, flags, seen
<1>5. RunInv'
    BY <1>1, <1>2 DEF RunInv, TypeOK, flags, sources, seen
<1>6. ChildInv'
    <2>1. CASE busy /\ p = child_pid
        <3>1. ~child_has_terminated
            BY <1>1, <1>2, <2>1 DEF ChildInv
        <3>2. proc'[child_pid] = "exited"
            BY <1>1, <1>2, <2>1 DEF TypeOK
        <3>3. QED
            BY <1>1, <1>2, <3>1, <3>2 DEF ChildInv, flags, sources
    <2>2. CASE ~busy
        BY <1>2, <2>2 DEF ChildInv, flags
    <2>3. CASE busy /\ p # child_pid
        <3>1. proc'[child_pid] = proc[child_pid]
              /\ code'[child_pid] = code[child_pid]
            BY <1>1, <1>2, <2>3 DEF TypeOK, RunInv
        <3>2. open' = open
            BY <2>3 DEF Exit
        <3>3. QED
            BY <1>1, <1>2, <3>1, <3>2 DEF ChildInv, flags, sources
    <2>4. QED
        BY <2>1, <2>2, <2>3
<1>7. (NoStraySources /\ CompletionScheduled)'
    BY <1>2 DEF IInv, NoStraySources, CompletionScheduled, flags, sources
<1>8. ExitedMeansExited'
    <2>1. ~Reported(p)
        BY <1>1, <1>2 DEF ExitedMeansExited
    <2>2. QED
        BY <1>1, <1>2, <2>1 DEF ExitedMeansExited, Reported, TypeOK, seen
<1>9. QED
    BY <1>3, <1>4, <1>5, <1>6, <1>7, <1>8 DEF IInv

\* Reading a pipe: all of it is delivered or kept in the line buffer.
LEMMA ScanStep ==
    ASSUME IInv, NEW ch \in Channel, Scan(ch)
    PROVE  IInv'
<1> USE ConstantsAssumption
<1>1. /\ TypeOK /\ PipesInv /\ RunInv /\ ChildInv
      /\ NoStraySources /\ CompletionScheduled /\ ExitedMeansExited
    BY DEF IInv
<1>2. \A c \in Channel : /\ delivered[c] \in Nat /\ held[c] \in Nat
                         /\ due[c] \in Nat /\ written[c] \in 0 .. MaxOutput
    BY <1>1 DEF TypeOK, Count
<1>3. /\ ch \in watched /\ alive
      /\ UNCHANGED <<busy, child_pid, child_has_terminated, child_status,
                     terminate_on_exit, alive, aborted, child_watches,
                     children, exited>>
    BY DEF Scan, PipeReady
<1>4. busy
    BY <1>1, <1>3 DEF NoStraySources
<1>5. PICK keep \in 0 .. held[ch] + Unread(ch) :
          /\ delivered' = [delivered EXCEPT ![ch] = @ + held[ch] + Unread(ch) - keep]
          /\ held' = [held EXCEPT ![ch] = IF Unread(ch) > 0 THEN keep ELSE @]
          /\ Unread(ch) = 0 => keep = held[ch]
    BY DEF Scan
<1>6. Unread(ch) \in Nat
    BY <1>1, <1>2 DEF Unread, PipesInv
<1>7. held' = [held EXCEPT ![ch] = keep] /\ keep \in Nat
    <2>1. (IF Unread(ch) > 0 THEN keep ELSE held[ch]) = keep
        BY <1>5, <1>6
    <2>2. keep \in Nat
        BY <1>2, <1>5, <1>6
    <2>3. QED
        BY <1>5, <2>1, <2>2
<1>8. /\ delivered'[ch] = written[ch] - keep /\ held'[ch] = keep
      /\ keep <= written[ch]
    <2>1. /\ delivered'[ch] = delivered[ch] + held[ch] + Unread(ch) - keep
          /\ held'[ch] = keep
        BY <1>1, <1>5, <1>7 DEF TypeOK, Count
    <2>2. Unread(ch) = written[ch] - delivered[ch] - held[ch]
        BY DEF Unread
    <2>3. delivered[ch] \in Nat /\ held[ch] \in Nat /\ written[ch] \in Nat
        BY <1>2
    <2>4. keep <= held[ch] + Unread(ch)
        BY <1>5, <1>6, <2>3
    <2>5. QED
        BY <1>7, <2>1, <2>2, <2>3, <2>4
<1>9. \A c \in Channel \ {ch} : delivered'[c] = delivered[c] /\ held'[c] = held[c]
    BY <1>1, <1>5, <1>7 DEF TypeOK, Count
<1>10. delivered' \in Count /\ held' \in Count
    <2>1. delivered'[ch] \in 0 .. MaxOutput /\ keep \in 0 .. MaxOutput
        BY <1>2, <1>7, <1>8
    <2>2. DOMAIN delivered = Channel /\ DOMAIN held = Channel
        BY <1>1 DEF TypeOK, Count
    <2>3. \A c \in Channel : delivered'[c] \in 0 .. MaxOutput
                           /\ held'[c] \in 0 .. MaxOutput
        BY <1>1, <1>8, <1>9, <2>1 DEF TypeOK, Count
    <2>4. delivered' = [c \in Channel |-> delivered'[c]]
          /\ held' = [c \in Channel |-> held'[c]]
        BY <1>5, <1>7, <2>2
    <2>5. QED
        BY <2>3, <2>4 DEF Count
<1>11. /\ \A c \in Channel :
             delivered'[c] + held'[c] <= written[c] /\ due[c] <= written[c]
      /\ written["stdout"] + written["stderr"] <= MaxOutput
      /\ delivered'[ch] + held'[ch] = written[ch]
      /\ \A c \in is_done :
             c \notin open /\ delivered'[c] + held'[c] = written[c]
    <2>1. delivered'[ch] + held'[ch] = written[ch] /\ written[ch] \in Nat
        BY <1>2, <1>7, <1>8
    <2>2. written[ch] <= written[ch]
        BY <2>1
    <2>3. \A c \in Channel : delivered'[c] + held'[c] <= written[c]
        BY <1>1, <1>9, <2>1, <2>2 DEF PipesInv
    <2>4. \A c \in is_done : delivered'[c] + held'[c] = written[c]
        BY <1>1, <1>9, <2>1 DEF PipesInv, TypeOK
    <2>5. QED
        BY <1>1, <2>1, <2>3, <2>4 DEF PipesInv
<1>12. CASE ch \in open
    <2>1. UNCHANGED <<is_done, watched, timeout>>
        BY <1>12 DEF Scan
    <2>2. TypeOK'
        BY <1>1, <1>3, <1>10, <2>1 DEF TypeOK, children
    <2>3. PipesInv'
        BY <1>3, <1>11, <2>1 DEF PipesInv, children
    <2>4. RunInv' /\ ChildInv'
        BY <1>1, <1>3, <1>4, <2>1 DEF RunInv, ChildInv, children
    <2>5. (NoStraySources /\ CompletionScheduled /\ ExitedMeansExited)'
        BY <1>1, <1>3, <2>1 DEF NoStraySources, CompletionScheduled,
           ExitedMeansExited, Reported, children
    <2>6. QED
        BY <2>2, <2>3, <2>4, <2>5 DEF IInv
<1>13. CASE ch \notin open
    <2>1. /\ is_done' = is_done \cup {ch} /\ watched' = watched \ {ch}
          /\ Synchronize(is_done', child_has_terminated)
        BY <1>13 DEF Scan
    <2>2. /\ timeout' \in {"none", "check", "exit"}
          /\ is_done' = Channel => timeout' = "check"
          /\ timeout' = "check" => is_done' = Channel
          /\ timeout' = "exit" => child_has_terminated
          /\ child_has_terminated /\ terminate_on_exit => timeout' # "none"
        <3>1. timeout = "check" => is_done' = Channel
            BY <1>1, <2>1 DEF RunInv
        <3>2. QED
            BY <1>1, <2>1, <3>1 DEF Synchronize, RunInv, TypeOK
    <2>3. TypeOK'
        BY <1>1, <1>3, <1>10, <2>1, <2>2 DEF TypeOK, children
    <2>4. PipesInv'
        BY <1>3, <1>13, <1>11, <2>1 DEF PipesInv, children
    <2>5. RunInv' /\ ChildInv'
        BY <1>1, <1>3, <1>4, <2>2 DEF RunInv, ChildInv, children
    <2>6. watched' = Channel \ is_done'
        BY <1>1, <1>4, <2>1 DEF CompletionScheduled
    <2>7. (NoStraySources /\ CompletionScheduled /\ ExitedMeansExited)'
        BY <1>1, <1>3, <1>4, <2>2, <2>6 DEF NoStraySources, CompletionScheduled,
           ExitedMeansExited, Reported, children, RunInv
    <2>8. QED
        BY <2>3, <2>4, <2>5, <2>7 DEF IInv
<1>14. QED
    BY <1>12, <1>13

\* The exit of the current child.
LEMMA ChildTerminatedStep ==
    ASSUME IInv, NEW p \in Pid, ChildTerminated(p)
    PROVE  IInv'
<1>1. /\ TypeOK /\ PipesInv /\ RunInv /\ ChildInv
      /\ NoStraySources /\ CompletionScheduled /\ ExitedMeansExited
    BY DEF IInv
<1>2. /\ alive /\ p \in child_watches /\ proc[p] = "exited"
      /\ child_watches' = child_watches \ {p}
      /\ proc' = [proc EXCEPT ![p] = "reaped"]
      /\ child_status' = code[p] /\ child_has_terminated' = TRUE
      /\ Synchronize(is_done, TRUE)
      /\ UNCHANGED <<busy, child_pid, is_done, terminate_on_exit, held, alive,
                     aborted, watched, forks, code, open, written, due, seen>>
    BY DEF ChildTerminated, ChildReady
<1>3. busy /\ p = child_pid /\ ~child_has_terminated
    BY <1>1, <1>2 DEF NoStraySources, ChildInv
<1>4. child_watches' = {} /\ proc'[p] = "reaped"
      /\ \A q \in Pid \ {p} : proc'[q] = proc[q]
    BY <1>1, <1>2, <1>3 DEF ChildInv, TypeOK
<1>5. /\ timeout' \in {"none", "check", "exit"}
      /\ timeout' = "check" <=> is_done = Channel
      /\ terminate_on_exit => timeout' # "none"
    BY <1>1, <1>2 DEF Synchronize, RunInv, TypeOK
<1>6. TypeOK'
    <2>1. proc' \in [Pid -> {"none", "running", "exited", "reaped"}]
        BY <1>1, <1>2 DEF TypeOK
    <2>2. child_status' \in Codes
        BY <1>1, <1>2 DEF TypeOK
    <2>3. QED
        BY <1>1, <1>2, <1>4, <1>5, <2>1, <2>2 DEF TypeOK, seen
<1>7. PipesInv'
    BY <1>1, <1>2 DEF PipesInv, seen
<1>8. RunInv'
    BY <1>1, <1>2, <1>3, <1>4, <1>5 DEF RunInv, seen
<1>9. ChildInv'
    BY <1>1, <1>2, <1>3, <1>4 DEF ChildInv
<1>10. NoStraySources' /\ CompletionScheduled'
    BY <1>1, <1>2, <1>3, <1>5 DEF NoStraySources, CompletionScheduled, RunInv
<1>11. ExitedMeansExited'
    BY <1>1, <1>2, <1>4 DEF ExitedMeansExited, Reported, seen
<1>12. QED
    BY <1>6, <1>7, <1>8, <1>9, <1>10, <1>11 DEF IInv

\* When the completion source is dispatched the child has been reaped, and
\* nothing is left in its pipes.
LEMMA DoneState ==
    ASSUME IInv, ExecutionDone
    PROVE  /\ busy /\ proc[child_pid] = "reaped"
           /\ child_status = code[child_pid]
           /\ \A ch \in Channel : delivered[ch] + held[ch] = written[ch]
<1>1. /\ TypeOK /\ PipesInv /\ RunInv /\ ChildInv
      /\ NoStraySources /\ CompletionScheduled
    BY DEF IInv
<1>2. /\ timeout # "none" /\ \A ch \in Channel : ~PipeReady(ch)
      /\ \A p \in Pid : ~ChildReady(p)
    BY DEF ExecutionDone
<1>3. busy /\ child_pid \in Pid
    BY <1>1, <1>2 DEF NoStraySources, RunInv
<1>4. \A ch \in Channel : delivered[ch] + held[ch] = written[ch]
    <2>1. \A ch \in Channel : /\ delivered[ch] \in Nat /\ held[ch] \in Nat
                              /\ written[ch] \in Nat
        BY <1>1 DEF TypeOK, Count
    <2>2. ASSUME NEW ch \in Channel
          PROVE  delivered[ch] + held[ch] = written[ch]
        <3>1. CASE ch \in is_done
            BY <1>1, <3>1 DEF PipesInv
        <3>2. CASE ch \notin is_done
            <4>1. ch \in watched
                BY <1>1, <1>3, <3>2 DEF CompletionScheduled
            <4>2. ~(Unread(ch) > 0)
                BY <1>2, <4>1 DEF PipeReady
            <4>3. delivered[ch] + held[ch] <= written[ch]
                BY <1>1 DEF PipesInv
            <4>4. QED
                BY <2>1, <4>2, <4>3 DEF Unread
        <3>3. QED
            BY <3>1, <3>2
    <2>3. QED
        BY <2>2
<1>5. child_has_terminated
    <2>1. CASE timeout = "exit"
        BY <1>1, <2>1 DEF RunInv
    <2>2. CASE timeout = "check" /\ ~child_has_terminated
        <3>1. open = {}
            BY <1>1, <2>2 DEF RunInv, PipesInv, TypeOK
        <3>2. proc[child_pid] = "exited" /\ child_pid \in child_watches
            BY <1>1, <1>3, <2>2, <3>1 DEF ChildInv
        <3>3. QED
            BY <1>2, <1>3, <3>2 DEF ChildReady
    <2>3. QED
        BY <1>1, <1>2, <2>1, <2>2 DEF TypeOK
<1>6. QED
    BY <1>1, <1>3, <1>4, <1>5 DEF ChildInv

\* A launcher after anjuta_launcher_initialize, which leaves nothing behind.
LEMMA IdleIInv ==
    ASSUME IInv, Initialize, watched' = {}, child_watches' = {},
           delivered' \in Count, alive' \in BOOLEAN, aborted' \in BOOLEAN,
           UNCHANGED children, exited' \in [Pid -> Seq(Codes)],
           \A c \in Channel : delivered'[c] <= written[c],
           \A p \in Pid : p > forks => exited'[p] = <<>>,
           \A p \in Pid : exited'[p] # <<>> =>
               proc[p] = "reaped" /\ exited'[p] = <<code[p]>>
    PROVE  IInv'
<1> USE ConstantsAssumption
<1>1. TypeOK /\ PipesInv /\ RunInv
    BY DEF IInv
<1>2. /\ busy' = FALSE /\ child_pid' = 0 /\ is_done' = {}
      /\ child_has_terminated' = TRUE /\ child_status' = Unset
      /\ timeout' = "none" /\ terminate_on_exit' = FALSE
      /\ held' = None
    BY DEF Initialize
<1>3. TypeOK'
    <2>1. None \in Count /\ 0 \in 0 .. MaxRuns
        BY DEF None, Count
    <2>2. QED
        BY <1>1, <1>2, <2>1 DEF TypeOK, children
<1>4. PipesInv'
    <2>1. \A c \in Channel : delivered'[c] + held'[c] = delivered'[c]
        BY <1>2 DEF None, Count
    <2>2. \A c \in Channel : due[c] <= written[c]
        BY <1>1 DEF PipesInv
    <2>3. QED
        BY <1>1, <1>2, <2>1, <2>2 DEF PipesInv, children
<1>5. RunInv' /\ ChildInv'
    BY <1>1, <1>2 DEF RunInv, ChildInv, children, Channel
<1>6. (NoStraySources /\ CompletionScheduled /\ ExitedMeansExited)'
    BY <1>2 DEF NoStraySources, CompletionScheduled, ExitedMeansExited, Reported,
       children
<1>7. QED
    BY <1>3, <1>4, <1>5, <1>6 DEF IInv

\* What Cleanup delivers was written.
LEMMA CleanupDelivers ==
    ASSUME IInv, delivered' = [ch \in Channel |-> delivered[ch] + held[ch]]
    PROVE  /\ delivered' \in Count
           /\ \A c \in Channel : delivered'[c] <= written[c]
<1> USE ConstantsAssumption
<1>1. TypeOK /\ PipesInv
    BY DEF IInv
<1>2. \A c \in Channel : /\ delivered[c] \in Nat /\ held[c] \in Nat
                         /\ written[c] \in 0 .. MaxOutput
    BY <1>1 DEF TypeOK, Count
<1>3. \A c \in Channel : delivered'[c] = delivered[c] + held[c]
    OBVIOUS
<1>4. \A c \in Channel : delivered'[c] <= written[c]
    BY <1>1, <1>3 DEF PipesInv
<1>5. \A c \in Channel : delivered'[c] \in 0 .. MaxOutput
    BY <1>2, <1>3, <1>4
<1>6. QED
    BY <1>4, <1>5 DEF Count

\* The program that dies in the cleanup leaves the launcher as it was.
LEMMA AbortStep ==
    ASSUME IInv, DoubleFreeAborts
    PROVE  IInv'
<1>1. /\ aborted' = TRUE
      /\ UNCHANGED <<flags, alive, watched, child_watches, children, seen>>
    BY DEF DoubleFreeAborts
<1>2. TypeOK' /\ PipesInv' /\ RunInv' /\ ChildInv'
    BY <1>1 DEF IInv, TypeOK, PipesInv, RunInv, ChildInv, flags, children, seen
<1>3. (NoStraySources /\ CompletionScheduled /\ ExitedMeansExited)'
    BY <1>1 DEF IInv, NoStraySources, CompletionScheduled, ExitedMeansExited,
       Reported, flags, children, seen
<1>4. QED
    BY <1>2, <1>3 DEF IInv

\* The run ends, and the client is told.
LEMMA ExecutionDoneStep ==
    ASSUME IInv, ExecutionDone, ~DoubleFreeAborts
    PROVE  IInv'
<1>1. TypeOK /\ RunInv /\ ChildInv /\ ExitedMeansExited
    BY DEF IInv
<1>2. busy /\ proc[child_pid] = "reaped" /\ child_status = code[child_pid]
    BY DoneState
<1>3. /\ exited' = [exited EXCEPT ![child_pid] = Append(@, child_status)]
      /\ Cleanup /\ UNCHANGED <<alive, aborted, child_watches, children>>
    BY DEF ExecutionDone
<1>4. child_pid \in Pid /\ child_pid = forks /\ exited[child_pid] = <<>>
    BY <1>1, <1>2 DEF RunInv
<1>5. code[child_pid] \in Codes
    BY <1>1, <1>4 DEF TypeOK
<1>6. /\ exited'[child_pid] = <<code[child_pid]>>
      /\ \A p \in Pid \ {child_pid} : exited'[p] = exited[p]
    BY <1>1, <1>2, <1>3, <1>4 DEF TypeOK
<1>7. exited' \in [Pid -> Seq(Codes)]
    BY <1>1, <1>2, <1>3, <1>4, <1>5 DEF TypeOK
<1>8. child_watches' = {}
    <2>1. child_has_terminated
        BY <1>1, <1>2 DEF ChildInv
    <2>2. QED
        BY <1>1, <1>2, <1>3, <2>1 DEF ChildInv
<1>9. /\ delivered' \in Count
      /\ \A c \in Channel : delivered'[c] <= written[c]
    BY <1>3, CleanupDelivers DEF Cleanup
<1>10. \A p \in Pid : p > forks => exited'[p] = <<>>
    <2>1. \A p \in Pid : p > forks => p # child_pid
        BY <1>4 DEF Pid
    <2>2. QED
        BY <1>1, <1>6, <2>1 DEF RunInv
<1>11. \A p \in Pid : exited'[p] # <<>> =>
           proc[p] = "reaped" /\ exited'[p] = <<code[p]>>
    BY <1>1, <1>2, <1>6 DEF ExitedMeansExited, Reported
<1>12. alive' \in BOOLEAN /\ aborted' \in BOOLEAN /\ UNCHANGED children /\ Initialize /\ watched' = {}
    BY <1>1, <1>3 DEF TypeOK, Cleanup
<1>13. QED
    BY <1>7, <1>8, <1>9, <1>10, <1>11, <1>12, IdleIInv

\* An option set before a run.
LEMMA SetTerminateOnExitStep ==
    ASSUME IInv, SetTerminateOnExit
    PROVE  IInv'
<1>1. /\ ~busy /\ terminate_on_exit' = TRUE
      /\ UNCHANGED <<busy, child_pid, is_done, child_has_terminated, child_status,
                     timeout, held, sources, children, seen>>
    BY DEF SetTerminateOnExit
<1>2. TypeOK' /\ PipesInv' /\ RunInv' /\ ChildInv'
    BY <1>1 DEF IInv, TypeOK, PipesInv, RunInv, ChildInv, sources, children, seen
<1>3. (NoStraySources /\ CompletionScheduled /\ ExitedMeansExited)'
    BY <1>1 DEF IInv, NoStraySources, CompletionScheduled, ExitedMeansExited,
       Reported, sources, children, seen
<1>4. QED
    BY <1>2, <1>3 DEF IInv

\* A new run starts with clean flags and a fresh child.
LEMMA ExecuteStep ==
    ASSUME IInv, Execute
    PROVE  IInv'
<1> USE ConstantsAssumption
<1>1. /\ TypeOK /\ RunInv /\ NoStraySources /\ ExitedMeansExited
    BY DEF IInv
<1>2. /\ alive /\ ~busy /\ forks < MaxRuns
      /\ forks' = forks + 1 /\ busy' = TRUE /\ child_pid' = forks'
      /\ is_done' = {} /\ child_has_terminated' = FALSE /\ child_status' = 0
      /\ watched' = Channel /\ child_watches' = child_watches \cup {forks'}
      /\ proc' = [proc EXCEPT ![forks'] = "running"]
      /\ open' = Channel /\ written' = None /\ due' = None /\ delivered' = None
      /\ UNCHANGED <<timeout, terminate_on_exit, held, alive, aborted, code,
                     exited>>
    BY DEF Execute
<1>3. /\ forks' \in Pid /\ forks' \in 0 .. MaxRuns /\ forks' > forks
      /\ \A p \in Pid : p > forks' => p > forks /\ p # forks'
    BY <1>1, <1>2 DEF TypeOK, Pid
<1>4. /\ child_watches' = {forks'} /\ timeout' = "none" /\ held' = None
    BY <1>1, <1>2 DEF NoStraySources, RunInv
<1>5. /\ proc'[forks'] = "running" /\ exited'[forks'] = <<>>
      /\ \A p \in Pid \ {forks'} : proc'[p] = proc[p]
    BY <1>1, <1>2, <1>3 DEF TypeOK, RunInv
<1>6. TypeOK'
    <2>1. None \in Count
        BY DEF None, Count
    <2>2. proc' \in [Pid -> {"none", "running", "exited", "reaped"}]
        BY <1>1, <1>2, <1>3 DEF TypeOK
    <2>3. child_watches' \subseteq Pid /\ child_pid' \in 0 .. MaxRuns
        BY <1>2, <1>3, <1>4
    <2>4. QED
        BY <1>1, <1>2, <1>3, <1>4, <2>1, <2>2, <2>3 DEF TypeOK
<1>7. PipesInv'
    BY <1>2, <1>4 DEF PipesInv, None, Channel
<1>8. RunInv'
    <2>1. \A p \in Pid : p > forks' => proc'[p] = "none" /\ exited'[p] = <<>>
        BY <1>1, <1>2, <1>3, <1>5 DEF RunInv
    <2>2. QED
        BY <1>2, <1>3, <1>4, <1>5, <2>1 DEF RunInv
<1>9. ChildInv'
    BY <1>2, <1>4, <1>5 DEF ChildInv, Channel
<1>10. NoStraySources' /\ CompletionScheduled'
    BY <1>2 DEF NoStraySources, CompletionScheduled, Channel
<1>11. ExitedMeansExited'
    BY <1>1, <1>2, <1>5 DEF ExitedMeansExited, Reported
<1>12. QED
    BY <1>6, <1>7, <1>8, <1>9, <1>10, <1>11 DEF IInv

\* A run that could not start.
LEMMA ForkFailsStep ==
    ASSUME IInv, ForkFails
    PROVE  IInv'
<1>1. TypeOK /\ PipesInv /\ RunInv /\ NoStraySources /\ ExitedMeansExited
    BY DEF IInv
<1>2. ~busy /\ Initialize /\ UNCHANGED <<sources, children, seen>>
    BY DEF ForkFails
<1>3. watched' = {} /\ child_watches' = {}
    BY <1>1, <1>2 DEF NoStraySources, sources
<1>4. \A c \in Channel : delivered'[c] <= written[c]
    <2>1. \A c \in Channel : held[c] = 0
        BY <1>1, <1>2 DEF RunInv, None
    <2>2. \A c \in Channel : delivered[c] \in Nat
        BY <1>1 DEF TypeOK, Count
    <2>3. \A c \in Channel : delivered[c] + held[c] <= written[c]
        BY <1>1 DEF PipesInv
    <2>4. QED
        BY <1>2, <2>1, <2>2, <2>3 DEF seen
<1>5. /\ delivered' \in Count /\ alive' \in BOOLEAN /\ aborted' \in BOOLEAN
      /\ exited' \in [Pid -> Seq(Codes)]
    BY <1>1, <1>2 DEF TypeOK, sources, seen
<1>6. \A p \in Pid : p > forks => exited'[p] = <<>>
    BY <1>1, <1>2 DEF RunInv, seen
<1>7. \A p \in Pid : exited'[p] # <<>> =>
          proc[p] = "reaped" /\ exited'[p] = <<code[p]>>
    BY <1>1, <1>2 DEF ExitedMeansExited, Reported, seen
<1>8. QED
    BY <1>2, <1>3, <1>4, <1>5, <1>6, <1>7, IdleIInv

\* The launcher is dropped, in the middle of a run or not.
LEMMA DisposeStep ==
    ASSUME IInv, Dispose, ~DoubleFreeAborts
    PROVE  IInv'
<1>1. /\ TypeOK /\ PipesInv /\ RunInv /\ ChildInv
      /\ NoStraySources /\ CompletionScheduled /\ ExitedMeansExited
    BY DEF IInv
<1>2. CASE busy
    <2>1. /\ child_watches' = child_watches \ {child_pid} /\ Cleanup
          /\ UNCHANGED <<aborted, children, exited>> /\ alive' = FALSE
        BY <1>2 DEF Dispose
    <2>2. child_watches' = {}
        BY <1>1, <1>2, <2>1 DEF ChildInv
    <2>3. /\ delivered' \in Count
          /\ \A c \in Channel : delivered'[c] <= written[c]
        BY <2>1, CleanupDelivers DEF Cleanup
    <2>4. /\ exited' \in [Pid -> Seq(Codes)]
          /\ \A p \in Pid : p > forks => exited'[p] = <<>>
        BY <1>1, <2>1 DEF TypeOK, RunInv
    <2>5. \A p \in Pid : exited'[p] # <<>> =>
              proc[p] = "reaped" /\ exited'[p] = <<code[p]>>
        BY <1>1, <2>1 DEF ExitedMeansExited, Reported
    <2>6. aborted' \in BOOLEAN
        BY <1>1, <2>1 DEF TypeOK
    <2>7. QED
        BY <2>1, <2>2, <2>3, <2>4, <2>5, <2>6, IdleIInv DEF Cleanup
<1>3. CASE ~busy
    <2>1. /\ alive' = FALSE
          /\ UNCHANGED <<flags, aborted, watched, child_watches, delivered,
                         children, exited>>
        BY <1>3 DEF Dispose
    <2>2. TypeOK' /\ PipesInv' /\ RunInv' /\ ChildInv'
        BY <1>1, <1>3, <2>1 DEF TypeOK, PipesInv, RunInv, ChildInv, flags, children
    <2>3. (NoStraySources /\ CompletionScheduled /\ ExitedMeansExited)'
        BY <1>1, <1>3, <2>1 DEF NoStraySources, CompletionScheduled,
           ExitedMeansExited, Reported, flags, children
    <2>4. QED
        BY <2>2, <2>3 DEF IInv
<1>4. QED
    BY <1>2, <1>3

\* Stuttering.
LEMMA Stutter ==
    ASSUME IInv, UNCHANGED vars
    PROVE  IInv'
<1> USE DEF vars, flags, sources, children, seen
<1>1. TypeOK' /\ PipesInv' /\ RunInv' /\ ChildInv'
    BY DEF IInv, TypeOK, PipesInv, RunInv, ChildInv
<1>2. (NoStraySources /\ CompletionScheduled /\ ExitedMeansExited)'
    BY DEF IInv, NoStraySources, CompletionScheduled, ExitedMeansExited, Reported
<1>3. QED
    BY <1>1, <1>2 DEF IInv

-----------------------------------------------------------------------------
(* The theorems                                                            *)

\* The invariant holds in every state of every execution, when no child closes
\* both of its outputs before it exits.
THEOREM Invariant == ~Daemon => (Spec => []IInv)
<1> SUFFICES ASSUME ~Daemon PROVE Spec => []IInv
    OBVIOUS
<1>1. Init => IInv
    BY InitIInv
<1>2. IInv /\ [Next]_vars => IInv'
    <2> SUFFICES ASSUME IInv, [Next]_vars PROVE IInv'
        OBVIOUS
    <2>1. ASSUME NEW ch \in Channel, Scan(ch) PROVE IInv'
        BY <2>1, ScanStep
    <2>2. ASSUME NEW p \in Pid, ChildTerminated(p) PROVE IInv'
        BY <2>2, ChildTerminatedStep
    <2>3. CASE ExecutionDone
        BY <2>3, ExecutionDoneStep, AbortStep
    <2>4. ASSUME NEW ch \in Channel, Write(ch) PROVE IInv'
        BY <2>4, WriteStep
    <2>5. ASSUME NEW ch \in Channel, CloseOutput(ch) PROVE IInv'
        BY <2>5, CloseOutputStep
    <2>6. ASSUME NEW p \in Pid, Exit(p) PROVE IInv'
        BY <2>6, ExitStep
    <2>7. CASE SetTerminateOnExit
        BY <2>7, SetTerminateOnExitStep
    <2>8. CASE Execute
        BY <2>8, ExecuteStep
    <2>9. CASE ForkFails
        BY <2>9, ForkFailsStep
    <2>10. CASE Dispose
        BY <2>10, DisposeStep, AbortStep
    <2>11. CASE UNCHANGED vars
        BY <2>11, Stutter
    <2>12. QED
        BY <2>1, <2>2, <2>3, <2>4, <2>5, <2>6, <2>7, <2>8, <2>9, <2>10, <2>11
        DEF Next, Dispatch, Kernel, Client
<1>3. QED
    BY <1>1, <1>2, PTL DEF Spec

\* Every field keeps its type, whatever the number of runs and of outputs.
THEOREM TypeCorrect == ~Daemon => (Spec => []TypeOK)
<1> SUFFICES ASSUME ~Daemon PROVE Spec => []TypeOK
    OBVIOUS
<1>1. IInv => TypeOK
    BY DEF IInv
<1>2. Spec => []IInv
    BY Invariant
<1>3. QED
    BY <1>1, <1>2, PTL

\* anjuta_launcher_execution_done: child-exited is emitted once for a child,
\* after it was reaped and with its own status.
THEOREM Truthful == ~Daemon => (Spec => []ExitedMeansExited)
<1> SUFFICES ASSUME ~Daemon PROVE Spec => []ExitedMeansExited
    OBVIOUS
<1>1. IInv => ExitedMeansExited
    BY DEF IInv
<1>2. Spec => []IInv
    BY Invariant
<1>3. QED
    BY <1>1, <1>2, PTL

\* anjuta_launcher_dispose and the cleanup of a run leave no source that would
\* call back with the pointer of a launcher that is idle or finalized.
THEOREM NoStray == ~Daemon => (Spec => []NoStraySources)
<1> SUFFICES ASSUME ~Daemon PROVE Spec => []NoStraySources
    OBVIOUS
<1>1. IInv => NoStraySources
    BY DEF IInv
<1>2. Spec => []IInv
    BY Invariant
<1>3. QED
    BY <1>1, <1>2, PTL

\* anjuta_launcher_synchronize is called at every point where a run may have
\* become complete, with flags that show it.
THEOREM Scheduled == ~Daemon => (Spec => []CompletionScheduled)
<1> SUFFICES ASSUME ~Daemon PROVE Spec => []CompletionScheduled
    OBVIOUS
<1>1. IInv => CompletionScheduled
    BY DEF IInv
<1>2. Spec => []IInv
    BY Invariant
<1>3. QED
    BY <1>1, <1>2, PTL

\* The client has all the output of the child when it is told of its exit.
THEOREM OutputFirst == ~Daemon => (Spec => OutputBeforeExit)
<1> SUFFICES ASSUME ~Daemon PROVE Spec => OutputBeforeExit
    OBVIOUS
<1> DEFINE Told(p) == proc[p] = "reaped" /\ ~Reported(p) /\ Reported(p)'
<1>1. ASSUME IInv, [Next]_vars, NEW p \in Pid, Told(p), NEW ch \in Channel
      PROVE  delivered'[ch] >= due[ch]
    <2>1. exited' # exited
        BY <1>1 DEF Reported
    <2>2. ExecutionDone
        BY <1>1, <2>1 DEF Next, Dispatch, Kernel, Client, Scan, ChildTerminated,
           Write, CloseOutput, Exit, SetTerminateOnExit, Execute, ForkFails,
           Dispose, DoubleFreeAborts, vars, seen
    <2>3. delivered[ch] + held[ch] = written[ch]
        BY <1>1, <2>2, DoneState
    <2>4. delivered'[ch] = delivered[ch] + held[ch]
        BY <2>1, <2>2 DEF ExecutionDone, Cleanup, DoubleFreeAborts, seen
    <2>5. due[ch] <= written[ch] /\ due[ch] \in Nat /\ written[ch] \in Nat
        BY <1>1 DEF IInv, PipesInv, TypeOK, Count
    <2>6. QED
        BY <2>3, <2>4, <2>5
<1>2. IInv /\ [Next]_vars =>
          [\A p \in Pid : proc[p] = "reaped" /\ ~Reported(p) /\ Reported(p)' =>
              \A ch \in Channel : delivered'[ch] >= due[ch]]_vars
    BY <1>1
<1>3. Spec => []IInv
    BY Invariant
<1>4. QED
    BY <1>2, <1>3, PTL DEF Spec, OutputBeforeExit
=============================================================================
