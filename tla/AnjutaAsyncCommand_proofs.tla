---------------------- MODULE AnjutaAsyncCommand_proofs ----------------------
(* Safety of one asynchronous command for any number of items, progress     *)
(* values and return codes.                                                 *)
EXTENDS AnjutaAsyncCommand, SequenceTheorems, TLAPS

\* The reference the thread was given lives as long as the thread; the
\* client's reference lives until command-finished, which is the last thing
\* the idle source does.
RefInv ==
    /\ wpc \notin {"none", "done"} => "thread" \in refs
    /\ finished = <<>> => "client" \in refs
    /\ polling \/ ppc # "idle" => finished = <<>>
    /\ wpc = "none" => ~polling /\ ppc = "idle" /\ finished = <<>>

\* The mutex is held exactly by the thread that is between lock and unlock.
MutexInv ==
    /\ mutex = "worker" <=> wpc \in {"push", "unlock", "unlock_error"}
    /\ mutex = "main" <=> ppc \in {"emit_data", "unlock"}

\* complete is only seen once ::run has returned, and the poll emits
\* command-finished only after it has seen it.
CompleteInv ==
    /\ complete => wpc \in {"complete", "unref", "done"}
    /\ ppc = "finish" => complete
    /\ finished # <<>> => complete
    /\ Len(finished) <= 1

\* A failure code leaves ::run, and reaches the client, only after the message
\* is set.
ErrorInv ==
    /\ result # 0 /\ wpc # "error" => error_message
    /\ return_code # 0 => error_message
    /\ finished # <<>> => (finished[1] # 0 => error_message)

IInv == TypeOK /\ RefInv /\ MutexInv /\ CompleteInv /\ ErrorInv

-----------------------------------------------------------------------------
\* The initial state satisfies the inductive invariant.
LEMMA InitIInv == Init => IInv
<1> SUFFICES ASSUME Init
             PROVE  IInv
    OBVIOUS
<1>1. TypeOK
    <2>1. output \in Seq(Item) /\ received \in Seq(Item) /\ shown \in Seq(Nat)
        BY DEF Init
    <2>2. finished \in Seq(Codes)
        BY DEF Init
    <2>3. /\ pushed \in Nat
          /\ reported \in Nat
          /\ return_code \in Codes
          /\ result \in Codes
        BY ConstantsAssumption DEF Init
    <2>4. refs \subseteq {"client", "thread"} /\ stores = {}
        BY DEF Init
    <2>5. QED
        BY <2>1, <2>2, <2>3, <2>4 DEF Init, TypeOK, WorkerPCs, PollPCs
<1>2. RefInv /\ MutexInv
    BY DEF Init, RefInv, MutexInv
<1>3. CompleteInv
    BY DEF Init, CompleteInv
<1>4. ErrorInv
    BY DEF Init, ErrorInv
<1>5. QED
    BY <1>1, <1>2, <1>3, <1>4 DEF IInv

\* Every step keeps the types of the fields, of the two program counters and of
\* the data that crosses the threads.
LEMMA TypeStep ==
    ASSUME TypeOK, [Next]_vars
    PROVE  TypeOK'
<1> USE ConstantsAssumption DEF TypeOK, WorkerPCs, PollPCs, vars, priv, object, worker, seen
<1>1. CASE Start
    BY <1>1 DEF Start
<1>2. CASE Lock
    BY <1>2 DEF Lock
<1>3. CASE Push
    <2>1. pushed' \in Nat
        BY <1>3 DEF Push
    <2>2. output' \in Seq(Item)
        <3>1. pushed + 1 \in Item
            BY DEF Item
        <3>2. QED
            BY <1>3, <3>1 DEF Push
    <2>3. QED
        BY <1>3, <2>1, <2>2 DEF Push
<1>4. CASE Unlock
    BY <1>4 DEF Unlock
<1>5. CASE NotifyDataArrived
    BY <1>5 DEF NotifyDataArrived
<1>6. CASE CallNotifyProgress
    BY <1>6 DEF CallNotifyProgress
<1>7. CASE NotifyProgress
    BY <1>7 DEF NotifyProgress
<1>8. CASE Return
    BY <1>8 DEF Return
<1>9. CASE SetErrorMessage
    BY <1>9 DEF SetErrorMessage
<1>10. CASE UnlockError
    BY <1>10 DEF UnlockError
<1>11. CASE CallNotifyComplete
    BY <1>11 DEF CallNotifyComplete
<1>12. CASE NotifyComplete
    BY <1>12 DEF NotifyComplete
<1>13. CASE ThreadUnref
    BY <1>13 DEF ThreadUnref
<1>14. CASE Poll
    BY <1>14 DEF Poll
<1>15. CASE PollData
    BY <1>15 DEF PollData
<1>16. CASE PollTrylock
    BY <1>16 DEF PollTrylock
<1>17. CASE PollEmitData
    <2>1. CASE client = "data-arrived" /\ output # <<>>
        <3>1. Head(output) \in Item /\ Tail(output) \in Seq(Item)
            BY <2>1
        <3>2. Append(received, Head(output)) \in Seq(Item)
            BY <3>1
        <3>3. output' \in Seq(Item) /\ received' \in Seq(Item)
            BY <1>17, <2>1, <3>1, <3>2 DEF PollEmitData
        <3>4. QED
            BY <1>17, <2>1, <3>3 DEF PollEmitData
    <2>2. CASE ~(client = "data-arrived" /\ output # <<>>)
        BY <1>17, <2>2 DEF PollEmitData
    <2>3. QED
        BY <2>1, <2>2
<1>18. CASE PollUnlock
    BY <1>18 DEF PollUnlock
<1>19. CASE PollClearData
    BY <1>19, ZenonT(60) DEF PollClearData
<1>20. CASE PollProgress
    BY <1>20 DEF PollProgress
<1>21. CASE PollEmitProgress
    BY <1>21 DEF PollEmitProgress
<1>22. CASE PollClearProgress
    BY <1>22, ZenonT(60) DEF PollClearProgress
<1>23. CASE PollComplete
    BY <1>23 DEF PollComplete
<1>24. CASE PollFinish
    <2>1. finished' \in Seq(Codes)
        BY <1>24 DEF PollFinish
    <2>2. output' \in Seq(Item) /\ received' \in Seq(Item)
        <3>1. received \o output \in Seq(Item)
            OBVIOUS
        <3>2. <<>> \in Seq(Item)
            OBVIOUS
        <3>3. QED
            BY <1>24, <3>1, <3>2 DEF PollFinish
    <2>3. QED
        BY <1>24, <2>1, <2>2, ZenonT(60) DEF PollFinish
<1>25. CASE UNCHANGED vars
    BY <1>25
<1>26. QED
    BY <1>1, <1>2, <1>3, <1>4, <1>5, <1>6, <1>7, <1>8, <1>9, <1>10, <1>11,
       <1>12, <1>13, <1>14, <1>15, <1>16, <1>17, <1>18, <1>19, <1>20,
       <1>21, <1>22, <1>23, <1>24, <1>25
    DEF Next, Worker, NotificationPoll

\* Every step keeps the two references where the threads need them.
LEMMA RefStep ==
    ASSUME TypeOK, RefInv, [Next]_vars
    PROVE  RefInv'
<1> USE ConstantsAssumption DEF TypeOK, RefInv, vars, priv, object, worker, seen
<1>1. CASE Start
    BY <1>1 DEF Start
<1>2. CASE Lock
    BY <1>2 DEF Lock
<1>3. CASE Push
    BY <1>3 DEF Push
<1>4. CASE Unlock
    BY <1>4 DEF Unlock
<1>5. CASE NotifyDataArrived
    BY <1>5 DEF NotifyDataArrived
<1>6. CASE CallNotifyProgress
    BY <1>6 DEF CallNotifyProgress
<1>7. CASE NotifyProgress
    BY <1>7 DEF NotifyProgress
<1>8. CASE Return
    BY <1>8 DEF Return
<1>9. CASE SetErrorMessage
    BY <1>9 DEF SetErrorMessage
<1>10. CASE UnlockError
    BY <1>10 DEF UnlockError
<1>11. CASE CallNotifyComplete
    BY <1>11 DEF CallNotifyComplete
<1>12. CASE NotifyComplete
    BY <1>12 DEF NotifyComplete
<1>13. CASE ThreadUnref
    BY <1>13 DEF ThreadUnref
<1>14. CASE Poll
    BY <1>14 DEF Poll
<1>15. CASE PollData
    BY <1>15 DEF PollData
<1>16. CASE PollTrylock
    BY <1>16 DEF PollTrylock
<1>17. CASE PollEmitData
    BY <1>17 DEF PollEmitData
<1>18. CASE PollUnlock
    BY <1>18 DEF PollUnlock
<1>19. CASE PollClearData
    BY <1>19 DEF PollClearData
<1>20. CASE PollProgress
    BY <1>20 DEF PollProgress
<1>21. CASE PollEmitProgress
    BY <1>21 DEF PollEmitProgress
<1>22. CASE PollClearProgress
    BY <1>22 DEF PollClearProgress
<1>23. CASE PollComplete
    BY <1>23 DEF PollComplete
<1>24. CASE PollFinish
    <2>1. finished = <<>>
        BY <1>24 DEF PollFinish
    <2>2. finished' = <<return_code>>
        BY <1>24, <2>1 DEF PollFinish
    <2>3. finished' # <<>>
        BY <2>2
    <2>4. /\ ~polling'
          /\ ppc' = "idle"
          /\ wpc' = wpc
          /\ ppc = "finish"
          /\ "thread" \in refs => "thread" \in refs'
        BY <1>24 DEF PollFinish
    <2>5. QED
        BY <2>3, <2>4
<1>25. CASE UNCHANGED vars
    BY <1>25
<1>26. QED
    BY <1>1, <1>2, <1>3, <1>4, <1>5, <1>6, <1>7, <1>8, <1>9, <1>10, <1>11,
       <1>12, <1>13, <1>14, <1>15, <1>16, <1>17, <1>18, <1>19, <1>20,
       <1>21, <1>22, <1>23, <1>24, <1>25
    DEF Next, Worker, NotificationPoll

\* Every step keeps the mutex with the thread that locked it.
LEMMA MutexStep ==
    ASSUME TypeOK, MutexInv, [Next]_vars
    PROVE  MutexInv'
<1> USE ConstantsAssumption DEF TypeOK, MutexInv, vars, priv, object, worker, seen
<1>1. CASE Start
    BY <1>1 DEF Start
<1>2. CASE Lock
    BY <1>2 DEF Lock
<1>3. CASE Push
    BY <1>3 DEF Push
<1>4. CASE Unlock
    BY <1>4 DEF Unlock
<1>5. CASE NotifyDataArrived
    BY <1>5 DEF NotifyDataArrived
<1>6. CASE CallNotifyProgress
    BY <1>6 DEF CallNotifyProgress
<1>7. CASE NotifyProgress
    BY <1>7 DEF NotifyProgress
<1>8. CASE Return
    BY <1>8 DEF Return
<1>9. CASE SetErrorMessage
    BY <1>9 DEF SetErrorMessage
<1>10. CASE UnlockError
    BY <1>10 DEF UnlockError
<1>11. CASE CallNotifyComplete
    BY <1>11 DEF CallNotifyComplete
<1>12. CASE NotifyComplete
    BY <1>12 DEF NotifyComplete
<1>13. CASE ThreadUnref
    BY <1>13 DEF ThreadUnref
<1>14. CASE Poll
    BY <1>14 DEF Poll
<1>15. CASE PollData
    BY <1>15 DEF PollData
<1>16. CASE PollTrylock
    BY <1>16 DEF PollTrylock
<1>17. CASE PollEmitData
    BY <1>17 DEF PollEmitData
<1>18. CASE PollUnlock
    BY <1>18 DEF PollUnlock
<1>19. CASE PollClearData
    BY <1>19 DEF PollClearData
<1>20. CASE PollProgress
    BY <1>20 DEF PollProgress
<1>21. CASE PollEmitProgress
    BY <1>21 DEF PollEmitProgress
<1>22. CASE PollClearProgress
    BY <1>22 DEF PollClearProgress
<1>23. CASE PollComplete
    BY <1>23 DEF PollComplete
<1>24. CASE PollFinish
    BY <1>24 DEF PollFinish
<1>25. CASE UNCHANGED vars
    BY <1>25
<1>26. QED
    BY <1>1, <1>2, <1>3, <1>4, <1>5, <1>6, <1>7, <1>8, <1>9, <1>10, <1>11,
       <1>12, <1>13, <1>14, <1>15, <1>16, <1>17, <1>18, <1>19, <1>20,
       <1>21, <1>22, <1>23, <1>24, <1>25
    DEF Next, Worker, NotificationPoll

\* Every step keeps command-finished after the return of ::run.
LEMMA CompleteStep ==
    ASSUME TypeOK, RefInv, CompleteInv, [Next]_vars
    PROVE  CompleteInv'
<1> USE ConstantsAssumption DEF TypeOK, RefInv, CompleteInv, vars, priv, object, worker, seen
<1>1. CASE Start
    BY <1>1 DEF Start
<1>2. CASE Lock
    BY <1>2 DEF Lock
<1>3. CASE Push
    BY <1>3 DEF Push
<1>4. CASE Unlock
    BY <1>4 DEF Unlock
<1>5. CASE NotifyDataArrived
    BY <1>5 DEF NotifyDataArrived
<1>6. CASE CallNotifyProgress
    BY <1>6 DEF CallNotifyProgress
<1>7. CASE NotifyProgress
    BY <1>7 DEF NotifyProgress
<1>8. CASE Return
    BY <1>8 DEF Return
<1>9. CASE SetErrorMessage
    BY <1>9 DEF SetErrorMessage
<1>10. CASE UnlockError
    BY <1>10 DEF UnlockError
<1>11. CASE CallNotifyComplete
    BY <1>11 DEF CallNotifyComplete
<1>12. CASE NotifyComplete
    BY <1>12 DEF NotifyComplete
<1>13. CASE ThreadUnref
    BY <1>13 DEF ThreadUnref
<1>14. CASE Poll
    BY <1>14 DEF Poll
<1>15. CASE PollData
    BY <1>15 DEF PollData
<1>16. CASE PollTrylock
    BY <1>16 DEF PollTrylock
<1>17. CASE PollEmitData
    BY <1>17 DEF PollEmitData
<1>18. CASE PollUnlock
    BY <1>18 DEF PollUnlock
<1>19. CASE PollClearData
    BY <1>19 DEF PollClearData
<1>20. CASE PollProgress
    BY <1>20 DEF PollProgress
<1>21. CASE PollEmitProgress
    BY <1>21 DEF PollEmitProgress
<1>22. CASE PollClearProgress
    BY <1>22 DEF PollClearProgress
<1>23. CASE PollComplete
    BY <1>23 DEF PollComplete
<1>24. CASE PollFinish
    <2>1. finished = <<>>
        BY <1>24 DEF PollFinish
    <2>2. finished' = <<return_code>>
        BY <1>24, <2>1 DEF PollFinish
    <2>3. QED
        BY <1>24, <2>2 DEF PollFinish
<1>25. CASE UNCHANGED vars
    BY <1>25
<1>26. QED
    BY <1>1, <1>2, <1>3, <1>4, <1>5, <1>6, <1>7, <1>8, <1>9, <1>10, <1>11,
       <1>12, <1>13, <1>14, <1>15, <1>16, <1>17, <1>18, <1>19, <1>20,
       <1>21, <1>22, <1>23, <1>24, <1>25
    DEF Next, Worker, NotificationPoll

\* Every step keeps a message behind every failure code.
LEMMA ErrorStep ==
    ASSUME TypeOK, RefInv, CompleteInv, ErrorInv, [Next]_vars
    PROVE  ErrorInv'
<1> USE ConstantsAssumption DEF TypeOK, RefInv, CompleteInv, ErrorInv, vars, priv, object, worker, seen
<1>1. CASE Start
    BY <1>1 DEF Start
<1>2. CASE Lock
    BY <1>2 DEF Lock
<1>3. CASE Push
    BY <1>3 DEF Push
<1>4. CASE Unlock
    BY <1>4 DEF Unlock
<1>5. CASE NotifyDataArrived
    BY <1>5 DEF NotifyDataArrived
<1>6. CASE CallNotifyProgress
    BY <1>6 DEF CallNotifyProgress
<1>7. CASE NotifyProgress
    BY <1>7 DEF NotifyProgress
<1>8. CASE Return
    BY <1>8 DEF Return
<1>9. CASE SetErrorMessage
    BY <1>9 DEF SetErrorMessage
<1>10. CASE UnlockError
    BY <1>10 DEF UnlockError
<1>11. CASE CallNotifyComplete
    BY <1>11 DEF CallNotifyComplete
<1>12. CASE NotifyComplete
    BY <1>12 DEF NotifyComplete
<1>13. CASE ThreadUnref
    BY <1>13 DEF ThreadUnref
<1>14. CASE Poll
    BY <1>14 DEF Poll
<1>15. CASE PollData
    BY <1>15 DEF PollData
<1>16. CASE PollTrylock
    BY <1>16 DEF PollTrylock
<1>17. CASE PollEmitData
    BY <1>17 DEF PollEmitData
<1>18. CASE PollUnlock
    BY <1>18 DEF PollUnlock
<1>19. CASE PollClearData
    BY <1>19 DEF PollClearData
<1>20. CASE PollProgress
    BY <1>20 DEF PollProgress
<1>21. CASE PollEmitProgress
    BY <1>21 DEF PollEmitProgress
<1>22. CASE PollClearProgress
    BY <1>22 DEF PollClearProgress
<1>23. CASE PollComplete
    BY <1>23 DEF PollComplete
<1>24. CASE PollFinish
    <2>1. finished = <<>>
        BY <1>24 DEF PollFinish
    <2>2. finished' = <<return_code>>
        BY <1>24, <2>1 DEF PollFinish
    <2>3. QED
        BY <1>24, <2>2 DEF PollFinish
<1>25. CASE UNCHANGED vars
    BY <1>25
<1>26. QED
    BY <1>1, <1>2, <1>3, <1>4, <1>5, <1>6, <1>7, <1>8, <1>9, <1>10, <1>11,
       <1>12, <1>13, <1>14, <1>15, <1>16, <1>17, <1>18, <1>19, <1>20,
       <1>21, <1>22, <1>23, <1>24, <1>25
    DEF Next, Worker, NotificationPoll

\* The inductive invariant holds in every reachable state.
THEOREM Invariant == Spec => []IInv
<1>1. IInv /\ [Next]_vars => IInv'
    BY TypeStep, RefStep, MutexStep, CompleteStep, ErrorStep DEF IInv
<1>2. QED
    BY <1>1, InitIInv, PTL DEF Spec

-----------------------------------------------------------------------------
\* The fields of the command keep their types (anjuta_async_command_init and
\* every store the two threads make).
THEOREM TypeCorrect == Spec => []TypeOK
<1>1. IInv => TypeOK
    BY DEF IInv
<1>2. QED
    BY <1>1, Invariant, PTL

\* Neither thread, nor the idle source, uses the command after finalize.
THEOREM RefSafe == Spec => []NoUseAfterFree
<1>1. IInv => NoUseAfterFree
    BY DEF IInv, RefInv, NoUseAfterFree, Freed
<1>2. QED
    BY <1>1, Invariant, PTL

\* No signal handler touches the output queue while ::run pushes on it.
THEOREM OutputSafe == Spec => []OutputExclusive
<1>1. IInv => OutputExclusive
    BY DEF IInv, MutexInv, CompleteInv, OutputExclusive
<1>2. QED
    BY <1>1, Invariant, PTL

\* command-finished is emitted at most once, only after ::run returned, and a
\* client that is told of a failure finds a message to report.
THEOREM FinishedSafe == Spec => []FinishedAfterRun
<1>1. IInv => FinishedAfterRun
    BY DEF IInv, CompleteInv, ErrorInv, FinishedAfterRun
<1>2. QED
    BY <1>1, Invariant, PTL

-----------------------------------------------------------------------------
\* Appending to the second of two concatenated sequences appends to the whole.
LEMMA AppendAfterConcat ==
    ASSUME NEW r \in Seq(Nat), NEW o \in Seq(Nat), NEW x \in Nat
    PROVE  r \o Append(o, x) = Append(r \o o, x)
<1> DEFINE a == r \o Append(o, x)
           b == Append(r \o o, x)
<1>1. a \in Seq(Nat) /\ b \in Seq(Nat)
    OBVIOUS
<1>2. Len(a) = Len(r) + Len(o) + 1 /\ Len(b) = Len(r) + Len(o) + 1
    OBVIOUS
<1>3. ASSUME NEW i \in 1 .. Len(r) + Len(o) + 1
      PROVE  a[i] = b[i]
    OBVIOUS
<1>4. a = b
    <2> HIDE DEF a, b
    <2> QED
        BY <1>1, <1>2, <1>3, SeqEqual
<1>5. QED
    BY <1>4

\* Pushing the next item extends the order.
LEMMA PushOrder ==
    ASSUME NEW r \in Seq(Nat), NEW o \in Seq(Nat), NEW n \in Nat,
           r \o o = UpTo(n)
    PROVE  r \o Append(o, n + 1) = UpTo(n + 1)
<1>1. r \o Append(o, n + 1) = Append(r \o o, n + 1)
    BY AppendAfterConcat, n + 1 \in Nat
<1>2. Append(UpTo(n), n + 1) = UpTo(n + 1)
    BY DEF UpTo
<1>3. QED
    BY <1>1, <1>2

\* Moving the head of the output queue to the client keeps the order.
LEMMA TakeOrder ==
    ASSUME NEW r \in Seq(Nat), NEW o \in Seq(Nat), o # <<>>
    PROVE  Append(r, Head(o)) \o Tail(o) = r \o o
OBVIOUS

\* Items are numbers, so a sequence of them is a sequence of numbers.
LEMMA ItemSequence ==
    ASSUME NEW s \in Seq(Item)
    PROVE  s \in Seq(Nat)
<1>1. Item \subseteq Nat
    BY DEF Item
<1>2. /\ Len(s) \in Nat
      /\ s = [i \in 1 .. Len(s) |-> s[i]]
      /\ \A i \in 1 .. Len(s) : s[i] \in Item
    OBVIOUS
<1>3. QED
    BY <1>1, <1>2

\* Every step keeps the items in order.
LEMMA ItemsStep ==
    ASSUME TypeOK, ItemsInOrder, [Next]_vars
    PROVE  ItemsInOrder'
<1> USE DEF vars, priv, object, worker, seen
<1>1. CASE Start
    BY <1>1 DEF Start, ItemsInOrder
<1>2. CASE Lock
    BY <1>2 DEF Lock, ItemsInOrder
<1>3. CASE Push
    <2>1. pushed \in Nat /\ output \in Seq(Nat) /\ received \in Seq(Nat)
        BY ItemSequence DEF TypeOK
    <2>2. received \o output = UpTo(pushed)
        BY DEF ItemsInOrder
    <2>3. received \o Append(output, pushed + 1) = UpTo(pushed + 1)
        BY <2>1, <2>2, PushOrder
    <2>4. QED
        BY <1>3, <2>3 DEF Push, ItemsInOrder
<1>4. CASE Unlock
    BY <1>4 DEF Unlock, ItemsInOrder
<1>5. CASE NotifyDataArrived
    BY <1>5 DEF NotifyDataArrived, ItemsInOrder
<1>6. CASE CallNotifyProgress
    BY <1>6 DEF CallNotifyProgress, ItemsInOrder
<1>7. CASE NotifyProgress
    BY <1>7 DEF NotifyProgress, ItemsInOrder
<1>8. CASE Return
    BY <1>8 DEF Return, ItemsInOrder
<1>9. CASE SetErrorMessage
    BY <1>9 DEF SetErrorMessage, ItemsInOrder
<1>10. CASE UnlockError
    BY <1>10 DEF UnlockError, ItemsInOrder
<1>11. CASE CallNotifyComplete
    BY <1>11 DEF CallNotifyComplete, ItemsInOrder
<1>12. CASE NotifyComplete
    BY <1>12 DEF NotifyComplete, ItemsInOrder
<1>13. CASE ThreadUnref
    BY <1>13 DEF ThreadUnref, ItemsInOrder
<1>14. CASE Poll
    BY <1>14 DEF Poll, ItemsInOrder
<1>15. CASE PollData
    BY <1>15 DEF PollData, ItemsInOrder
<1>16. CASE PollTrylock
    BY <1>16 DEF PollTrylock, ItemsInOrder
<1>17. CASE PollEmitData
    <2>1. CASE client = "data-arrived" /\ output # <<>>
        <3>1. output \in Seq(Nat) /\ received \in Seq(Nat)
            BY ItemSequence DEF TypeOK
        <3>2. Append(received, Head(output)) \o Tail(output)
                = received \o output
            BY <2>1, <3>1, TakeOrder
        <3>3. QED
            BY <1>17, <2>1, <3>2 DEF PollEmitData, ItemsInOrder
    <2>2. CASE ~(client = "data-arrived" /\ output # <<>>)
        BY <1>17, <2>2 DEF PollEmitData, ItemsInOrder
    <2>3. QED
        BY <2>1, <2>2
<1>18. CASE PollUnlock
    BY <1>18 DEF PollUnlock, ItemsInOrder
<1>19. CASE PollClearData
    BY <1>19 DEF PollClearData, ItemsInOrder
<1>20. CASE PollProgress
    BY <1>20 DEF PollProgress, ItemsInOrder
<1>21. CASE PollEmitProgress
    BY <1>21 DEF PollEmitProgress, ItemsInOrder
<1>22. CASE PollClearProgress
    BY <1>22 DEF PollClearProgress, ItemsInOrder
<1>23. CASE PollComplete
    BY <1>23 DEF PollComplete, ItemsInOrder
<1>24. CASE PollFinish
    <2>1. (received \o output) \o <<>> = received \o output
        <3>1. output \in Seq(Nat) /\ received \in Seq(Nat)
            BY ItemSequence DEF TypeOK
        <3>2. received \o output \in Seq(Nat)
            BY <3>1
        <3>3. QED
            BY <3>2
    <2>2. QED
        BY <1>24, <2>1 DEF PollFinish, ItemsInOrder
<1>25. CASE UNCHANGED vars
    BY <1>25 DEF ItemsInOrder
<1>26. QED
    BY <1>1, <1>2, <1>3, <1>4, <1>5, <1>6, <1>7, <1>8, <1>9, <1>10, <1>11,
       <1>12, <1>13, <1>14, <1>15, <1>16, <1>17, <1>18, <1>19, <1>20,
       <1>21, <1>22, <1>23, <1>24, <1>25
    DEF Next, Worker, NotificationPoll

\* The client takes the items in the order ::run pushed them.
THEOREM ItemsOrdered == Spec => []ItemsInOrder
<1>1. Init => ItemsInOrder
    <2>1. <<>> \o <<>> = UpTo(0)
        BY DEF UpTo
    <2>2. QED
        BY <2>1 DEF Init, ItemsInOrder
<1>2. TypeOK /\ ItemsInOrder /\ [Next]_vars => ItemsInOrder'
    BY ItemsStep
<1>3. QED
    BY <1>1, <1>2, TypeCorrect, PTL DEF Spec

\* command-finished is the last signal of the command.
THEOREM LastSignal == Spec => NothingAfterFinished
<1>1. IInv /\ [Next]_vars =>
        [finished # <<>> => UNCHANGED <<received, shown, finished>>]_vars
    <2> SUFFICES ASSUME IInv, [Next]_vars, finished # <<>>
                 PROVE  UNCHANGED <<received, shown, finished>>
        OBVIOUS
    <2>1. ppc = "idle" /\ ~polling
        BY DEF IInv, RefInv
    <2>2. QED
        BY <2>1 DEF Next, NotificationPoll, Worker, Start, vars, seen, Lock, Push, Unlock,
            NotifyDataArrived, CallNotifyProgress, NotifyProgress, Return,
            SetErrorMessage, UnlockError, CallNotifyComplete, NotifyComplete,
            ThreadUnref,
            Poll, PollData, PollTrylock, PollEmitData, PollUnlock,
            PollClearData, PollProgress, PollEmitProgress, PollClearProgress,
            PollComplete, PollFinish
<1>2. QED
    BY <1>1, Invariant, PTL DEF Spec, NothingAfterFinished
=============================================================================
