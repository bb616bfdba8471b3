-------------------------- MODULE RadioAccessProofs --------------------------
(***************************************************************************)
(* Proofs about RadioAccess, for every failure limit and any number of     *)
(* jobs.                                                                   *)
(***************************************************************************)
EXTENDS RadioAccess, TLAPS

-----------------------------------------------------------------------------
(* Typing and the control state.                                           *)

\* The Boolean variables.
FlagTypeOK ==
    /\ rxDone \in BOOLEAN /\ loaded \in BOOLEAN /\ attached \in BOOLEAN
    /\ received \in BOOLEAN /\ tx_busy \in BOOLEAN /\ ready \in BOOLEAN
    /\ rx_rearm_pending \in BOOLEAN /\ discarded \in BOOLEAN

\* The others, without the bound of the re-arm counter.
CtrlTypeOK ==
    /\ chip \in {"rx", "standby"}
    /\ alert \in {"none", "packet", "other"}
    /\ failures \in Nat
    /\ owner \in Threads \union {"none"}
    /\ pc \in [Threads -> Labels]
    /\ op \in [Threads -> {"none", "channel", "cad", "send", "config",
                           "plain"}]
    /\ jobs \in 0..MaxJobs /\ done \in 0..jobs

\* Where a thread is on its way through lora_send_controller.
SendLabels == {"send_lock", "prepare", "standby", "transmit", "release"}

\* Where it is inside a CAD probe.
ProbeLabels == {"probe_check", "quiesce", "look", "detach", "scan"}

\* radio_mutex is held exactly at the labels of the critical sections.
MutexInv == \A t \in Threads : owner = t <=> pc[t] \in Locked

\* The operation a thread has announced belongs to where it is; the worker
\* counts a job as done only once, at its end.
OpInv ==
    /\ \A t \in Threads :
          /\ pc[t] \in SendLabels => op[t] = "send"
          /\ op[t] = "send" => pc[t] \in SendLabels \union {"restore", "arm"}
          /\ pc[t] \in ProbeLabels => op[t] \in {"cad", "channel"}
          /\ pc[t] = "probe_lock" => op[t] = "cad"
    /\ pc["main"] \in {"channel_busy", "channel_try", "channel_check"} =>
          op["main"] = "channel"
    /\ pc["worker"] # "idle" => done < jobs

\* tx_busy says that a transmission is under way, and there is one at most.
TxInv ==
    /\ tx_busy <=> \E t \in Threads : op[t] = "send"
    /\ ~(op["main"] = "send" /\ op["worker"] = "send")

-----------------------------------------------------------------------------
(* The chip under the mutex.                                               *)

\* The callback is off from the moment it is detached until RX is re-armed.
DetachedInv ==
    \A t \in Threads :
       pc[t] \in {"scan", "restore", "arm", "standby", "transmit"} => ~attached

\* The receiver is stopped before the callback is taken off for a scan and
\* before a transmission, and nothing arrives while it is.
StoppedInv ==
    \A t \in Threads :
       /\ pc[t] \in {"look", "detach", "scan", "restore", "arm", "transmit"}
             => chip = "standby"
       /\ pc[t] \in {"detach", "scan", "arm", "transmit"} => ~rxDone

\* A completion other than RxDone meets no callback.
AlertInv == alert # "other"

\* What tells that the receiver is not up: the latch, the health, the flag,
\* or the discard.
Told == rx_rearm_pending \/ ~ready \/ received \/ discarded

\* A stopped receiver, an absent callback and a packet without an edge to
\* come are the business of a thread that holds the mutex and will re-arm, or
\* are told.
DeafInv ==
    /\ chip = "standby" =>
          \/ Told
          \/ \E t \in Threads :
                pc[t] \in {"look", "detach", "scan", "restore", "arm",
                           "standby", "transmit", "rx_read"}
    /\ ~attached =>
          \/ ~ready
          \/ \E t \in Threads :
                pc[t] \in {"scan", "restore", "arm", "standby", "transmit"}
    /\ rxDone =>
          \/ Told
          \/ alert # "none"
          \/ \E t \in Threads : pc[t] \in {"standby", "rx_read"}

-----------------------------------------------------------------------------
(* The re-arm counter.                                                     *)

\* Beyond the readiness check of an operation that ends in startReceive.
Committed == {"restore", "arm", "send_lock", "prepare", "standby", "transmit",
              "config_lock", "config_apply", "retry_try", "retry_check",
              "rx_busy", "rx_lock", "rx_check", "rx_read"}

\* The failures a thread can still add without asking for the health again.
ToCome(t) == IF pc[t] \in Committed THEN 1 ELSE 0

\* Whoever takes the counter to the limit fails the radio; after that only the
\* other thread can be on its way to a startReceive.
CountInv ==
    /\ ready => failures < FailLimit
    /\ ~ready => failures + ToCome("main") + ToCome("worker") <= FailLimit + 1

-----------------------------------------------------------------------------

\* startReceive and its bookkeeping, for the steps that end in it.
LEMMA StartReceiveData ==
    ASSUME failures \in Nat, StartReceive
    PROVE  chip' \in {"rx", "standby"} /\ failures' \in Nat
<1>1. /\ chip' = "rx" \/ chip' = "standby"
      /\ failures' = 0 \/ failures' = failures + 1
  BY Zenon DEF StartReceive, NoteSuccess, NoteFailure
<1>2. QED
  BY <1>1

\* startReceive leaves either a receiver that is up with clear IRQ flags and
\* nothing to tell, or the latch set and the failure counted.
LEMMA StartReceiveOutcome ==
    ASSUME FlagTypeOK, failures \in Nat, StartReceive
    PROVE  \/ /\ chip' = "rx" /\ ~rxDone' /\ ~discarded' /\ ~rx_rearm_pending'
              /\ failures' = 0 /\ (ready' <=> ready)
           \/ /\ chip' = "standby" /\ (rxDone' => rxDone)
              /\ (discarded' <=> discarded) /\ rx_rearm_pending'
              /\ failures' = failures + 1
              /\ ready' <=> ready /\ failures + 1 < FailLimit
  BY Zenon DEF StartReceive, NoteSuccess, NoteFailure, FlagTypeOK

\* The Boolean variables stay Boolean.
LEMMA FlagsTyped == Spec => []FlagTypeOK
<1>1. Init => FlagTypeOK
  BY Zenon DEF Init, FlagTypeOK
<1>2. FlagTypeOK /\ [Next]_vars => FlagTypeOK'
  <2> SUFFICES ASSUME FlagTypeOK, [Next]_vars
               PROVE  FlagTypeOK'
    OBVIOUS
  <2> USE DEF FlagTypeOK, chipVars, armVars, jobVars
  <2>1. CASE PacketArrives
    BY <2>1, Zenon DEF PacketArrives
  <2>2. CASE Alert
    BY <2>2, Zenon DEF Alert
  <2>3. CASE SubmitJob
    BY <2>3, Zenon DEF SubmitJob
  <2>4. CASE DirectTx
    BY <2>4, Zenon DEF DirectTx, QueueIdle, Go
  <2>5. CASE GetChannel
    BY <2>5, Zenon DEF GetChannel, Go
  <2>6. CASE ChannelBusy
    BY <2>6, Zenon DEF ChannelBusy, Go
  <2>7. CASE ChannelTry
    BY <2>7, Zenon DEF ChannelTry, TryLock, Go
  <2>8. CASE ChannelCheck
    BY <2>8, Zenon DEF ChannelCheck, ProbeReturns, Unlock, Go, Home
  <2>9. CASE ConfigStart
    BY <2>9, Zenon DEF ConfigStart, QueueIdle, Go
  <2>10. CASE ConfigLock
    BY <2>10, Zenon DEF ConfigLock, Lock, Go
  <2>11. CASE ConfigApplied
    BY <2>11, Zenon DEF ConfigApplied, StartReceive, NoteSuccess, NoteFailure,
       ConfigReturns, Unlock, Go
  <2>12. CASE ConfigNoOp
    BY <2>12, Zenon DEF ConfigNoOp, ConfigReturns, Unlock, Go
  <2>13. CASE ConfigHwError
    BY <2>13, Zenon DEF ConfigHwError, ConfigReturns, Unlock, Go
  <2>14. CASE SocketsDone
    BY <2>14, Zenon DEF SocketsDone, Go
  <2>15. CASE RetrySkip
    BY <2>15, Zenon DEF RetrySkip, Go
  <2>16. CASE RetryDue
    BY <2>16, Zenon DEF RetryDue, Go
  <2>17. CASE RetryLook
    BY <2>17, Zenon DEF RetryLook, Go
  <2>18. CASE RetryTry
    BY <2>18, Zenon DEF RetryTry, TryLock, Go
  <2>19. CASE RetryArm
    BY <2>19, Zenon DEF RetryArm, StartReceive, NoteSuccess, NoteFailure,
       Unlock, Go
  <2>20. CASE RetryYields
    BY <2>20, Zenon DEF RetryYields, Unlock, Go
  <2>21. CASE RxLook
    BY <2>21, Zenon DEF RxLook, Go
  <2>22. CASE RxBusy
    BY <2>22, Zenon DEF RxBusy, Go
  <2>23. CASE RxDiscard
    BY <2>23, Zenon DEF RxDiscard, DiscardRx, Go
  <2>24. CASE RxLock
    BY <2>24, Zenon DEF RxLock, Lock, Go
  <2>25. CASE RxCheck
    BY <2>25, Zenon DEF RxCheck, DiscardRx, Unlock, Go
  <2>26. CASE RxRead
    BY <2>26, Zenon DEF RxRead, StartReceive, NoteSuccess, NoteFailure, Unlock,
       Go
  <2>27. CASE WorkerTakesJob
    BY <2>27, Zenon DEF WorkerTakesJob, Go
  <2>28. ASSUME NEW t \in Threads, ProbeLock(t) PROVE FlagTypeOK'
    BY <2>28, Zenon DEF ProbeLock, Lock, Go
  <2>29. ASSUME NEW t \in Threads, ProbeCheck(t) PROVE FlagTypeOK'
    BY <2>29, Zenon DEF ProbeCheck, ProbeReturns, Unlock, Go, Home
  <2>30. ASSUME NEW t \in Threads, Quiesce(t) PROVE FlagTypeOK'
    BY <2>30, Zenon DEF Quiesce, Go
  <2>31. ASSUME NEW t \in Threads, QuiesceFails(t) PROVE FlagTypeOK'
    BY <2>31, Zenon DEF QuiesceFails, ProbeReturns, Unlock, Go, Home
  <2>32. ASSUME NEW t \in Threads, Look(t) PROVE FlagTypeOK'
    BY <2>32, Zenon DEF Look, PacketSeen, ProbeReturns, Unlock, Go, Home
  <2>33. ASSUME NEW t \in Threads, Detach(t) PROVE FlagTypeOK'
    BY <2>33, Zenon DEF Detach, ClearPacketReceivedAction, Go
  <2>34. ASSUME NEW t \in Threads, Scan(t) PROVE FlagTypeOK'
    BY <2>34, Zenon DEF Scan, OtherEdge, Go, ProbeReturns, Unlock, Home
  <2>35. ASSUME NEW t \in Threads, Restore(t) PROVE FlagTypeOK'
    BY <2>35, Zenon DEF Restore, Go
  <2>36. ASSUME NEW t \in Threads, Arm(t) PROVE FlagTypeOK'
    BY <2>36, Zenon DEF Arm, StartReceive, NoteSuccess, NoteFailure, Unlock,
       Go, ProbeReturns, Home
  <2>37. ASSUME NEW t \in Threads, Gate(t) PROVE FlagTypeOK'
    BY <2>37, Zenon DEF Gate, Go, TxEnds, Home
  <2>38. ASSUME NEW t \in Threads, Reprobe(t) PROVE FlagTypeOK'
    BY <2>38, Zenon DEF Reprobe, Go
  <2>39. ASSUME NEW t \in Threads, Judge(t) PROVE FlagTypeOK'
    BY <2>39, Zenon DEF Judge, TxEnds, Go, Home
  <2>40. ASSUME NEW t \in Threads, SendAcquire(t) PROVE FlagTypeOK'
    BY <2>40, Zenon DEF SendAcquire, Go, TxEnds, Home
  <2>41. ASSUME NEW t \in Threads, SendLock(t) PROVE FlagTypeOK'
    BY <2>41, Zenon DEF SendLock, Lock, Go
  <2>42. ASSUME NEW t \in Threads, SendPrepare(t) PROVE FlagTypeOK'
    BY <2>42, Zenon DEF SendPrepare, ClearPacketReceivedAction, Go
  <2>43. ASSUME NEW t \in Threads, SendStandby(t) PROVE FlagTypeOK'
    BY <2>43, Zenon DEF SendStandby, Go
  <2>44. ASSUME NEW t \in Threads, Transmit(t) PROVE FlagTypeOK'
    BY <2>44, Zenon DEF Transmit, OtherEdge, Go
  <2>45. ASSUME NEW t \in Threads, SendRelease(t) PROVE FlagTypeOK'
    BY <2>45, Zenon DEF SendRelease, ReleaseTx, TxEnds, Go, Home
  <2>46. CASE UNCHANGED vars
    BY <2>46, Zenon DEF vars
  <2>47. QED
    BY <2>1, <2>2, <2>3, <2>4, <2>5, <2>6, <2>7, <2>8, <2>9, <2>10, <2>11,
       <2>12, <2>13, <2>14, <2>15, <2>16, <2>17, <2>18, <2>19, <2>20, <2>21,
       <2>22, <2>23, <2>24, <2>25, <2>26, <2>27, <2>28, <2>29, <2>30, <2>31,
       <2>32, <2>33, <2>34, <2>35, <2>36, <2>37, <2>38, <2>39, <2>40, <2>41,
       <2>42, <2>43, <2>44, <2>45, <2>46
       DEF Next, Sockets, Tick, Step
<1>3. QED
  BY <1>1, <1>2, PTL DEF Spec

\* The other variables stay in their ranges; radio_mutex is held exactly in the
\* critical sections, so never by both threads; the announced operations fit.
LEMMA Control == Spec => [](CtrlTypeOK /\ MutexInv /\ OpInv)
<1>1. Init => CtrlTypeOK /\ MutexInv /\ OpInv
  BY LimitAssumption DEF Init, CtrlTypeOK, MutexInv, OpInv, Threads, Labels,
     Locked, SendLabels, ProbeLabels
<1>2. CtrlTypeOK /\ MutexInv /\ OpInv /\ [Next]_vars
      => CtrlTypeOK' /\ MutexInv' /\ OpInv'
  <2> SUFFICES ASSUME CtrlTypeOK, MutexInv, OpInv, [Next]_vars
               PROVE  CtrlTypeOK' /\ MutexInv' /\ OpInv'
    OBVIOUS
  <2> USE StartReceiveData, LimitAssumption DEF CtrlTypeOK, MutexInv, OpInv,
          Threads, Labels, Locked, SendLabels, ProbeLabels, chipVars, armVars,
          jobVars
  <2>1. CASE PacketArrives
    BY <2>1 DEF PacketArrives
  <2>2. CASE Alert
    BY <2>2 DEF Alert
  <2>3. CASE SubmitJob
    BY <2>3 DEF SubmitJob
  <2>4. CASE DirectTx
    BY <2>4 DEF DirectTx, QueueIdle, Go
  <2>5. CASE GetChannel
    BY <2>5 DEF GetChannel, Go
  <2>6. CASE ChannelBusy
    BY <2>6 DEF ChannelBusy, Go
  <2>7. CASE ChannelTry
    BY <2>7 DEF ChannelTry, TryLock, Go
  <2>8. CASE ChannelCheck
    BY <2>8 DEF ChannelCheck, ProbeReturns, Unlock, Go, Home
  <2>9. CASE ConfigStart
    BY <2>9 DEF ConfigStart, QueueIdle, Go
  <2>10. CASE ConfigLock
    BY <2>10 DEF ConfigLock, Lock, Go
  <2>11. CASE ConfigApplied
    BY <2>11 DEF ConfigApplied, ConfigReturns, Unlock, Go
  <2>12. CASE ConfigNoOp
    BY <2>12 DEF ConfigNoOp, ConfigReturns, Unlock, Go
  <2>13. CASE ConfigHwError
    BY <2>13 DEF ConfigHwError, ConfigReturns, Unlock, Go
  <2>14. CASE SocketsDone
    BY <2>14 DEF SocketsDone, Go
  <2>15. CASE RetrySkip
    BY <2>15 DEF RetrySkip, Go
  <2>16. CASE RetryDue
    BY <2>16 DEF RetryDue, Go
  <2>17. CASE RetryLook
    BY <2>17 DEF RetryLook, Go
  <2>18. CASE RetryTry
    BY <2>18 DEF RetryTry, TryLock, Go
  <2>19. CASE RetryArm
    BY <2>19 DEF RetryArm, Unlock, Go
  <2>20. CASE RetryYields
    BY <2>20 DEF RetryYields, Unlock, Go
  <2>21. CASE RxLook
    BY <2>21 DEF RxLook, Go
  <2>22. CASE RxBusy
    BY <2>22 DEF RxBusy, Go
  <2>23. CASE RxDiscard
    BY <2>23 DEF RxDiscard, DiscardRx, Go
  <2>24. CASE RxLock
    BY <2>24 DEF RxLock, Lock, Go
  <2>25. CASE RxCheck
    BY <2>25 DEF RxCheck, DiscardRx, Unlock, Go
  <2>26. CASE RxRead
    BY <2>26 DEF RxRead, Unlock, Go
  <2>27. CASE WorkerTakesJob
    BY <2>27 DEF WorkerTakesJob, Go
  <2>28. ASSUME NEW t \in Threads, ProbeLock(t)
         PROVE  CtrlTypeOK' /\ MutexInv' /\ OpInv'
    BY <2>28 DEF ProbeLock, Lock, Go
  <2>29. ASSUME NEW t \in Threads, ProbeCheck(t)
         PROVE  CtrlTypeOK' /\ MutexInv' /\ OpInv'
    BY <2>29 DEF ProbeCheck, ProbeReturns, Unlock, Go, Home
  <2>30. ASSUME NEW t \in Threads, Quiesce(t)
         PROVE  CtrlTypeOK' /\ MutexInv' /\ OpInv'
    BY <2>30 DEF Quiesce, Go
  <2>31. ASSUME NEW t \in Threads, QuiesceFails(t)
         PROVE  CtrlTypeOK' /\ MutexInv' /\ OpInv'
    BY <2>31 DEF QuiesceFails, ProbeReturns, Unlock, Go, Home
  <2>32. ASSUME NEW t \in Threads, Look(t)
         PROVE  CtrlTypeOK' /\ MutexInv' /\ OpInv'
    BY <2>32 DEF Look, PacketSeen, ProbeReturns, Unlock, Go, Home
  <2>33. ASSUME NEW t \in Threads, Detach(t)
         PROVE  CtrlTypeOK' /\ MutexInv' /\ OpInv'
    BY <2>33 DEF Detach, ClearPacketReceivedAction, Go
  <2>34. ASSUME NEW t \in Threads, Scan(t)
         PROVE  CtrlTypeOK' /\ MutexInv' /\ OpInv'
    BY <2>34 DEF Scan, OtherEdge, Go, ProbeReturns, Unlock, Home
  <2>35. ASSUME NEW t \in Threads, Restore(t)
         PROVE  CtrlTypeOK' /\ MutexInv' /\ OpInv'
    BY <2>35 DEF Restore, Go
  <2>36. ASSUME NEW t \in Threads, Arm(t)
         PROVE  CtrlTypeOK' /\ MutexInv' /\ OpInv'
    BY <2>36 DEF Arm, Unlock, Go, ProbeReturns, Home
  <2>37. ASSUME NEW t \in Threads, Gate(t)
         PROVE  CtrlTypeOK' /\ MutexInv' /\ OpInv'
    BY <2>37 DEF Gate, Go, TxEnds, Home
  <2>38. ASSUME NEW t \in Threads, Reprobe(t)
         PROVE  CtrlTypeOK' /\ MutexInv' /\ OpInv'
    BY <2>38 DEF Reprobe, Go
  <2>39. ASSUME NEW t \in Threads, Judge(t)
         PROVE  CtrlTypeOK' /\ MutexInv' /\ OpInv'
    BY <2>39 DEF Judge, TxEnds, Go, Home
  <2>40. ASSUME NEW t \in Threads, SendAcquire(t)
         PROVE  CtrlTypeOK' /\ MutexInv' /\ OpInv'
    BY <2>40 DEF SendAcquire, Go, TxEnds, Home
  <2>41. ASSUME NEW t \in Threads, SendLock(t)
         PROVE  CtrlTypeOK' /\ MutexInv' /\ OpInv'
    BY <2>41 DEF SendLock, Lock, Go
  <2>42. ASSUME NEW t \in Threads, SendPrepare(t)
         PROVE  CtrlTypeOK' /\ MutexInv' /\ OpInv'
    BY <2>42 DEF SendPrepare, ClearPacketReceivedAction, Go
  <2>43. ASSUME NEW t \in Threads, SendStandby(t)
         PROVE  CtrlTypeOK' /\ MutexInv' /\ OpInv'
    BY <2>43 DEF SendStandby, Go
  <2>44. ASSUME NEW t \in Threads, Transmit(t)
         PROVE  CtrlTypeOK' /\ MutexInv' /\ OpInv'
    BY <2>44 DEF Transmit, OtherEdge, Go
  <2>45. ASSUME NEW t \in Threads, SendRelease(t)
         PROVE  CtrlTypeOK' /\ MutexInv' /\ OpInv'
    BY <2>45 DEF SendRelease, ReleaseTx, TxEnds, Go, Home
  <2>46. CASE UNCHANGED vars
    BY <2>46 DEF vars
  <2>47. QED
    BY <2>1, <2>2, <2>3, <2>4, <2>5, <2>6, <2>7, <2>8, <2>9, <2>10, <2>11,
       <2>12, <2>13, <2>14, <2>15, <2>16, <2>17, <2>18, <2>19, <2>20, <2>21,
       <2>22, <2>23, <2>24, <2>25, <2>26, <2>27, <2>28, <2>29, <2>30, <2>31,
       <2>32, <2>33, <2>34, <2>35, <2>36, <2>37, <2>38, <2>39, <2>40, <2>41,
       <2>42, <2>43, <2>44, <2>45, <2>46
       DEF Next, Sockets, Tick, Step
<1>3. QED
  BY <1>1, <1>2, PTL DEF Spec

\* tx_busy is up exactly while one of the threads transmits, and they never
\* both do: tx_busy.exchange in lora_send_controller lets one through.
THEOREM TxExclusive == Spec => []TxInv
<1>1. Init => TxInv
  BY DEF Init, TxInv, Threads, Labels, Locked, SendLabels, ProbeLabels
<1>2. TxInv /\ FlagTypeOK /\ CtrlTypeOK /\ OpInv /\ [Next]_vars => TxInv'
  <2> SUFFICES ASSUME TxInv, FlagTypeOK, CtrlTypeOK, OpInv, [Next]_vars
               PROVE  TxInv'
    OBVIOUS
  <2> USE StartReceiveOutcome DEF TxInv, FlagTypeOK, CtrlTypeOK, OpInv,
          Threads, Labels, Locked, SendLabels, ProbeLabels, chipVars, armVars,
          jobVars
  <2>1. CASE PacketArrives
    BY <2>1 DEF PacketArrives
  <2>2. CASE Alert
    BY <2>2 DEF Alert
  <2>3. CASE SubmitJob
    BY <2>3 DEF SubmitJob
  <2>4. CASE DirectTx
    BY <2>4 DEF DirectTx, QueueIdle, Go
  <2>5. CASE GetChannel
    BY <2>5 DEF GetChannel, Go
  <2>6. CASE ChannelBusy
    BY <2>6 DEF ChannelBusy, Go
  <2>7. CASE ChannelTry
    BY <2>7 DEF ChannelTry, TryLock, Go
  <2>8. CASE ChannelCheck
    BY <2>8 DEF ChannelCheck, ProbeReturns, Unlock, Go, Home
  <2>9. CASE ConfigStart
    BY <2>9 DEF ConfigStart, QueueIdle, Go
  <2>10. CASE ConfigLock
    BY <2>10 DEF ConfigLock, Lock, Go
  <2>11. CASE ConfigApplied
    BY <2>11 DEF ConfigApplied, ConfigReturns, Unlock, Go
  <2>12. CASE ConfigNoOp
    BY <2>12 DEF ConfigNoOp, ConfigReturns, Unlock, Go
  <2>13. CASE ConfigHwError
    BY <2>13 DEF ConfigHwError, ConfigReturns, Unlock, Go
  <2>14. CASE SocketsDone
    BY <2>14 DEF SocketsDone, Go
  <2>15. CASE RetrySkip
    BY <2>15 DEF RetrySkip, Go
  <2>16. CASE RetryDue
    BY <2>16 DEF RetryDue, Go
  <2>17. CASE RetryLook
    BY <2>17 DEF RetryLook, Go
  <2>18. CASE RetryTry
    BY <2>18 DEF RetryTry, TryLock, Go
  <2>19. CASE RetryArm
    BY <2>19 DEF RetryArm, Unlock, Go
  <2>20. CASE RetryYields
    BY <2>20 DEF RetryYields, Unlock, Go
  <2>21. CASE RxLook
    BY <2>21 DEF RxLook, Go
  <2>22. CASE RxBusy
    BY <2>22 DEF RxBusy, Go
  <2>23. CASE RxDiscard
    BY <2>23 DEF RxDiscard, DiscardRx, Go
  <2>24. CASE RxLock
    BY <2>24 DEF RxLock, Lock, Go
  <2>25. CASE RxCheck
    BY <2>25 DEF RxCheck, DiscardRx, Unlock, Go
  <2>26. CASE RxRead
    BY <2>26 DEF RxRead, Unlock, Go
  <2>27. CASE WorkerTakesJob
    BY <2>27 DEF WorkerTakesJob, Go
  <2>28. ASSUME NEW t \in Threads, ProbeLock(t) PROVE TxInv'
    BY <2>28 DEF ProbeLock, Lock, Go
  <2>29. ASSUME NEW t \in Threads, ProbeCheck(t) PROVE TxInv'
    BY <2>29 DEF ProbeCheck, ProbeReturns, Unlock, Go, Home
  <2>30. ASSUME NEW t \in Threads, Quiesce(t) PROVE TxInv'
    BY <2>30 DEF Quiesce, Go
  <2>31. ASSUME NEW t \in Threads, QuiesceFails(t) PROVE TxInv'
    BY <2>31 DEF QuiesceFails, ProbeReturns, Unlock, Go, Home
  <2>32. ASSUME NEW t \in Threads, Look(t) PROVE TxInv'
    BY <2>32 DEF Look, PacketSeen, ProbeReturns, Unlock, Go, Home
  <2>33. ASSUME NEW t \in Threads, Detach(t) PROVE TxInv'
    BY <2>33 DEF Detach, ClearPacketReceivedAction, Go
  <2>34. ASSUME NEW t \in Threads, Scan(t) PROVE TxInv'
    BY <2>34 DEF Scan, OtherEdge, Go, ProbeReturns, Unlock, Home
  <2>35. ASSUME NEW t \in Threads, Restore(t) PROVE TxInv'
    BY <2>35 DEF Restore, Go
  <2>36. ASSUME NEW t \in Threads, Arm(t) PROVE TxInv'
    BY <2>36 DEF Arm, Unlock, Go, ProbeReturns, Home
  <2>37. ASSUME NEW t \in Threads, Gate(t) PROVE TxInv'
    BY <2>37 DEF Gate, Go, TxEnds, Home
  <2>38. ASSUME NEW t \in Threads, Reprobe(t) PROVE TxInv'
    BY <2>38 DEF Reprobe, Go
  <2>39. ASSUME NEW t \in Threads, Judge(t) PROVE TxInv'
    BY <2>39 DEF Judge, TxEnds, Go, Home
  <2>40. ASSUME NEW t \in Threads, SendAcquire(t) PROVE TxInv'
    BY <2>40 DEF SendAcquire, Go, TxEnds, Home
  <2>41. ASSUME NEW t \in Threads, SendLock(t) PROVE TxInv'
    BY <2>41 DEF SendLock, Lock, Go
  <2>42. ASSUME NEW t \in Threads, SendPrepare(t) PROVE TxInv'
    BY <2>42 DEF SendPrepare, ClearPacketReceivedAction, Go
  <2>43. ASSUME NEW t \in Threads, SendStandby(t) PROVE TxInv'
    BY <2>43 DEF SendStandby, Go
  <2>44. ASSUME NEW t \in Threads, Transmit(t) PROVE TxInv'
    BY <2>44 DEF Transmit, OtherEdge, Go
  <2>45. ASSUME NEW t \in Threads, SendRelease(t) PROVE TxInv'
    BY <2>45 DEF SendRelease, ReleaseTx, TxEnds, Go, Home
  <2>46. CASE UNCHANGED vars
    BY <2>46 DEF vars
  <2>47. QED
    BY <2>1, <2>2, <2>3, <2>4, <2>5, <2>6, <2>7, <2>8, <2>9, <2>10, <2>11,
       <2>12, <2>13, <2>14, <2>15, <2>16, <2>17, <2>18, <2>19, <2>20, <2>21,
       <2>22, <2>23, <2>24, <2>25, <2>26, <2>27, <2>28, <2>29, <2>30, <2>31,
       <2>32, <2>33, <2>34, <2>35, <2>36, <2>37, <2>38, <2>39, <2>40, <2>41,
       <2>42, <2>43, <2>44, <2>45, <2>46
       DEF Next, Sockets, Tick, Step
<1>3. QED
  BY <1>1, <1>2, FlagsTyped, Control, PTL DEF Spec

\* While a thread scans or transmits, the receiver it stopped stays stopped and
\* the callback it took off stays off: whoever could change that waits.
LEMMA ChipUnderMutex == Spec => [](DetachedInv /\ StoppedInv /\ AlertInv)
<1>1. Init => DetachedInv /\ StoppedInv /\ AlertInv
  BY DEF Init, DetachedInv, StoppedInv, AlertInv, Threads, Labels, Locked,
     SendLabels, ProbeLabels
<1>2. DetachedInv /\ StoppedInv /\ AlertInv /\ FlagTypeOK /\ CtrlTypeOK /\
      MutexInv /\ [Next]_vars
      => DetachedInv' /\ StoppedInv' /\ AlertInv'
  <2> SUFFICES ASSUME DetachedInv, StoppedInv, AlertInv, FlagTypeOK,
                        CtrlTypeOK, MutexInv, [Next]_vars
               PROVE  DetachedInv' /\ StoppedInv' /\ AlertInv'
    OBVIOUS
  <2> USE StartReceiveOutcome DEF DetachedInv, StoppedInv, AlertInv,
          FlagTypeOK, CtrlTypeOK, MutexInv, Threads, Labels, Locked,
          SendLabels, ProbeLabels, chipVars, armVars, jobVars
  <2>1. CASE PacketArrives
    BY <2>1 DEF PacketArrives
  <2>2. CASE Alert
    BY <2>2 DEF Alert
  <2>3. CASE SubmitJob
    BY <2>3 DEF SubmitJob
  <2>4. CASE DirectTx
    BY <2>4 DEF DirectTx, QueueIdle, Go
  <2>5. CASE GetChannel
    BY <2>5 DEF GetChannel, Go
  <2>6. CASE ChannelBusy
    BY <2>6 DEF ChannelBusy, Go
  <2>7. CASE ChannelTry
    BY <2>7 DEF ChannelTry, TryLock, Go
  <2>8. CASE ChannelCheck
    BY <2>8 DEF ChannelCheck, ProbeReturns, Unlock, Go, Home
  <2>9. CASE ConfigStart
    BY <2>9 DEF ConfigStart, QueueIdle, Go
  <2>10. CASE ConfigLock
    BY <2>10 DEF ConfigLock, Lock, Go
  <2>11. CASE ConfigApplied
    BY <2>11 DEF ConfigApplied, ConfigReturns, Unlock, Go
  <2>12. CASE ConfigNoOp
    BY <2>12 DEF ConfigNoOp, ConfigReturns, Unlock, Go
  <2>13. CASE ConfigHwError
    BY <2>13 DEF ConfigHwError, ConfigReturns, Unlock, Go
  <2>14. CASE SocketsDone
    BY <2>14 DEF SocketsDone, Go
  <2>15. CASE RetrySkip
    BY <2>15 DEF RetrySkip, Go
  <2>16. CASE RetryDue
    BY <2>16 DEF RetryDue, Go
  <2>17. CASE RetryLook
    BY <2>17 DEF RetryLook, Go
  <2>18. CASE RetryTry
    BY <2>18 DEF RetryTry, TryLock, Go
  <2>19. CASE RetryArm
    BY <2>19 DEF RetryArm, Unlock, Go
  <2>20. CASE RetryYields
    BY <2>20 DEF RetryYields, Unlock, Go
  <2>21. CASE RxLook
    BY <2>21 DEF RxLook, Go
  <2>22. CASE RxBusy
    BY <2>22 DEF RxBusy, Go
  <2>23. CASE RxDiscard
    BY <2>23 DEF RxDiscard, DiscardRx, Go
  <2>24. CASE RxLock
    BY <2>24 DEF RxLock, Lock, Go
  <2>25. CASE RxCheck
    BY <2>25 DEF RxCheck, DiscardRx, Unlock, Go
  <2>26. CASE RxRead
    BY <2>26 DEF RxRead, Unlock, Go
  <2>27. CASE WorkerTakesJob
    BY <2>27 DEF WorkerTakesJob, Go
  <2>28. ASSUME NEW t \in Threads, ProbeLock(t)
         PROVE  DetachedInv' /\ StoppedInv' /\ AlertInv'
    BY <2>28 DEF ProbeLock, Lock, Go
  <2>29. ASSUME NEW t \in Threads, ProbeCheck(t)
         PROVE  DetachedInv' /\ StoppedInv' /\ AlertInv'
    BY <2>29 DEF ProbeCheck, ProbeReturns, Unlock, Go, Home
  <2>30. ASSUME NEW t \in Threads, Quiesce(t)
         PROVE  DetachedInv' /\ StoppedInv' /\ AlertInv'
    BY <2>30 DEF Quiesce, Go
  <2>31. ASSUME NEW t \in Threads, QuiesceFails(t)
         PROVE  DetachedInv' /\ StoppedInv' /\ AlertInv'
    BY <2>31 DEF QuiesceFails, ProbeReturns, Unlock, Go, Home
  <2>32. ASSUME NEW t \in Threads, Look(t)
         PROVE  DetachedInv' /\ StoppedInv' /\ AlertInv'
    BY <2>32 DEF Look, PacketSeen, ProbeReturns, Unlock, Go, Home
  <2>33. ASSUME NEW t \in Threads, Detach(t)
         PROVE  DetachedInv' /\ StoppedInv' /\ AlertInv'
    BY <2>33 DEF Detach, ClearPacketReceivedAction, Go
  <2>34. ASSUME NEW t \in Threads, Scan(t)
         PROVE  DetachedInv' /\ StoppedInv' /\ AlertInv'
    BY <2>34 DEF Scan, OtherEdge, Go, ProbeReturns, Unlock, Home
  <2>35. ASSUME NEW t \in Threads, Restore(t)
         PROVE  DetachedInv' /\ StoppedInv' /\ AlertInv'
    BY <2>35 DEF Restore, Go
  <2>36. ASSUME NEW t \in Threads, Arm(t)
         PROVE  DetachedInv' /\ StoppedInv' /\ AlertInv'
    BY <2>36 DEF Arm, Unlock, Go, ProbeReturns, Home
  <2>37. ASSUME NEW t \in Threads, Gate(t)
         PROVE  DetachedInv' /\ StoppedInv' /\ AlertInv'
    BY <2>37 DEF Gate, Go, TxEnds, Home
  <2>38. ASSUME NEW t \in Threads, Reprobe(t)
         PROVE  DetachedInv' /\ StoppedInv' /\ AlertInv'
    BY <2>38 DEF Reprobe, Go
  <2>39. ASSUME NEW t \in Threads, Judge(t)
         PROVE  DetachedInv' /\ StoppedInv' /\ AlertInv'
    BY <2>39 DEF Judge, TxEnds, Go, Home
  <2>40. ASSUME NEW t \in Threads, SendAcquire(t)
         PROVE  DetachedInv' /\ StoppedInv' /\ AlertInv'
    BY <2>40 DEF SendAcquire, Go, TxEnds, Home
  <2>41. ASSUME NEW t \in Threads, SendLock(t)
         PROVE  DetachedInv' /\ StoppedInv' /\ AlertInv'
    BY <2>41 DEF SendLock, Lock, Go
  <2>42. ASSUME NEW t \in Threads, SendPrepare(t)
         PROVE  DetachedInv' /\ StoppedInv' /\ AlertInv'
    BY <2>42 DEF SendPrepare, ClearPacketReceivedAction, Go
  <2>43. ASSUME NEW t \in Threads, SendStandby(t)
         PROVE  DetachedInv' /\ StoppedInv' /\ AlertInv'
    BY <2>43 DEF SendStandby, Go
  <2>44. ASSUME NEW t \in Threads, Transmit(t)
         PROVE  DetachedInv' /\ StoppedInv' /\ AlertInv'
    BY <2>44 DEF Transmit, OtherEdge, Go
  <2>45. ASSUME NEW t \in Threads, SendRelease(t)
         PROVE  DetachedInv' /\ StoppedInv' /\ AlertInv'
    BY <2>45 DEF SendRelease, ReleaseTx, TxEnds, Go, Home
  <2>46. CASE UNCHANGED vars
    BY <2>46 DEF vars
  <2>47. QED
    BY <2>1, <2>2, <2>3, <2>4, <2>5, <2>6, <2>7, <2>8, <2>9, <2>10, <2>11,
       <2>12, <2>13, <2>14, <2>15, <2>16, <2>17, <2>18, <2>19, <2>20, <2>21,
       <2>22, <2>23, <2>24, <2>25, <2>26, <2>27, <2>28, <2>29, <2>30, <2>31,
       <2>32, <2>33, <2>34, <2>35, <2>36, <2>37, <2>38, <2>39, <2>40, <2>41,
       <2>42, <2>43, <2>44, <2>45, <2>46
       DEF Next, Sockets, Tick, Step
<1>3. QED
  BY <1>1, <1>2, FlagsTyped, Control, PTL DEF Spec

\* The active CAD probe (radio_cad_probe) never scans, and so never clears the
\* IRQ flags, over a completed packet.
THEOREM ProbeSparesPackets == Spec => []ProbeKeepsPacket
<1>1. StoppedInv => ProbeKeepsPacket
  BY DEF StoppedInv, ProbeKeepsPacket
<1>2. QED
  BY <1>1, ChipUnderMutex, PTL

\* The alert thread never takes CadDone or TxDone, which share DIO0 with
\* RxDone, for a packet.
THEOREM AlertsArePackets == Spec => []OnlyPacketsAlert
<1>1. AlertInv => OnlyPacketsAlert
  BY DEF AlertInv, OnlyPacketsAlert
<1>2. QED
  BY <1>1, ChipUnderMutex, PTL

\* Between the critical sections, whatever keeps the receiver from raising an
\* alert is visible in the latch, the health, `received` or the discard.
LEMMA DeafTold == Spec => []DeafInv
<1>1. Init => DeafInv
  BY DEF Init, DeafInv, Threads, Labels, Locked, SendLabels, ProbeLabels, Told
<1>2. DeafInv /\ FlagTypeOK /\ CtrlTypeOK /\ MutexInv /\ StoppedInv /\
      DetachedInv /\ [Next]_vars
      => DeafInv'
  <2> SUFFICES ASSUME DeafInv, FlagTypeOK, CtrlTypeOK, MutexInv, StoppedInv,
                        DetachedInv, [Next]_vars
               PROVE  DeafInv'
    OBVIOUS
  <2> USE StartReceiveOutcome DEF DeafInv, FlagTypeOK, CtrlTypeOK, MutexInv,
          StoppedInv, DetachedInv, Threads, Labels, Locked, SendLabels,
          ProbeLabels, Told, chipVars, armVars, jobVars
  <2>1. CASE PacketArrives
    BY <2>1 DEF PacketArrives
  <2>2. CASE Alert
    BY <2>2 DEF Alert
  <2>3. CASE SubmitJob
    BY <2>3 DEF SubmitJob
  <2>4. CASE DirectTx
    BY <2>4 DEF DirectTx, QueueIdle, Go
  <2>5. CASE GetChannel
    BY <2>5 DEF GetChannel, Go
  <2>6. CASE ChannelBusy
    BY <2>6 DEF ChannelBusy, Go
  <2>7. CASE ChannelTry
    BY <2>7 DEF ChannelTry, TryLock, Go
  <2>8. CASE ChannelCheck
    BY <2>8 DEF ChannelCheck, ProbeReturns, Unlock, Go, Home
  <2>9. CASE ConfigStart
    BY <2>9 DEF ConfigStart, QueueIdle, Go
  <2>10. CASE ConfigLock
    BY <2>10 DEF ConfigLock, Lock, Go
  <2>11. CASE ConfigApplied
    BY <2>11 DEF ConfigApplied, ConfigReturns, Unlock, Go
  <2>12. CASE ConfigNoOp
    BY <2>12 DEF ConfigNoOp, ConfigReturns, Unlock, Go
  <2>13. CASE ConfigHwError
    BY <2>13 DEF ConfigHwError, ConfigReturns, Unlock, Go
  <2>14. CASE SocketsDone
    BY <2>14 DEF SocketsDone, Go
  <2>15. CASE RetrySkip
    BY <2>15 DEF RetrySkip, Go
  <2>16. CASE RetryDue
    BY <2>16 DEF RetryDue, Go
  <2>17. CASE RetryLook
    BY <2>17 DEF RetryLook, Go
  <2>18. CASE RetryTry
    BY <2>18 DEF RetryTry, TryLock, Go
  <2>19. CASE RetryArm
    BY <2>19 DEF RetryArm, Unlock, Go
  <2>20. CASE RetryYields
    BY <2>20 DEF RetryYields, Unlock, Go
  <2>21. CASE RxLook
    BY <2>21 DEF RxLook, Go
  <2>22. CASE RxBusy
    BY <2>22 DEF RxBusy, Go
  <2>23. CASE RxDiscard
    BY <2>23 DEF RxDiscard, DiscardRx, Go
  <2>24. CASE RxLock
    BY <2>24 DEF RxLock, Lock, Go
  <2>25. CASE RxCheck
    BY <2>25 DEF RxCheck, DiscardRx, Unlock, Go
  <2>26. CASE RxRead
    BY <2>26 DEF RxRead, Unlock, Go
  <2>27. CASE WorkerTakesJob
    BY <2>27 DEF WorkerTakesJob, Go
  <2>28. ASSUME NEW t \in Threads, ProbeLock(t) PROVE DeafInv'
    BY <2>28 DEF ProbeLock, Lock, Go
  <2>29. ASSUME NEW t \in Threads, ProbeCheck(t) PROVE DeafInv'
    BY <2>29 DEF ProbeCheck, ProbeReturns, Unlock, Go, Home
  <2>30. ASSUME NEW t \in Threads, Quiesce(t) PROVE DeafInv'
    BY <2>30 DEF Quiesce, Go
  <2>31. ASSUME NEW t \in Threads, QuiesceFails(t) PROVE DeafInv'
    BY <2>31 DEF QuiesceFails, ProbeReturns, Unlock, Go, Home
  <2>32. ASSUME NEW t \in Threads, Look(t) PROVE DeafInv'
    BY <2>32 DEF Look, PacketSeen, ProbeReturns, Unlock, Go, Home
  <2>33. ASSUME NEW t \in Threads, Detach(t) PROVE DeafInv'
    BY <2>33 DEF Detach, ClearPacketReceivedAction, Go
  <2>34. ASSUME NEW t \in Threads, Scan(t) PROVE DeafInv'
    BY <2>34 DEF Scan, OtherEdge, Go, ProbeReturns, Unlock, Home
  <2>35. ASSUME NEW t \in Threads, Restore(t) PROVE DeafInv'
    BY <2>35 DEF Restore, Go
  <2>36. ASSUME NEW t \in Threads, Arm(t) PROVE DeafInv'
    BY <2>36 DEF Arm, Unlock, Go, ProbeReturns, Home
  <2>37. ASSUME NEW t \in Threads, Gate(t) PROVE DeafInv'
    BY <2>37 DEF Gate, Go, TxEnds, Home
  <2>38. ASSUME NEW t \in Threads, Reprobe(t) PROVE DeafInv'
    BY <2>38 DEF Reprobe, Go
  <2>39. ASSUME NEW t \in Threads, Judge(t) PROVE DeafInv'
    BY <2>39 DEF Judge, TxEnds, Go, Home
  <2>40. ASSUME NEW t \in Threads, SendAcquire(t) PROVE DeafInv'
    BY <2>40 DEF SendAcquire, Go, TxEnds, Home
  <2>41. ASSUME NEW t \in Threads, SendLock(t) PROVE DeafInv'
    BY <2>41 DEF SendLock, Lock, Go
  <2>42. ASSUME NEW t \in Threads, SendPrepare(t) PROVE DeafInv'
    BY <2>42 DEF SendPrepare, ClearPacketReceivedAction, Go
  <2>43. ASSUME NEW t \in Threads, SendStandby(t) PROVE DeafInv'
    BY <2>43 DEF SendStandby, Go
  <2>44. ASSUME NEW t \in Threads, Transmit(t) PROVE DeafInv'
    BY <2>44 DEF Transmit, OtherEdge, Go
  <2>45. ASSUME NEW t \in Threads, SendRelease(t) PROVE DeafInv'
    BY <2>45 DEF SendRelease, ReleaseTx, TxEnds, Go, Home
  <2>46. CASE UNCHANGED vars
    BY <2>46 DEF vars
  <2>47. QED
    BY <2>1, <2>2, <2>3, <2>4, <2>5, <2>6, <2>7, <2>8, <2>9, <2>10, <2>11,
       <2>12, <2>13, <2>14, <2>15, <2>16, <2>17, <2>18, <2>19, <2>20, <2>21,
       <2>22, <2>23, <2>24, <2>25, <2>26, <2>27, <2>28, <2>29, <2>30, <2>31,
       <2>32, <2>33, <2>34, <2>35, <2>36, <2>37, <2>38, <2>39, <2>40, <2>41,
       <2>42, <2>43, <2>44, <2>45, <2>46
       DEF Next, Sockets, Tick, Step
<1>3. QED
  BY <1>1, <1>2, FlagsTyped, Control, ChipUnderMutex, PTL DEF Spec

\* No failed re-arm, abandoned probe, TX, drain or CONFIG command leaves a
\* radio that reads READY and RXREADY=1 but can no longer hear, except after a
\* packet was discarded during a TX.
THEOREM DeafnessIsTold == Spec => []DeafOnlyAfterDiscard
<1>1. CtrlTypeOK /\ MutexInv /\ DeafInv => DeafOnlyAfterDiscard
  BY DEF CtrlTypeOK, MutexInv, DeafInv, Told, DeafOnlyAfterDiscard, Deaf,
     Threads, Locked
<1>2. QED
  BY <1>1, Control, DeafTold, PTL

\* A radio that is still ready has failed less often in a row than the limit;
\* one that is not can be failed once more by the thread that was already past
\* its readiness check.
LEMMA CountBounded == Spec => []CountInv
<1>1. Init => CountInv
  BY LimitAssumption DEF Init, CountInv, Threads, Labels, Locked, SendLabels,
     ProbeLabels, ToCome, Committed
<1>2. CountInv /\ FlagTypeOK /\ CtrlTypeOK /\ MutexInv /\ [Next]_vars
      => CountInv'
  <2> SUFFICES ASSUME CountInv, FlagTypeOK, CtrlTypeOK, MutexInv, [Next]_vars
               PROVE  CountInv'
    OBVIOUS
  <2> USE StartReceiveOutcome, LimitAssumption DEF CountInv, FlagTypeOK,
          CtrlTypeOK, MutexInv, Threads, Labels, Locked, SendLabels,
          ProbeLabels, ToCome, Committed, chipVars, armVars, jobVars
  <2>1. CASE PacketArrives
    BY <2>1 DEF PacketArrives
  <2>2. CASE Alert
    BY <2>2 DEF Alert
  <2>3. CASE SubmitJob
    BY <2>3 DEF SubmitJob
  <2>4. CASE DirectTx
    BY <2>4 DEF DirectTx, QueueIdle, Go
  <2>5. CASE GetChannel
    BY <2>5 DEF GetChannel, Go
  <2>6. CASE ChannelBusy
    BY <2>6 DEF ChannelBusy, Go
  <2>7. CASE ChannelTry
    BY <2>7 DEF ChannelTry, TryLock, Go
  <2>8. CASE ChannelCheck
    BY <2>8 DEF ChannelCheck, ProbeReturns, Unlock, Go, Home
  <2>9. CASE ConfigStart
    BY <2>9 DEF ConfigStart, QueueIdle, Go
  <2>10. CASE ConfigLock
    BY <2>10 DEF ConfigLock, Lock, Go
  <2>11. CASE ConfigApplied
    BY <2>11 DEF ConfigApplied, ConfigReturns, Unlock, Go
  <2>12. CASE ConfigNoOp
    BY <2>12 DEF ConfigNoOp, ConfigReturns, Unlock, Go
  <2>13. CASE ConfigHwError
    BY <2>13 DEF ConfigHwError, ConfigReturns, Unlock, Go
  <2>14. CASE SocketsDone
    BY <2>14 DEF SocketsDone, Go
  <2>15. CASE RetrySkip
    BY <2>15 DEF RetrySkip, Go
  <2>16. CASE RetryDue
    BY <2>16 DEF RetryDue, Go
  <2>17. CASE RetryLook
    BY <2>17 DEF RetryLook, Go
  <2>18. CASE RetryTry
    BY <2>18 DEF RetryTry, TryLock, Go
  <2>19. CASE RetryArm
    BY <2>19 DEF RetryArm, Unlock, Go
  <2>20. CASE RetryYields
    BY <2>20 DEF RetryYields, Unlock, Go
  <2>21. CASE RxLook
    BY <2>21 DEF RxLook, Go
  <2>22. CASE RxBusy
    BY <2>22 DEF RxBusy, Go
  <2>23. CASE RxDiscard
    BY <2>23 DEF RxDiscard, DiscardRx, Go
  <2>24. CASE RxLock
    BY <2>24 DEF RxLock, Lock, Go
  <2>25. CASE RxCheck
    BY <2>25 DEF RxCheck, DiscardRx, Unlock, Go
  <2>26. CASE RxRead
    BY <2>26 DEF RxRead, Unlock, Go
  <2>27. CASE WorkerTakesJob
    BY <2>27 DEF WorkerTakesJob, Go
  <2>28. ASSUME NEW t \in Threads, ProbeLock(t) PROVE CountInv'
    BY <2>28 DEF ProbeLock, Lock, Go
  <2>29. ASSUME NEW t \in Threads, ProbeCheck(t) PROVE CountInv'
    BY <2>29 DEF ProbeCheck, ProbeReturns, Unlock, Go, Home
  <2>30. ASSUME NEW t \in Threads, Quiesce(t) PROVE CountInv'
    BY <2>30 DEF Quiesce, Go
  <2>31. ASSUME NEW t \in Threads, QuiesceFails(t) PROVE CountInv'
    BY <2>31 DEF QuiesceFails, ProbeReturns, Unlock, Go, Home
  <2>32. ASSUME NEW t \in Threads, Look(t) PROVE CountInv'
    BY <2>32 DEF Look, PacketSeen, ProbeReturns, Unlock, Go, Home
  <2>33. ASSUME NEW t \in Threads, Detach(t) PROVE CountInv'
    BY <2>33 DEF Detach, ClearPacketReceivedAction, Go
  <2>34. ASSUME NEW t \in Threads, Scan(t) PROVE CountInv'
    BY <2>34 DEF Scan, OtherEdge, Go, ProbeReturns, Unlock, Home
  <2>35. ASSUME NEW t \in Threads, Restore(t) PROVE CountInv'
    BY <2>35 DEF Restore, Go
  <2>36. ASSUME NEW t \in Threads, Arm(t) PROVE CountInv'
    BY <2>36 DEF Arm, Unlock, Go, ProbeReturns, Home
  <2>37. ASSUME NEW t \in Threads, Gate(t) PROVE CountInv'
    BY <2>37 DEF Gate, Go, TxEnds, Home
  <2>38. ASSUME NEW t \in Threads, Reprobe(t) PROVE CountInv'
    BY <2>38 DEF Reprobe, Go
  <2>39. ASSUME NEW t \in Threads, Judge(t) PROVE CountInv'
    BY <2>39 DEF Judge, TxEnds, Go, Home
  <2>40. ASSUME NEW t \in Threads, SendAcquire(t) PROVE CountInv'
    BY <2>40 DEF SendAcquire, Go, TxEnds, Home
  <2>41. ASSUME NEW t \in Threads, SendLock(t) PROVE CountInv'
    BY <2>41 DEF SendLock, Lock, Go
  <2>42. ASSUME NEW t \in Threads, SendPrepare(t) PROVE CountInv'
    BY <2>42 DEF SendPrepare, ClearPacketReceivedAction, Go
  <2>43. ASSUME NEW t \in Threads, SendStandby(t) PROVE CountInv'
    BY <2>43 DEF SendStandby, Go
  <2>44. ASSUME NEW t \in Threads, Transmit(t) PROVE CountInv'
    BY <2>44 DEF Transmit, OtherEdge, Go
  <2>45. ASSUME NEW t \in Threads, SendRelease(t) PROVE CountInv'
    BY <2>45 DEF SendRelease, ReleaseTx, TxEnds, Go, Home
  <2>46. CASE UNCHANGED vars
    BY <2>46 DEF vars
  <2>47. QED
    BY <2>1, <2>2, <2>3, <2>4, <2>5, <2>6, <2>7, <2>8, <2>9, <2>10, <2>11,
       <2>12, <2>13, <2>14, <2>15, <2>16, <2>17, <2>18, <2>19, <2>20, <2>21,
       <2>22, <2>23, <2>24, <2>25, <2>26, <2>27, <2>28, <2>29, <2>30, <2>31,
       <2>32, <2>33, <2>34, <2>35, <2>36, <2>37, <2>38, <2>39, <2>40, <2>41,
       <2>42, <2>43, <2>44, <2>45, <2>46
       DEF Next, Sockets, Tick, Step
<1>3. QED
  BY <1>1, <1>2, FlagsTyped, Control, PTL DEF Spec

\* Every variable stays in its range, the consecutive re-arm failures within
\* one of DAEMON_RX_REARM_FAIL_LIMIT.
THEOREM TypeCorrect == Spec => []TypeOK
<1>1. FlagTypeOK /\ CtrlTypeOK /\ CountInv => TypeOK
  BY LimitAssumption DEF FlagTypeOK, CtrlTypeOK, CountInv, ToCome, TypeOK
<1>2. QED
  BY <1>1, FlagsTyped, Control, CountBounded, PTL

==============================================================================
