--------------------------- MODULE TxWorkerProofs ---------------------------
(***************************************************************************)
(* Proofs about TxWorker, for queues of any capacity, any set of RF        *)
(* configurations and any number of jobs, and about CadWait, for any       *)
(* accepted CAD policies.                                                  *)
(***************************************************************************)
EXTENDS TxWorker, CadWait, TLAPS

\* Where the main thread is handling DATA chunks.
InData ==
    \/ mpc \in {"chunk", "start", "submit", "notify", "transmit"}
    \/ mpc \in {"pending", "active", "perform"} /\ op \in Data

\* A read being handed over has chunks left.
ChunksInv == InData => op \in Data /\ chunks # 0

\* The Boolean variables stay Boolean.
LEMMA FlagsTyped == Spec => []FlagTypeOK
<1>1. Init => FlagTypeOK
  BY DEF Init, FlagTypeOK
<1>2. FlagTypeOK /\ [Next]_vars => FlagTypeOK'
  <2> SUFFICES ASSUME FlagTypeOK, [Next]_vars
               PROVE  FlagTypeOK'
    OBVIOUS
  <2> USE DEF FlagTypeOK, queueVars, threadVars, resultVars, workerVars,
              radioVars
  <2>1. CASE RawRead
    BY <2>1, Zenon DEF RawRead, ReadBudget
  <2>2. CASE FramedPacket
    BY <2>2, Zenon DEF FramedPacket
  <2>3. CASE SetTxQueueOn
    BY <2>3, Zenon DEF SetTxQueueOn
  <2>4. CASE SetTxQueueOff
    BY <2>4, Zenon DEF SetTxQueueOff
  <2>5. CASE SetRfConfig
    BY <2>5, Zenon DEF SetRfConfig
  <2>6. CASE BeginDrain
    BY <2>6, Zenon DEF BeginDrain
  <2>7. CASE StopRequest
    BY <2>7, Zenon DEF StopRequest, DiscardAll
  <2>8. CASE ChunkRefused
    BY <2>8, Zenon DEF ChunkRefused, ChunkFailed
  <2>9. CASE ChunkRoute
    BY <2>9, Zenon DEF ChunkRoute
  <2>10. CASE StartIsNoOp
    BY <2>10, Zenon DEF StartIsNoOp
  <2>11. CASE StartThread
    BY <2>11, Zenon DEF StartThread
  <2>12. CASE StartThrows
    BY <2>12, Zenon DEF StartThrows, ChunkFailed
  <2>13. CASE Submit
    BY <2>13, Zenon DEF Submit, ChunkFailed, QueueFull
  <2>14. CASE Notify
    BY <2>14, Zenon DEF Notify, Wake, ChunkDone
  <2>15. CASE ReadPending
    BY <2>15, Zenon DEF ReadPending, SeesPending, GateRefuses, ChunkFailed
  <2>16. CASE ReadActive
    BY <2>16, Zenon DEF ReadActive, SeesActive, GateRefuses, ChunkFailed
  <2>17. CASE TxQueueOff
    BY <2>17, Zenon DEF TxQueueOff
  <2>18. CASE ApplyRfConfig
    BY <2>18, Zenon DEF ApplyRfConfig
  <2>19. CASE DirectAbort
    BY <2>19, Zenon DEF DirectAbort, ChunkFailed
  <2>20. CASE DirectTransmit
    BY <2>20, Zenon DEF DirectTransmit
  <2>21. CASE DirectTransmitDone
    BY <2>21, Zenon DEF DirectTransmitDone, ChunkDone, ChunkFailed
  <2>22. CASE DrainCompletion
    BY <2>22, Zenon DEF DrainCompletion
  <2>23. CASE NotifyAll
    BY <2>23, Zenon DEF NotifyAll, Wake
  <2>24. CASE Join
    BY <2>24, Zenon DEF Join
  <2>25. CASE Reinit
    BY <2>25, Zenon DEF Reinit
  <2>26. CASE WorkerWait
    BY <2>26, Zenon DEF WorkerWait
  <2>27. CASE WorkerExit
    BY <2>27, Zenon DEF WorkerExit, MayExit
  <2>28. CASE WorkerPop
    BY <2>28, Zenon DEF WorkerPop, RaiseActive
  <2>29. CASE WorkerAbort
    BY <2>29, Zenon DEF WorkerAbort, MayAbort
  <2>30. CASE WorkerTransmit
    BY <2>30, Zenon DEF WorkerTransmit
  <2>31. CASE WorkerTransmitDone
    BY <2>31, Zenon DEF WorkerTransmitDone
  <2>32. CASE WorkerFinish
    BY <2>32, Zenon DEF WorkerFinish
  <2>33. CASE WorkerRecord
    BY <2>33, Zenon DEF WorkerRecord, PushCompletion
  <2>34. CASE SpuriousWakeup
    BY <2>34, Zenon DEF SpuriousWakeup
  <2>35. CASE Exited
    BY <2>35, Zenon DEF Exited, vars
  <2>36. CASE UNCHANGED vars
    BY <2>36, Zenon DEF vars
  <2>37. QED
    BY <2>1, <2>2, <2>3, <2>4, <2>5, <2>6, <2>7, <2>8, <2>9, <2>10,
       <2>11, <2>12, <2>13, <2>14, <2>15, <2>16, <2>17, <2>18, <2>19,
       <2>20, <2>21, <2>22, <2>23, <2>24, <2>25, <2>26, <2>27, <2>28,
       <2>29, <2>30, <2>31, <2>32, <2>33, <2>34, <2>35, <2>36 DEF Next,
       Request, MainStep, WorkerStep
<1>3. QED
  BY <1>1, <1>2, PTL DEF Spec

\* The other variables stay in their ranges, the queues within their bounds.
LEMMA DataTyped == Spec => [](DataTypeOK /\ ChunksInv)
<1> USE CapacityAssumption, ConfigAssumption
<1>1. NoJob \in Job
  BY DEF NoJob, Job
<1>2. Init => DataTypeOK /\ ChunksInv
  BY <1>1 DEF Init, DataTypeOK, ChunksInv, InData
<1>3. DataTypeOK /\ ChunksInv /\ [Next]_vars => DataTypeOK' /\ ChunksInv'
  <2> SUFFICES ASSUME DataTypeOK, ChunksInv, [Next]_vars
               PROVE  DataTypeOK' /\ ChunksInv'
    OBVIOUS
  <2>0. [id |-> accepted + 1, rf |-> rf] \in Job
    BY DEF DataTypeOK, Job
  <2> USE DEF DataTypeOK, ChunksInv, InData, queueVars, threadVars,
              resultVars, workerVars, radioVars, Holding, Executing, Data
  <2>1. CASE RawRead
    BY <2>1 DEF RawRead, ReadBudget
  <2>2. CASE FramedPacket
    BY <2>2 DEF FramedPacket
  <2>3. CASE SetTxQueueOn
    BY <2>3 DEF SetTxQueueOn
  <2>4. CASE SetTxQueueOff
    BY <2>4 DEF SetTxQueueOff
  <2>5. CASE SetRfConfig
    BY <2>5 DEF SetRfConfig
  <2>6. CASE BeginDrain
    BY <2>6 DEF BeginDrain
  <2>7. CASE StopRequest
    BY <2>7 DEF StopRequest, DiscardAll
  <2>8. CASE ChunkRefused
    BY <2>8 DEF ChunkRefused, ChunkFailed
  <2>9. CASE ChunkRoute
    BY <2>9 DEF ChunkRoute
  <2>10. CASE StartIsNoOp
    BY <2>10 DEF StartIsNoOp
  <2>11. CASE StartThread
    BY <2>11 DEF StartThread
  <2>12. CASE StartThrows
    BY <2>12 DEF StartThrows, ChunkFailed
  <2>13. CASE Submit
    <3>1. CASE stop_requested \/ QueueFull
      BY <2>13, <3>1 DEF Submit, ChunkFailed
    <3>2. CASE ~(stop_requested \/ QueueFull)
      BY <2>13, <3>2, <2>0 DEF Submit, QueueFull
    <3>3. QED
      BY <3>1, <3>2
  <2>14. CASE Notify
    BY <2>14 DEF Notify, Wake, ChunkDone
  <2>15. CASE ReadPending
    BY <2>15 DEF ReadPending, SeesPending, GateRefuses, ChunkFailed
  <2>16. CASE ReadActive
    BY <2>16 DEF ReadActive, SeesActive, GateRefuses, ChunkFailed
  <2>17. CASE TxQueueOff
    BY <2>17 DEF TxQueueOff
  <2>18. CASE ApplyRfConfig
    BY <2>18 DEF ApplyRfConfig
  <2>19. CASE DirectAbort
    BY <2>19 DEF DirectAbort, ChunkFailed
  <2>20. CASE DirectTransmit
    BY <2>20 DEF DirectTransmit
  <2>21. CASE DirectTransmitDone
    BY <2>21 DEF DirectTransmitDone, ChunkDone, ChunkFailed
  <2>22. CASE DrainCompletion
    BY <2>22 DEF DrainCompletion
  <2>23. CASE NotifyAll
    BY <2>23 DEF NotifyAll, Wake
  <2>24. CASE Join
    BY <2>24 DEF Join
  <2>25. CASE Reinit
    BY <2>25 DEF Reinit
  <2>26. CASE WorkerWait
    BY <2>26 DEF WorkerWait
  <2>27. CASE WorkerExit
    BY <2>27 DEF WorkerExit, MayExit
  <2>28. CASE WorkerPop
    BY <2>28 DEF WorkerPop, RaiseActive
  <2>29. CASE WorkerAbort
    BY <2>29 DEF WorkerAbort, MayAbort
  <2>30. CASE WorkerTransmit
    BY <2>30 DEF WorkerTransmit
  <2>31. CASE WorkerTransmitDone
    BY <2>31 DEF WorkerTransmitDone
  <2>32. CASE WorkerFinish
    BY <2>32 DEF WorkerFinish
  <2>33. CASE WorkerRecord
    BY <2>33, <1>1 DEF WorkerRecord, PushCompletion
  <2>34. CASE SpuriousWakeup
    BY <2>34 DEF SpuriousWakeup
  <2>35. CASE Exited
    BY <2>35 DEF Exited, vars
  <2>36. CASE UNCHANGED vars
    BY <2>36 DEF vars
  <2>37. QED
    BY <2>1, <2>2, <2>3, <2>4, <2>5, <2>6, <2>7, <2>8, <2>9, <2>10,
       <2>11, <2>12, <2>13, <2>14, <2>15, <2>16, <2>17, <2>18, <2>19,
       <2>20, <2>21, <2>22, <2>23, <2>24, <2>25, <2>26, <2>27, <2>28,
       <2>29, <2>30, <2>31, <2>32, <2>33, <2>34, <2>35, <2>36 DEF Next,
       Request, MainStep, WorkerStep
<1>4. QED
  BY <1>2, <1>3, PTL DEF Spec

\* Every variable stays in its range and the queues within their capacities.
THEOREM TypeCorrect == Spec => []TypeOK
BY FlagsTyped, DataTyped, PTL DEF TypeOK

-----------------------------------------------------------------------------
(* The life of the worker thread.                                          *)

ThreadInv ==
    /\ running <=> wpc \notin {"none", "exited"}
    /\ stop_requested => /\ mpc \in {"notify_all", "join", "reinit"}
                         /\ queue = <<>>
    /\ wpc = "exited" => stop_requested
    /\ mpc \in {"reinit", "exited"} => wpc = "none"
    /\ dropped # 0 => mpc \in {"notify_all", "join", "reinit"}

\* ThreadInv ties `running` and the discard count to where the two threads
\* are.
LEMMA ThreadLife == Spec => []ThreadInv
<1>1. Init => ThreadInv
  BY DEF Init, ThreadInv
<1>2. DataTypeOK /\ ThreadInv /\ [Next]_vars => ThreadInv'
  <2> SUFFICES ASSUME DataTypeOK, ThreadInv, [Next]_vars
               PROVE  ThreadInv'
    OBVIOUS
  <2> USE DEF DataTypeOK, ThreadInv, queueVars, threadVars, resultVars,
              workerVars, radioVars, Holding, Executing
  <2>1. CASE RawRead
    BY <2>1 DEF RawRead, ReadBudget
  <2>2. CASE FramedPacket
    BY <2>2 DEF FramedPacket
  <2>3. CASE SetTxQueueOn
    BY <2>3 DEF SetTxQueueOn
  <2>4. CASE SetTxQueueOff
    BY <2>4 DEF SetTxQueueOff
  <2>5. CASE SetRfConfig
    BY <2>5 DEF SetRfConfig
  <2>6. CASE BeginDrain
    BY <2>6 DEF BeginDrain
  <2>7. CASE StopRequest
    BY <2>7 DEF StopRequest, DiscardAll
  <2>8. CASE ChunkRefused
    BY <2>8 DEF ChunkRefused, ChunkFailed
  <2>9. CASE ChunkRoute
    BY <2>9 DEF ChunkRoute
  <2>10. CASE StartIsNoOp
    BY <2>10 DEF StartIsNoOp
  <2>11. CASE StartThread
    BY <2>11 DEF StartThread
  <2>12. CASE StartThrows
    BY <2>12 DEF StartThrows, ChunkFailed
  <2>13. CASE Submit
    BY <2>13 DEF Submit, ChunkFailed, QueueFull
  <2>14. CASE Notify
    BY <2>14 DEF Notify, Wake, ChunkDone
  <2>15. CASE ReadPending
    BY <2>15 DEF ReadPending, SeesPending, GateRefuses, ChunkFailed
  <2>16. CASE ReadActive
    BY <2>16 DEF ReadActive, SeesActive, GateRefuses, ChunkFailed
  <2>17. CASE TxQueueOff
    BY <2>17 DEF TxQueueOff
  <2>18. CASE ApplyRfConfig
    BY <2>18 DEF ApplyRfConfig
  <2>19. CASE DirectAbort
    BY <2>19 DEF DirectAbort, ChunkFailed
  <2>20. CASE DirectTransmit
    BY <2>20 DEF DirectTransmit
  <2>21. CASE DirectTransmitDone
    BY <2>21 DEF DirectTransmitDone, ChunkDone, ChunkFailed
  <2>22. CASE DrainCompletion
    BY <2>22 DEF DrainCompletion
  <2>23. CASE NotifyAll
    BY <2>23 DEF NotifyAll, Wake
  <2>24. CASE Join
    BY <2>24 DEF Join
  <2>25. CASE Reinit
    BY <2>25 DEF Reinit
  <2>26. CASE WorkerWait
    BY <2>26 DEF WorkerWait
  <2>27. CASE WorkerExit
    BY <2>27 DEF WorkerExit, MayExit
  <2>28. CASE WorkerPop
    BY <2>28 DEF WorkerPop, RaiseActive
  <2>29. CASE WorkerAbort
    BY <2>29 DEF WorkerAbort, MayAbort
  <2>30. CASE WorkerTransmit
    BY <2>30 DEF WorkerTransmit
  <2>31. CASE WorkerTransmitDone
    BY <2>31 DEF WorkerTransmitDone
  <2>32. CASE WorkerFinish
    BY <2>32 DEF WorkerFinish
  <2>33. CASE WorkerRecord
    BY <2>33 DEF WorkerRecord, PushCompletion
  <2>34. CASE SpuriousWakeup
    BY <2>34 DEF SpuriousWakeup
  <2>35. CASE Exited
    BY <2>35 DEF Exited, vars
  <2>36. CASE UNCHANGED vars
    BY <2>36 DEF vars
  <2>37. QED
    BY <2>1, <2>2, <2>3, <2>4, <2>5, <2>6, <2>7, <2>8, <2>9, <2>10,
       <2>11, <2>12, <2>13, <2>14, <2>15, <2>16, <2>17, <2>18, <2>19,
       <2>20, <2>21, <2>22, <2>23, <2>24, <2>25, <2>26, <2>27, <2>28,
       <2>29, <2>30, <2>31, <2>32, <2>33, <2>34, <2>35, <2>36 DEF Next,
       Request, MainStep, WorkerStep
<1>3. QED
  BY <1>1, <1>2, DataTyped, PTL DEF Spec

\* StartFindsNoThread for every instance: a std::thread that is still
\* joinable is never overwritten.
THEOREM ThreadNeverOverwritten == Spec => []StartFindsNoThread
<1>1. ThreadInv => StartFindsNoThread
  BY DEF ThreadInv, StartFindsNoThread
<1>2. QED
  BY <1>1, ThreadLife, PTL

\* StopBeginsNoJob for every instance: the stop request empties the queue
\* in the same critical section, and nothing is submitted after it.
THEOREM StopIsFinal == Spec => StopBeginsNoJob
<1>1. ThreadInv /\ [Next]_vars
        => [stop_requested => (wpc' = "cad" => wpc = "cad")]_vars
  <2> SUFFICES ASSUME ThreadInv, Next, stop_requested, wpc' = "cad"
               PROVE  wpc = "cad"
    OBVIOUS
  <2>1. mpc \in {"notify_all", "join", "reinit"} /\ queue = <<>>
    BY DEF ThreadInv
  <2>2. CASE Request
    BY <2>1, <2>2 DEF Request, RawRead, FramedPacket, SetTxQueueOn,
       SetTxQueueOff, SetRfConfig, BeginDrain, StopRequest
  <2>3. CASE MainStep
    BY <2>1, <2>3 DEF MainStep, ChunkRefused, ChunkRoute, StartIsNoOp,
       StartThread, StartThrows, Submit, Notify, ReadPending, ReadActive, TxQueueOff, ApplyRfConfig,
       DirectAbort, DirectTransmit, DirectTransmitDone, DrainCompletion,
       NotifyAll, Wake, Join, Reinit, workerVars
  <2>4. CASE WorkerStep
    BY <2>1, <2>4 DEF WorkerStep, WorkerWait, WorkerExit, WorkerPop,
       WorkerAbort, WorkerTransmit, WorkerTransmitDone, WorkerFinish,
       WorkerRecord
  <2>5. CASE SpuriousWakeup \/ Exited
    BY <2>1, <2>5 DEF SpuriousWakeup, Exited
  <2>6. QED
    BY <2>2, <2>3, <2>4, <2>5 DEF Next
<1>2. QED
  BY <1>1, ThreadLife, PTL DEF Spec, StopBeginsNoJob

-----------------------------------------------------------------------------
(* The coordination of the two threads.  job_active mirrors the worker's   *)
(* position, so a main thread that has read an empty queue keeps finding   *)
(* it empty (only it can fill it), and one that then reads job_active      *)
(* false has found the worker idle for as long as it adds nothing.         *)

GateInv ==
    /\ job_active <=> wpc \in Executing
    /\ mpc \in {"start", "submit", "notify"} => tx_queue_active
    /\ (InData /\ mpc \in {"pending", "active", "perform", "transmit"})
          => ~tx_queue_active
    /\ mpc \in {"active", "perform"} => queue = <<>>
    /\ mpc = "perform" => wpc \notin Executing

\* The inductive invariant of the queue gate.
CoordInv == GateInv /\ QueueOffIsDrained /\ AcceptedJobKeepsRfConfig

\* The queue gate holds its invariant: job_active mirrors the worker, and an
\* operation past the gate has an empty queue and an idle worker.
LEMMA Coordination == Spec => []CoordInv
<1>1. Init => CoordInv
  BY DEF Init, CoordInv, GateInv, QueueOffIsDrained, InData, Executing,
         AcceptedJobKeepsRfConfig
<1>2. DataTypeOK /\ ThreadInv /\ CoordInv /\ [Next]_vars => CoordInv'
  <2> SUFFICES ASSUME DataTypeOK, ThreadInv, CoordInv, [Next]_vars
               PROVE  CoordInv'
    OBVIOUS
  <2> USE DEF DataTypeOK, CoordInv, GateInv, QueueOffIsDrained, InData,
              AcceptedJobKeepsRfConfig, queueVars, threadVars, resultVars,
              workerVars, radioVars, Holding, Executing, Data
  <2>1. CASE RawRead
    BY <2>1 DEF RawRead, ReadBudget
  <2>2. CASE FramedPacket
    BY <2>2 DEF FramedPacket
  <2>3. CASE SetTxQueueOn
    BY <2>3 DEF SetTxQueueOn
  <2>4. CASE SetTxQueueOff
    BY <2>4 DEF SetTxQueueOff
  <2>5. CASE SetRfConfig
    BY <2>5 DEF SetRfConfig
  <2>6. CASE BeginDrain
    BY <2>6 DEF BeginDrain
  <2>7. CASE StopRequest
    BY <2>7 DEF StopRequest, DiscardAll
  <2>8. CASE ChunkRefused
    BY <2>8 DEF ChunkRefused, ChunkFailed
  <2>9. CASE ChunkRoute
    BY <2>9 DEF ChunkRoute
  <2>10. CASE StartIsNoOp
    BY <2>10 DEF StartIsNoOp
  <2>11. CASE StartThread
    <3>1. wpc \notin Executing
      BY <2>11 DEF StartThread, ThreadInv
    <3>2. QED
      BY <2>11, <3>1 DEF StartThread
  <2>12. CASE StartThrows
    BY <2>12 DEF StartThrows, ChunkFailed
  <2>13. CASE Submit
    <3>1. CASE stop_requested \/ QueueFull
      BY <2>13, <3>1 DEF Submit, ChunkFailed
    <3>2. CASE ~(stop_requested \/ QueueFull)
      <4>1. queue' = Append(queue, [id |-> accepted + 1, rf |-> rf])
        BY <2>13, <3>2 DEF Submit
      <4>2. mpc = "submit" /\ mpc' = "notify"
        BY <2>13, <3>2 DEF Submit
      <4>3. UNCHANGED <<rf, wpc, wjob, job_active, tx_queue_active>>
        BY <2>13 DEF Submit
      <4>4. \A i \in DOMAIN queue' : queue'[i].rf = rf
        BY <4>1
      <4>5. QED
        BY <4>2, <4>3, <4>4
    <3>3. QED
      BY <3>1, <3>2
  <2>14. CASE Notify
    BY <2>14 DEF Notify, Wake, ChunkDone
  <2>15. CASE ReadPending
    BY <2>15 DEF ReadPending, SeesPending, GateRefuses, ChunkFailed
  <2>16. CASE ReadActive
    BY <2>16 DEF ReadActive, SeesActive, GateRefuses, ChunkFailed
  <2>17. CASE TxQueueOff
    BY <2>17 DEF TxQueueOff
  <2>18. CASE ApplyRfConfig
    BY <2>18 DEF ApplyRfConfig
  <2>19. CASE DirectAbort
    BY <2>19 DEF DirectAbort, ChunkFailed
  <2>20. CASE DirectTransmit
    BY <2>20 DEF DirectTransmit
  <2>21. CASE DirectTransmitDone
    BY <2>21 DEF DirectTransmitDone, ChunkDone, ChunkFailed
  <2>22. CASE DrainCompletion
    BY <2>22 DEF DrainCompletion
  <2>23. CASE NotifyAll
    BY <2>23 DEF NotifyAll, Wake
  <2>24. CASE Join
    BY <2>24 DEF Join
  <2>25. CASE Reinit
    BY <2>25 DEF Reinit
  <2>26. CASE WorkerWait
    BY <2>26 DEF WorkerWait
  <2>27. CASE WorkerExit
    BY <2>27 DEF WorkerExit, MayExit
  <2>28. CASE WorkerPop
    BY <2>28 DEF WorkerPop, RaiseActive
  <2>29. CASE WorkerAbort
    BY <2>29 DEF WorkerAbort, MayAbort
  <2>30. CASE WorkerTransmit
    BY <2>30 DEF WorkerTransmit
  <2>31. CASE WorkerTransmitDone
    BY <2>31 DEF WorkerTransmitDone
  <2>32. CASE WorkerFinish
    BY <2>32 DEF WorkerFinish
  <2>33. CASE WorkerRecord
    BY <2>33 DEF WorkerRecord, PushCompletion
  <2>34. CASE SpuriousWakeup
    BY <2>34 DEF SpuriousWakeup
  <2>35. CASE Exited
    BY <2>35 DEF Exited, vars
  <2>36. CASE UNCHANGED vars
    BY <2>36 DEF vars
  <2>37. QED
    BY <2>1, <2>2, <2>3, <2>4, <2>5, <2>6, <2>7, <2>8, <2>9, <2>10,
       <2>11, <2>12, <2>13, <2>14, <2>15, <2>16, <2>17, <2>18, <2>19,
       <2>20, <2>21, <2>22, <2>23, <2>24, <2>25, <2>26, <2>27, <2>28,
       <2>29, <2>30, <2>31, <2>32, <2>33, <2>34, <2>35, <2>36 DEF Next,
       Request, MainStep, WorkerStep
<1>3. QED
  BY <1>1, <1>2, DataTyped, ThreadLife, PTL DEF Spec

\* AcceptedJobKeepsRfConfig for every instance.
THEOREM NoRetuneOfAcceptedJobs == Spec => []AcceptedJobKeepsRfConfig
BY Coordination, PTL DEF CoordInv

\* QueueOffIsDrained for every instance.
THEOREM DrainBeforeDisable == Spec => []QueueOffIsDrained
BY Coordination, PTL DEF CoordInv

\* DirectNeverInterleaves for every instance: the direct path runs only with
\* the queue off.
THEOREM NoInterleaving == Spec => []DirectNeverInterleaves
<1>1. CoordInv => DirectNeverInterleaves
  BY DEF CoordInv, GateInv, QueueOffIsDrained, InData,
         DirectNeverInterleaves
<1>2. QED
  BY <1>1, Coordination, PTL

-----------------------------------------------------------------------------
(* The ledgers.                                                            *)

\* JobLedger for every instance: no job is lost, duplicated or reordered
\* between acceptance and its result.
LEMMA JobsConserved == Spec => []JobLedger
<1> USE CapacityAssumption
<1>1. Init => JobLedger
  BY DEF Init, JobLedger, Holding, Executing
<1>2. DataTypeOK /\ ThreadInv /\ JobLedger /\ [Next]_vars
        => JobLedger'
  <2> SUFFICES ASSUME DataTypeOK, ThreadInv, JobLedger, [Next]_vars
               PROVE  JobLedger'
    OBVIOUS
  <2> USE DEF DataTypeOK, ThreadInv, JobLedger, queueVars, threadVars,
              resultVars, workerVars, radioVars, Holding, Executing
  <2>1. CASE RawRead
    BY <2>1 DEF RawRead, ReadBudget
  <2>2. CASE FramedPacket
    BY <2>2 DEF FramedPacket
  <2>3. CASE SetTxQueueOn
    BY <2>3 DEF SetTxQueueOn
  <2>4. CASE SetTxQueueOff
    BY <2>4 DEF SetTxQueueOff
  <2>5. CASE SetRfConfig
    BY <2>5 DEF SetRfConfig
  <2>6. CASE BeginDrain
    BY <2>6 DEF BeginDrain
  <2>7. CASE StopRequest
    BY <2>7 DEF StopRequest, DiscardAll
  <2>8. CASE ChunkRefused
    BY <2>8 DEF ChunkRefused, ChunkFailed
  <2>9. CASE ChunkRoute
    BY <2>9 DEF ChunkRoute
  <2>10. CASE StartIsNoOp
    BY <2>10 DEF StartIsNoOp
  <2>11. CASE StartThread
    BY <2>11 DEF StartThread
  <2>12. CASE StartThrows
    BY <2>12 DEF StartThrows, ChunkFailed
  <2>13. CASE Submit
    <3>1. CASE stop_requested \/ QueueFull
      BY <2>13, <3>1 DEF Submit, ChunkFailed
    <3>2. CASE ~(stop_requested \/ QueueFull)
      <4> DEFINE new == [id |-> accepted + 1, rf |-> rf]
      <4>1. queue' = Append(queue, new) /\ accepted' = accepted + 1
        BY <2>13, <3>2 DEF Submit
      <4>2. UNCHANGED <<processed, dropped, wpc, wjob>> /\ mpc = "submit"
        BY <2>13 DEF Submit
      <4>3. dropped = 0
        BY <4>2
      <4>4. new.id = accepted + 1
        OBVIOUS
      <4>5. /\ Len(queue') = Len(queue) + 1
            /\ \A i \in 1..Len(queue) : queue'[i] = queue[i]
            /\ queue'[Len(queue) + 1] = new
        BY <4>1
      <4> HIDE DEF new
      <4>6. /\ DOMAIN queue' = 1..(Len(queue) + 1)
            /\ DOMAIN queue = 1..Len(queue)
        BY <4>1, <4>5 DEF new, Job
      <4> DEFINE held == IF wpc \in Holding THEN 1 ELSE 0
      <4>7. held \in Nat /\ held' = held
        BY <4>2
      <4>8. /\ accepted = processed + held + Len(queue) + dropped
            /\ held = 1 => wjob.id = processed + 1
            /\ \A i \in DOMAIN queue : queue[i].id = processed + held + i
        BY <4>2
      <4> HIDE DEF held
      <4>9. \A i \in DOMAIN queue' : queue'[i].id = processed + held + i
        <5> SUFFICES ASSUME NEW i \in 1..(Len(queue) + 1)
                     PROVE  queue'[i].id = processed + held + i
          BY <4>6
        <5>1. CASE i = Len(queue) + 1
          BY <4>3, <4>4, <4>5, <4>7, <4>8, <5>1
        <5>2. CASE i # Len(queue) + 1
          <6>1. i \in 1..Len(queue)
            BY <5>2
          <6>2. QED
            BY <4>5, <4>6, <4>8, <6>1
        <5>3. QED
          BY <5>1, <5>2
      <4>10. accepted' = processed + held + Len(queue') + dropped
        BY <4>1, <4>5, <4>7, <4>8
      <4>11. QED
        BY <4>2, <4>7, <4>8, <4>9, <4>10 DEF held
    <3>3. QED
      BY <3>1, <3>2
  <2>14. CASE Notify
    BY <2>14 DEF Notify, Wake, ChunkDone
  <2>15. CASE ReadPending
    BY <2>15 DEF ReadPending, SeesPending, GateRefuses, ChunkFailed
  <2>16. CASE ReadActive
    BY <2>16 DEF ReadActive, SeesActive, GateRefuses, ChunkFailed
  <2>17. CASE TxQueueOff
    BY <2>17 DEF TxQueueOff
  <2>18. CASE ApplyRfConfig
    BY <2>18 DEF ApplyRfConfig
  <2>19. CASE DirectAbort
    BY <2>19 DEF DirectAbort, ChunkFailed
  <2>20. CASE DirectTransmit
    BY <2>20 DEF DirectTransmit
  <2>21. CASE DirectTransmitDone
    BY <2>21 DEF DirectTransmitDone, ChunkDone, ChunkFailed
  <2>22. CASE DrainCompletion
    BY <2>22 DEF DrainCompletion
  <2>23. CASE NotifyAll
    BY <2>23 DEF NotifyAll, Wake
  <2>24. CASE Join
    BY <2>24 DEF Join
  <2>25. CASE Reinit
    BY <2>25 DEF Reinit
  <2>26. CASE WorkerWait
    BY <2>26 DEF WorkerWait
  <2>27. CASE WorkerExit
    BY <2>27 DEF WorkerExit, MayExit
  <2>28. CASE WorkerPop
    <3>1. /\ Len(queue') = Len(queue) - 1
          /\ \A i \in 1..Len(queue') : queue'[i] = queue[i + 1]
          /\ wjob' = queue[1] /\ Len(queue) # 0
      BY <2>28 DEF WorkerPop
    <3>2. UNCHANGED <<accepted, processed, dropped, mpc>>
      BY <2>28 DEF WorkerPop
    <3>3. wpc \notin Holding /\ wpc' \in Holding
      BY <2>28 DEF WorkerPop
    <3>4. /\ DOMAIN queue' = 1..Len(queue') /\ DOMAIN queue = 1..Len(queue)
          /\ 1 \in DOMAIN queue
      BY <2>28 DEF WorkerPop
    <3>5. mpc # "exited"
      BY <2>28, <3>1 DEF WorkerPop
    <3>6. /\ accepted = processed + Len(queue) + dropped
          /\ \A i \in 1..Len(queue) : queue[i].id = processed + i
      BY <3>3, <3>4, <3>5
    <3>7. wjob'.id = processed + 1
      BY <3>1, <3>4, <3>6
    <3>8. \A i \in 1..Len(queue') : queue'[i].id = processed + 1 + i
      <4> SUFFICES ASSUME NEW i \in 1..Len(queue')
                   PROVE  queue'[i].id = processed + 1 + i
        OBVIOUS
      <4>1. i + 1 \in 1..Len(queue) /\ queue'[i] = queue[i + 1]
        BY <3>1
      <4>2. queue[i + 1].id = processed + (i + 1)
        BY <3>6, <4>1
      <4>3. QED
        BY <4>1, <4>2
    <3>9. QED
      BY <3>1, <3>2, <3>3, <3>4, <3>6, <3>7, <3>8
  <2>29. CASE WorkerAbort
    BY <2>29 DEF WorkerAbort, MayAbort
  <2>30. CASE WorkerTransmit
    BY <2>30 DEF WorkerTransmit
  <2>31. CASE WorkerTransmitDone
    BY <2>31 DEF WorkerTransmitDone
  <2>32. CASE WorkerFinish
    BY <2>32 DEF WorkerFinish
  <2>33. CASE WorkerRecord
    BY <2>33 DEF WorkerRecord, PushCompletion
  <2>34. CASE SpuriousWakeup
    BY <2>34 DEF SpuriousWakeup
  <2>35. CASE Exited
    BY <2>35 DEF Exited, vars
  <2>36. CASE UNCHANGED vars
    BY <2>36 DEF vars
  <2>37. QED
    BY <2>1, <2>2, <2>3, <2>4, <2>5, <2>6, <2>7, <2>8, <2>9, <2>10,
       <2>11, <2>12, <2>13, <2>14, <2>15, <2>16, <2>17, <2>18, <2>19,
       <2>20, <2>21, <2>22, <2>23, <2>24, <2>25, <2>26, <2>27, <2>28,
       <2>29, <2>30, <2>31, <2>32, <2>33, <2>34, <2>35, <2>36 DEF Next,
       Request, MainStep, WorkerStep
<1>3. QED
  BY <1>1, <1>2, DataTyped, ThreadLife, PTL DEF Spec

\* ResultLedger for every instance: only the oldest results are lost, and each
\* is counted.
LEMMA ResultsConserved == Spec => []ResultLedger
<1> USE CapacityAssumption
<1>1. Init => ResultLedger
  BY DEF Init, ResultLedger
<1>2. DataTypeOK /\ ThreadInv /\ JobLedger /\ ResultLedger /\ [Next]_vars
        => ResultLedger'
  <2> SUFFICES ASSUME DataTypeOK, ThreadInv, JobLedger, ResultLedger, [Next]_vars
               PROVE  ResultLedger'
    OBVIOUS
  <2> USE DEF DataTypeOK, ThreadInv, ResultLedger, queueVars, threadVars,
              resultVars, workerVars, radioVars, Holding, Executing
  <2>1. CASE RawRead
    BY <2>1 DEF RawRead, ReadBudget
  <2>2. CASE FramedPacket
    BY <2>2 DEF FramedPacket
  <2>3. CASE SetTxQueueOn
    BY <2>3 DEF SetTxQueueOn
  <2>4. CASE SetTxQueueOff
    BY <2>4 DEF SetTxQueueOff
  <2>5. CASE SetRfConfig
    BY <2>5 DEF SetRfConfig
  <2>6. CASE BeginDrain
    BY <2>6 DEF BeginDrain
  <2>7. CASE StopRequest
    BY <2>7 DEF StopRequest, DiscardAll
  <2>8. CASE ChunkRefused
    BY <2>8 DEF ChunkRefused, ChunkFailed
  <2>9. CASE ChunkRoute
    BY <2>9 DEF ChunkRoute
  <2>10. CASE StartIsNoOp
    BY <2>10 DEF StartIsNoOp
  <2>11. CASE StartThread
    BY <2>11 DEF StartThread
  <2>12. CASE StartThrows
    BY <2>12 DEF StartThrows, ChunkFailed
  <2>13. CASE Submit
    BY <2>13 DEF Submit, ChunkFailed, QueueFull
  <2>14. CASE Notify
    BY <2>14 DEF Notify, Wake, ChunkDone
  <2>15. CASE ReadPending
    BY <2>15 DEF ReadPending, SeesPending, GateRefuses, ChunkFailed
  <2>16. CASE ReadActive
    BY <2>16 DEF ReadActive, SeesActive, GateRefuses, ChunkFailed
  <2>17. CASE TxQueueOff
    BY <2>17 DEF TxQueueOff
  <2>18. CASE ApplyRfConfig
    BY <2>18 DEF ApplyRfConfig
  <2>19. CASE DirectAbort
    BY <2>19 DEF DirectAbort, ChunkFailed
  <2>20. CASE DirectTransmit
    BY <2>20 DEF DirectTransmit
  <2>21. CASE DirectTransmitDone
    BY <2>21 DEF DirectTransmitDone, ChunkDone, ChunkFailed
  <2>22. CASE DrainCompletion
    <3>1. CASE completions = <<>>
      BY <2>22, <3>1 DEF DrainCompletion
    <3>2. CASE completions # <<>>
      <4>0. completions' = Tail(completions) /\ Len(completions) # 0
        BY <2>22, <3>2 DEF DrainCompletion
      <4>1. /\ Len(completions') = Len(completions) - 1
            /\ \A i \in 1..Len(completions') :
                  completions'[i] = completions[i + 1]
            /\ DOMAIN completions' = 1..Len(completions')
            /\ DOMAIN completions = 1..Len(completions)
        BY <4>0
      <4>2. drained' = drained + 1 /\ UNCHANGED <<processed, resultDropped>>
        BY <2>22, <3>2 DEF DrainCompletion
      <4>3. mpc # "exited"
        BY <2>22 DEF DrainCompletion
      <4>4. ASSUME NEW i \in 1..Len(completions')
            PROVE  completions'[i].id = processed - Len(completions') + i
        <5>1. /\ i + 1 \in 1..Len(completions)
              /\ completions'[i] = completions[i + 1]
          BY <4>1
        <5>2. completions[i + 1].id = processed - Len(completions) + (i + 1)
          BY <4>1, <4>3, <5>1
        <5>3. QED
          BY <4>1, <5>1, <5>2
      <4>5. processed = drained + resultDropped + Len(completions)
        BY <4>3
      <4>6. processed' = drained' + resultDropped' + Len(completions')
        BY <4>1, <4>2, <4>5
      <4>7. \A i \in DOMAIN completions' :
              completions'[i].id = processed' - Len(completions') + i
        BY <4>1, <4>2, <4>4
      <4>8. QED
        BY <4>6, <4>7, Zenon
    <3>3. QED
      BY <3>1, <3>2
  <2>23. CASE NotifyAll
    BY <2>23 DEF NotifyAll, Wake
  <2>24. CASE Join
    BY <2>24 DEF Join
  <2>25. CASE Reinit
    BY <2>25 DEF Reinit
  <2>26. CASE WorkerWait
    BY <2>26 DEF WorkerWait
  <2>27. CASE WorkerExit
    BY <2>27 DEF WorkerExit, MayExit
  <2>28. CASE WorkerPop
    BY <2>28 DEF WorkerPop, RaiseActive
  <2>29. CASE WorkerAbort
    BY <2>29 DEF WorkerAbort, MayAbort
  <2>30. CASE WorkerTransmit
    BY <2>30 DEF WorkerTransmit
  <2>31. CASE WorkerTransmitDone
    BY <2>31 DEF WorkerTransmitDone
  <2>32. CASE WorkerFinish
    BY <2>32 DEF WorkerFinish
  <2>33. CASE WorkerRecord
    <3>1. wjob.id = processed + 1 /\ mpc # "exited"
      BY <2>33 DEF WorkerRecord, JobLedger
    <3>2. processed' = processed + 1 /\ UNCHANGED drained
      BY <2>33 DEF WorkerRecord
    <3>3. CASE Len(completions) = CompletionCapacity
      <4> DEFINE rest == Tail(completions)
      <4>1. /\ rest \in Seq(Job) /\ Len(rest) = Len(completions) - 1
            /\ \A i \in 1..Len(rest) : rest[i] = completions[i + 1]
        BY <3>3
      <4>2. /\ completions' = Append(rest, wjob)
            /\ resultDropped' = resultDropped + 1
        BY <2>33, <3>3 DEF WorkerRecord, PushCompletion
      <4> HIDE DEF rest
      <4>3. /\ Len(completions') = Len(completions)
            /\ \A i \in 1..Len(rest) : completions'[i] = rest[i]
            /\ completions'[Len(completions)] = wjob
            /\ DOMAIN completions' = 1..Len(completions')
            /\ DOMAIN completions = 1..Len(completions)
        BY <3>3, <4>1, <4>2
      <4>4. ASSUME NEW i \in 1..Len(completions)
            PROVE  completions'[i].id = processed + 1 - Len(completions) + i
        <5>1. CASE i = Len(completions)
          BY <3>1, <4>3, <5>1
        <5>2. CASE i # Len(completions)
          <6>1. i \in 1..Len(rest) /\ i + 1 \in 1..Len(completions)
            BY <4>1, <5>2
          <6>2. completions'[i] = completions[i + 1]
            BY <4>1, <4>3, <6>1
          <6>3. completions[i + 1].id = processed - Len(completions) + (i + 1)
            BY <3>1, <4>3, <6>1
          <6>4. QED
            BY <6>1, <6>2, <6>3
        <5>3. QED
          BY <5>1, <5>2
      <4>5. processed = drained + resultDropped + Len(completions)
        BY <3>1
      <4>6. QED
        BY <3>2, <4>2, <4>3, <4>4, <4>5
    <3>4. CASE Len(completions) # CompletionCapacity
      <4>1. /\ completions' = Append(completions, wjob)
            /\ UNCHANGED resultDropped
        BY <2>33, <3>4 DEF WorkerRecord, PushCompletion
      <4>2. /\ Len(completions') = Len(completions) + 1
            /\ \A i \in 1..Len(completions) : completions'[i] = completions[i]
            /\ completions'[Len(completions) + 1] = wjob
            /\ DOMAIN completions' = 1..Len(completions')
            /\ DOMAIN completions = 1..Len(completions)
        BY <4>1
      <4>3. ASSUME NEW i \in 1..Len(completions')
            PROVE  completions'[i].id
                     = processed + 1 - Len(completions') + i
        <5>1. CASE i = Len(completions) + 1
          BY <3>1, <4>2, <5>1
        <5>2. CASE i # Len(completions) + 1
          <6>1. i \in 1..Len(completions)
            BY <4>2, <5>2
          <6>2. completions[i].id = processed - Len(completions) + i
            BY <3>1, <4>2, <6>1
          <6>3. QED
            BY <4>2, <6>1, <6>2
        <5>3. QED
          BY <5>1, <5>2
      <4>4. processed = drained + resultDropped + Len(completions)
        BY <3>1
      <4>5. QED
        BY <3>2, <4>1, <4>2, <4>3, <4>4
    <3>5. QED
      BY <3>3, <3>4
  <2>34. CASE SpuriousWakeup
    BY <2>34 DEF SpuriousWakeup
  <2>35. CASE Exited
    BY <2>35 DEF Exited, vars
  <2>36. CASE UNCHANGED vars
    BY <2>36 DEF vars
  <2>37. QED
    BY <2>1, <2>2, <2>3, <2>4, <2>5, <2>6, <2>7, <2>8, <2>9, <2>10,
       <2>11, <2>12, <2>13, <2>14, <2>15, <2>16, <2>17, <2>18, <2>19,
       <2>20, <2>21, <2>22, <2>23, <2>24, <2>25, <2>26, <2>27, <2>28,
       <2>29, <2>30, <2>31, <2>32, <2>33, <2>34, <2>35, <2>36 DEF Next,
       Request, MainStep, WorkerStep
<1>3. QED
  BY <1>1, <1>2, DataTyped, ThreadLife, JobsConserved, PTL DEF Spec

\* NothingUnaccounted for every instance: the two ledgers together.
THEOREM EverythingAccounted == Spec => []NothingUnaccounted
  BY JobsConserved, ResultsConserved, PTL DEF NothingUnaccounted

-----------------------------------------------------------------------------
(* The read budget.                                                        *)

\* While a raw read is handed over, its remaining chunks have free slots;
\* after a submit one of them has been used.
BudgetInv ==
    (tx_queue_active /\ op = "raw") =>
        /\ mpc \in {"chunk", "start", "submit"}
              => Len(queue) + chunks <= Capacity
        /\ mpc = "notify" => Len(queue) + chunks <= Capacity + 1

\* ReadFitsQueue for every instance: what is read from a raw client fits the
\* queue, whatever the worker does meanwhile.
THEOREM BudgetHolds == Spec => []ReadFitsQueue
<1> USE CapacityAssumption
<1>1. Init => BudgetInv
  BY DEF Init, BudgetInv
<1>2. /\ DataTypeOK /\ ChunksInv /\ CoordInv /\ BudgetInv
      /\ [Next]_vars
      => BudgetInv'
  <2> SUFFICES ASSUME DataTypeOK, ChunksInv, CoordInv, BudgetInv,
                      [Next]_vars
               PROVE  BudgetInv'
    OBVIOUS
  <2> USE DEF DataTypeOK, ChunksInv, InData, BudgetInv, queueVars,
              threadVars, resultVars, workerVars, radioVars, Data
  <2>1. CASE RawRead
    BY <2>1 DEF RawRead, ReadBudget
  <2>2. CASE FramedPacket
    BY <2>2 DEF FramedPacket
  <2>3. CASE SetTxQueueOn
    BY <2>3 DEF SetTxQueueOn
  <2>4. CASE SetTxQueueOff
    BY <2>4 DEF SetTxQueueOff
  <2>5. CASE SetRfConfig
    BY <2>5 DEF SetRfConfig
  <2>6. CASE BeginDrain
    BY <2>6 DEF BeginDrain
  <2>7. CASE StopRequest
    BY <2>7 DEF StopRequest, DiscardAll
  <2>8. CASE ChunkRefused
    BY <2>8 DEF ChunkRefused, ChunkFailed
  <2>9. CASE ChunkRoute
    BY <2>9 DEF ChunkRoute
  <2>10. CASE StartIsNoOp
    BY <2>10 DEF StartIsNoOp
  <2>11. CASE StartThread
    BY <2>11 DEF StartThread
  <2>12. CASE StartThrows
    BY <2>12 DEF StartThrows, ChunkFailed
  <2>13. CASE Submit
    BY <2>13 DEF Submit, ChunkFailed, QueueFull
  <2>14. CASE Notify
    BY <2>14 DEF Notify, Wake, ChunkDone
  <2>15. CASE ReadPending
    BY <2>15 DEF ReadPending, SeesPending, GateRefuses, ChunkFailed
  <2>16. CASE ReadActive
    BY <2>16 DEF ReadActive, SeesActive, GateRefuses, ChunkFailed
  <2>17. CASE TxQueueOff
    BY <2>17 DEF TxQueueOff
  <2>18. CASE ApplyRfConfig
    BY <2>18 DEF ApplyRfConfig
  <2>19. CASE DirectAbort
    BY <2>19 DEF DirectAbort, ChunkFailed
  <2>20. CASE DirectTransmit
    BY <2>20 DEF DirectTransmit
  <2>21. CASE DirectTransmitDone
    BY <2>21 DEF DirectTransmitDone, ChunkDone, ChunkFailed, CoordInv,
                 GateInv
  <2>22. CASE DrainCompletion
    BY <2>22 DEF DrainCompletion
  <2>23. CASE NotifyAll
    BY <2>23 DEF NotifyAll, Wake
  <2>24. CASE Join
    BY <2>24 DEF Join
  <2>25. CASE Reinit
    BY <2>25 DEF Reinit
  <2>26. CASE WorkerWait
    BY <2>26 DEF WorkerWait
  <2>27. CASE WorkerExit
    BY <2>27 DEF WorkerExit, MayExit
  <2>28. CASE WorkerPop
    BY <2>28 DEF WorkerPop, RaiseActive
  <2>29. CASE WorkerAbort
    BY <2>29 DEF WorkerAbort, MayAbort
  <2>30. CASE WorkerTransmit
    BY <2>30 DEF WorkerTransmit
  <2>31. CASE WorkerTransmitDone
    BY <2>31 DEF WorkerTransmitDone
  <2>32. CASE WorkerFinish
    BY <2>32 DEF WorkerFinish
  <2>33. CASE WorkerRecord
    BY <2>33 DEF WorkerRecord, PushCompletion
  <2>34. CASE SpuriousWakeup
    BY <2>34 DEF SpuriousWakeup
  <2>35. CASE Exited
    BY <2>35 DEF Exited, vars
  <2>36. CASE UNCHANGED vars
    BY <2>36 DEF vars
  <2>37. QED
    BY <2>1, <2>2, <2>3, <2>4, <2>5, <2>6, <2>7, <2>8, <2>9, <2>10,
       <2>11, <2>12, <2>13, <2>14, <2>15, <2>16, <2>17, <2>18, <2>19,
       <2>20, <2>21, <2>22, <2>23, <2>24, <2>25, <2>26, <2>27, <2>28,
       <2>29, <2>30, <2>31, <2>32, <2>33, <2>34, <2>35, <2>36 DEF Next,
       Request, MainStep, WorkerStep
<1>3. BudgetInv => ReadFitsQueue
  BY DEF BudgetInv, ReadFitsQueue
<1>4. QED
  BY <1>1, <1>2, <1>3, DataTyped, Coordination, PTL DEF Spec

-----------------------------------------------------------------------------
(* The CAD wait (CadWait): the two loops against the rule in milliseconds. *)
(* The ticks of the code are related to the readings by counting: the      *)
(* elapsed ticks are the readings, the free ticks those since the last     *)
(* reading that was not free.                                              *)

\* A product of naturals is monotone in its first factor.
LEMMA ProductMonotone ==
  ASSUME NEW a \in Nat, NEW b \in Nat, NEW p \in Nat, a <= b
  PROVE  a * p <= b * p
<1>1. (b - a) \in Nat /\ (b - a) * p \in Nat
  OBVIOUS
<1>2. b * p = a * p + (b - a) * p
  OBVIOUS
<1> QED
  BY <1>1, <1>2

\* daemon_tx_policy_ticks_for_ms rounds up: k intervals cover ms milliseconds
\* exactly when k is at least the number of ticks.
LEMMA TicksCover ==
  ASSUME NEW ms \in Nat, NEW p \in Nat \ {0}, NEW k \in Nat
  PROVE  /\ TicksForMs(ms, p) \in Nat
         /\ k * p >= ms <=> k >= TicksForMs(ms, p)
<1> DEFINE q == TicksForMs(ms, p)
<1>1. q \in Nat /\ q * p <= ms + p - 1 /\ ms + p - 1 < (q + 1) * p
  BY DEF TicksForMs
<1>2. (q + 1) * p = q * p + p /\ q * p \in Nat /\ k * p \in Nat
  BY <1>1
<1> HIDE DEF q
<1>3. ASSUME k >= q PROVE k * p >= ms
  <2>1. q * p <= k * p
    BY <1>1, <1>3, ProductMonotone
  <2> QED
    BY <1>1, <1>2, <2>1
<1>4. ASSUME k < q PROVE k * p < ms
  <2>1. (k + 1) * p <= q * p /\ (k + 1) * p = k * p + p
    BY <1>1, <1>4, ProductMonotone
  <2> QED
    BY <1>1, <1>2, <2>1
<1> QED
  BY <1>1, <1>2, <1>3, <1>4 DEF q

\* The number of free readings since the last other one decides whether the
\* channel was free for the idle time.
LEMMA IdleByCount ==
  ASSUME NEW p \in Policies, NEW r, NEW n \in Nat, NEW f \in 0..n,
         \A i \in (n - f + 1)..n : r[i] = "free",
         f < n => r[n - f] # "free"
  PROVE  IdleLongEnough(p, r, n)
            <=> (f >= 1 /\ f >= TicksForMs(p.idle, p.poll))
<1>1. p.idle \in Nat /\ p.poll \in Nat \ {0}
  BY PolicyAssumption DEF Policies
<1>2. TicksForMs(p.idle, p.poll) \in Nat
  BY <1>1, TicksCover
<1>3. ASSUME f >= 1, f >= TicksForMs(p.idle, p.poll)
      PROVE  IdleLongEnough(p, r, n)
  <2>1. f \in 1..n /\ f * p.poll >= p.idle
    BY <1>1, <1>3, TicksCover
  <2> QED
    BY <2>1 DEF IdleLongEnough
<1>4. ASSUME IdleLongEnough(p, r, n)
      PROVE  f >= 1 /\ f >= TicksForMs(p.idle, p.poll)
  <2>1. PICK k \in 1..n : /\ k * p.poll >= p.idle
                          /\ \A i \in (n - k + 1)..n : r[i] = "free"
    BY <1>4 DEF IdleLongEnough
  <2>2. k >= TicksForMs(p.idle, p.poll)
    BY <1>1, <2>1, TicksCover
  <2>3. f >= k
    <3>1. SUFFICES ASSUME f < k PROVE FALSE
      OBVIOUS
    <3>2. f < n /\ n - f \in (n - k + 1)..n
      BY <3>1
    <3> QED
      BY <2>1, <3>2
  <2> QED
    BY <1>2, <2>2, <2>3
<1> QED
  BY <1>3, <1>4

\* A further reading does not change what the rule said before it.
LEMMA RuleOfPrefix ==
  ASSUME NEW p, NEW r \in Seq(MainReadings), NEW x \in MainReadings,
         NEW n \in 0..Len(r)
  PROVE  Rule(p, Append(r, x), n) = Rule(p, r, n)
<1>1. \A i \in 1..n : Append(r, x)[i] = r[i]
  OBVIOUS
<1>2. IdleLongEnough(p, Append(r, x), n) <=> IdleLongEnough(p, r, n)
  <2>1. \A k \in 1..n : \A i \in (n - k + 1)..n : Append(r, x)[i] = r[i]
    BY <1>1
  <2> QED
    BY <2>1, Zenon DEF IdleLongEnough
<1>3. CASE n = 0
  BY <1>3 DEF Rule
<1>4. CASE n # 0
  <2>1. Append(r, x)[n] = r[n]
    BY <1>1, <1>4
  <2> QED
    BY <1>2, <2>1, Zenon DEF Rule
<1> QED
  BY <1>3, <1>4

\* Types of the CAD wait.
CadTypeOK ==
    /\ policy \in Policies /\ asked \in Policies
    /\ phase \in {"ready", "queued", "main", "worker"}
    /\ limits \in [max : Nat, stable : Nat, after : BOOLEAN, enabled : BOOLEAN]
    /\ cad_wait \in Nat /\ free_ticks \in Nat
    /\ verdict \in {"none", "free", "timeout_send", "block", "error"}
    /\ seen \in Seq(MainReadings)

\* The limits in ticks a policy gives.
LimitsOf(p) == [max |-> TicksForMs(p.wait, p.poll),
                stable |-> TicksForMs(p.idle, p.poll),
                after |-> p.after, enabled |-> p.managed]

\* A packet under way has the limits of the policy it was accepted under; no
\* decision has fallen.
LimitsInv == phase # "ready" => limits = LimitsOf(asked) /\ verdict = "none"

\* A queued packet has not been probed for.
QueuedInv ==
    phase = "queued" => seen = <<>> /\ cad_wait = 0 /\ free_ticks = 0

\* f counts the free readings at the end of r.
CountsFree(r, f) ==
    /\ f \in 0..Len(r)
    /\ \A i \in (Len(r) - f + 1)..Len(r) : r[i] = "free"
    /\ f < Len(r) => r[Len(r) - f] # "free"

\* In a wait the counters describe the readings, which have led to no decision
\* but, on the main thread, that of the time.
WaitInv ==
    phase \in {"main", "worker"} =>
        /\ asked.managed
        /\ cad_wait = Len(seen)
        /\ CountsFree(seen, free_ticks)
        /\ phase = "worker" => cad_wait < limits.max
        /\ Rule(asked, seen, Len(seen)) =
              IF cad_wait < limits.max THEN "none" ELSE TimeoutVerdict

\* The inductive invariant of the CAD wait.
CadInv == CadTypeOK /\ LimitsInv /\ QueuedInv /\ WaitInv /\ DecisionFollowsReadings

\* A probe's reading is counted.
LEMMA ReadingCounted ==
  ASSUME CadInv, phase \in {"main", "worker"}, NEW x \in MainReadings
  PROVE  CountsFree(Append(seen, x), FreeTicks(x))
<1>1. /\ seen \in Seq(MainReadings) /\ free_ticks \in 0..Len(seen)
      /\ \A i \in (Len(seen) - free_ticks + 1)..Len(seen) : seen[i] = "free"
      /\ free_ticks < Len(seen) => seen[Len(seen) - free_ticks] # "free"
  BY DEF CadInv, CadTypeOK, WaitInv, CountsFree
<1> DEFINE n == Len(seen)
           r == Append(seen, x)
<1>2. /\ n \in Nat /\ Len(r) = n + 1 /\ r[n + 1] = x
      /\ \A i \in 1..n : r[i] = seen[i]
  BY <1>1
<1> HIDE DEF n, r
<1>3. CASE x = "free"
  <2>1. FreeTicks(x) = free_ticks + 1
    BY <1>3 DEF FreeTicks
  <2>2. ASSUME NEW i \in (n + 1 - (free_ticks + 1) + 1)..(n + 1)
        PROVE  r[i] = "free"
    <3>1. CASE i = n + 1
      BY <1>2, <1>3, <3>1
    <3>2. CASE i # n + 1
      <4>1. i \in (n - free_ticks + 1)..n /\ i \in 1..n
        BY <1>1, <1>2, <3>2 DEF n
      <4> QED
        BY <1>1, <1>2, <4>1 DEF n
    <3> QED
      BY <3>1, <3>2
  <2>3. free_ticks + 1 < n + 1 => r[n + 1 - (free_ticks + 1)] # "free"
    <3>1. SUFFICES ASSUME free_ticks < n
                   PROVE  r[n - free_ticks] # "free"
      BY <1>1, <1>2 DEF n
    <3>2. n - free_ticks \in 1..n
      BY <1>1, <1>2, <3>1 DEF n
    <3> QED
      BY <1>1, <1>2, <3>1, <3>2 DEF n
  <2>4. free_ticks + 1 \in 0..(n + 1)
    BY <1>1, <1>2 DEF n
  <2> QED
    BY <1>2, <2>1, <2>2, <2>3, <2>4 DEF CountsFree, r
<1>4. CASE x # "free"
  <2>1. FreeTicks(x) = 0
    BY <1>4 DEF FreeTicks
  <2> QED
    BY <1>2, <1>4, <2>1 DEF CountsFree, r
<1> QED
  BY <1>3, <1>4

\* What the rule says with a probe's reading is what the loops compute.
LEMMA RuleAfterProbe ==
  ASSUME CadInv, phase \in {"main", "worker"}, NEW x \in MainReadings
  PROVE  Rule(asked, Append(seen, x), Len(seen) + 1) =
            IF x = "unavailable" THEN "error"
            ELSE IF x = "packet" THEN "block"
            ELSE IF Stable(x) THEN "free"
            ELSE IF cad_wait + 1 < limits.max THEN "none"
            ELSE TimeoutVerdict
<1> DEFINE n == Len(seen) + 1
           r == Append(seen, x)
<1>1. /\ seen \in Seq(MainReadings) /\ cad_wait = Len(seen) /\ free_ticks \in Nat
      /\ asked \in Policies /\ limits = LimitsOf(asked)
  BY DEF CadInv, CadTypeOK, WaitInv, LimitsInv
<1>2. /\ asked.wait \in Nat /\ asked.idle \in Nat /\ asked.poll \in Nat \ {0}
  BY <1>1, PolicyAssumption DEF Policies
<1>3. n \in Nat /\ n # 0 /\ Len(r) = n /\ r[n] = x /\ n = cad_wait + 1
  BY <1>1
<1>4. limits.max = TicksForMs(asked.wait, asked.poll) /\ limits.after = asked.after
      /\ limits.stable = TicksForMs(asked.idle, asked.poll)
  BY <1>1, Zenon DEF LimitsOf
<1>5. (n * asked.poll < asked.wait) <=> (cad_wait + 1 < limits.max)
  <2> HIDE DEF n
  <2>1. TicksForMs(asked.wait, asked.poll) \in Nat
    BY <1>2, <1>3, TicksCover
  <2>2. n * asked.poll >= asked.wait <=> n >= TicksForMs(asked.wait, asked.poll)
    BY <1>2, <1>3, TicksCover
  <2> QED
    <3>1. n * asked.poll \in Nat
      BY <1>2, <1>3
    <3> QED
      BY <1>2, <1>3, <1>4, <2>1, <2>2, <3>1
<1>6. IdleLongEnough(asked, r, n) <=> Stable(x)
  <2>1. CountsFree(r, FreeTicks(x))
    BY ReadingCounted
  <2>2. /\ FreeTicks(x) \in 0..n
        /\ \A i \in (n - FreeTicks(x) + 1)..n : r[i] = "free"
        /\ FreeTicks(x) < n => r[n - FreeTicks(x)] # "free"
    BY <1>3, <2>1 DEF CountsFree
  <2> HIDE DEF n, r
  <2>3. IdleLongEnough(asked, r, n)
           <=> (FreeTicks(x) >= 1 /\ FreeTicks(x) >= TicksForMs(asked.idle, asked.poll))
    BY <1>1, <1>3, <2>2, IdleByCount
  <2>4. TicksForMs(asked.idle, asked.poll) \in Nat
    BY <1>2, TicksCover
  <2> QED
    BY <1>3, <1>4, <2>2, <2>3, <2>4 DEF Stable, Required
<1> HIDE DEF n, r
<1>7. Rule(asked, r, n) =
            IF x = "unavailable" THEN "error"
            ELSE IF x = "packet" THEN "block"
            ELSE IF Stable(x) THEN "free"
            ELSE IF cad_wait + 1 < limits.max THEN "none"
            ELSE TimeoutVerdict
  BY <1>3, <1>4, <1>5, <1>6, Zenon DEF Rule, TimeoutVerdict
<1> QED
  BY <1>7 DEF n, r

\* A wait starts with at least one tick before it.
LEMMA LimitsOfPolicy ==
  ASSUME NEW p \in Policies
  PROVE  /\ LimitsOf(p) \in [max : Nat, stable : Nat, after : BOOLEAN, enabled : BOOLEAN]
         /\ 0 < LimitsOf(p).max
<1>1. /\ p.wait \in Nat \ {0} /\ p.idle \in Nat /\ p.poll \in Nat \ {0}
      /\ p.after \in BOOLEAN /\ p.managed \in BOOLEAN
  BY PolicyAssumption DEF Policies
<1>2. TicksForMs(p.wait, p.poll) \in Nat /\ TicksForMs(p.idle, p.poll) \in Nat
  BY <1>1, TicksCover
<1>3. 0 * p.poll >= p.wait <=> 0 >= TicksForMs(p.wait, p.poll)
  BY <1>1, TicksCover
<1>4. 0 < TicksForMs(p.wait, p.poll)
  BY <1>1, <1>2, <1>3
<1> QED
  BY <1>1, <1>2, <1>4 DEF LimitsOf

\* A SET leaves the wait under way alone.
LEMMA SetKeepsCadInv ==
  ASSUME CadInv, NEW p \in Policies, SetPolicy(p)
  PROVE  CadInv'
<1>1. policy' \in Policies
  BY DEF SetPolicy
<1>2. UNCHANGED <<phase, limits, cad_wait, free_ticks, verdict, asked, seen>>
  BY DEF SetPolicy
<1> QED
  BY <1>1, <1>2, Zenon DEF CadInv, CadTypeOK, LimitsInv, QueuedInv, WaitInv,
     DecisionFollowsReadings, Rule, IdleLongEnough, TimeoutVerdict, CountsFree

\* A packet that is accepted starts with the limits of the moment.
LEMMA AcceptKeepsCadInv ==
  ASSUME CadInv, QueueJob \/ SendDirect
  PROVE  CadInv'
<1>1. /\ policy \in Policies /\ policy' = policy /\ asked' = policy
      /\ limits' = LimitsOf(policy)
      /\ cad_wait' = 0 /\ free_ticks' = 0 /\ seen' = <<>>
      /\ \/ phase' = "queued" /\ verdict' = "none"
         \/ phase' = "main" /\ policy.managed /\ verdict' = "none"
         \/ phase' = "ready" /\ ~policy.managed /\ verdict' = "free"
  BY DEF CadInv, CadTypeOK, QueueJob, SendDirect, Accept, Snapshot, LimitsOf
<1>2. /\ LimitsOf(policy) \in [max : Nat, stable : Nat, after : BOOLEAN, enabled : BOOLEAN]
      /\ 0 < LimitsOf(policy).max
  BY <1>1, LimitsOfPolicy
<1>3. CadTypeOK'
  BY <1>1, <1>2 DEF CadTypeOK
<1>4. LimitsInv' /\ QueuedInv'
  BY <1>1 DEF LimitsInv, QueuedInv
<1>5. WaitInv'
  <2>1. SUFFICES ASSUME phase' \in {"main", "worker"} PROVE WaitInv'
    BY DEF WaitInv
  <2>2. asked'.managed /\ cad_wait' < limits'.max /\ cad_wait' = 0 /\ Len(seen') = 0
    BY <1>1, <1>2, <2>1
  <2>3. CountsFree(seen, free_ticks)'
    BY <1>1, <2>2 DEF CountsFree
  <2>4. Rule(asked', seen', 0) = "none"
    BY DEF Rule
  <2> QED
    BY <2>2, <2>3, <2>4 DEF WaitInv
<1>6. DecisionFollowsReadings'
  BY <1>1 DEF DecisionFollowsReadings
<1> QED
  BY <1>3, <1>4, <1>5, <1>6 DEF CadInv

\* The worker takes the job from the queue.
LEMMA BeginKeepsCadInv ==
  ASSUME CadInv, BeginJob
  PROVE  CadInv'
<1>1. /\ phase = "queued" /\ limits = LimitsOf(asked) /\ verdict = "none"
      /\ seen = <<>> /\ cad_wait = 0 /\ free_ticks = 0 /\ asked \in Policies
      /\ UNCHANGED <<policy, limits, cad_wait, free_ticks, asked, seen>>
  BY DEF CadInv, CadTypeOK, LimitsInv, QueuedInv, BeginJob
<1>2. limits.enabled = asked.managed /\ 0 < limits.max
  BY <1>1, LimitsOfPolicy DEF LimitsOf
<1>3. \/ phase' = "worker" /\ asked.managed /\ verdict' = "none"
      \/ phase' = "ready" /\ ~asked.managed /\ verdict' = "free"
  BY <1>2 DEF BeginJob
<1>4. CadTypeOK'
  BY <1>1, <1>3 DEF CadInv, CadTypeOK
<1>5. LimitsInv' /\ QueuedInv'
  BY <1>1, <1>3 DEF LimitsInv, QueuedInv
<1>6. WaitInv'
  <2>1. SUFFICES ASSUME phase' \in {"main", "worker"} PROVE WaitInv'
    BY DEF WaitInv
  <2>2. asked'.managed /\ cad_wait' < limits'.max /\ cad_wait' = 0 /\ Len(seen') = 0
    BY <1>1, <1>2, <1>3, <2>1
  <2>3. CountsFree(seen, free_ticks)'
    BY <1>1, <2>2 DEF CountsFree
  <2>4. Rule(asked', seen', 0) = "none"
    BY DEF Rule
  <2> QED
    BY <2>2, <2>3, <2>4 DEF WaitInv
<1>7. DecisionFollowsReadings'
  BY <1>1, <1>3 DEF DecisionFollowsReadings
<1> QED
  BY <1>4, <1>5, <1>6, <1>7 DEF CadInv

\* A probe of either loop ends the wait with the rule's decision, or goes on
\* where the rule has none.
LEMMA ProbeKeepsCadInv ==
  ASSUME CadInv, MainProbe \/ WorkerProbe
  PROVE  CadInv'
<1>1. phase \in {"main", "worker"} /\ UNCHANGED <<policy, limits, asked>>
  BY DEF MainProbe, WorkerProbe
<1>2. PICK x \in MainReadings :
         /\ seen' = Append(seen, x)
         /\ \/ phase' = "ready" /\ x = "unavailable" /\ verdict' = "error"
            \/ phase' = "ready" /\ x = "packet" /\ verdict' = "block"
            \/ phase' = "ready" /\ x = "free" /\ Stable(x) /\ verdict' = "free"
            \/ /\ phase' = "ready" /\ verdict' = TimeoutVerdict
               /\ x \in {"free", "busy"} /\ (x = "free" => ~Stable(x))
               /\ cad_wait + 1 >= limits.max
            \/ /\ phase' = phase /\ verdict' = verdict
               /\ x \in {"free", "busy"} /\ (x = "free" => ~Stable(x))
               /\ phase = "worker" => ~(limits.max > 0 /\ cad_wait + 1 >= limits.max)
               /\ cad_wait' = cad_wait + 1 /\ free_ticks' = FreeTicks(x)
         /\ phase' = "ready" => UNCHANGED <<cad_wait, free_ticks>>
  <2>1. CASE MainProbe
    BY <2>1 DEF MainProbe, Ends, Counts, Ticks, MainReadings
  <2>2. CASE WorkerProbe
    BY <2>2 DEF WorkerProbe, Ends, Counts, Ticks, MainReadings
  <2> QED
    BY <2>1, <2>2
<1>3. /\ seen \in Seq(MainReadings) /\ cad_wait \in Nat /\ cad_wait = Len(seen)
      /\ free_ticks \in Nat /\ asked \in Policies /\ limits = LimitsOf(asked)
      /\ limits \in [max : Nat, stable : Nat, after : BOOLEAN, enabled : BOOLEAN]
      /\ limits.max \in Nat
      /\ verdict = "none" /\ asked.managed
  BY <1>1 DEF CadInv, CadTypeOK, WaitInv, LimitsInv
<1>4. /\ seen' \in Seq(MainReadings) /\ Len(seen') = Len(seen) + 1 /\ Len(seen) \in Nat
      /\ FreeTicks(x) \in Nat /\ TimeoutVerdict \in {"timeout_send", "block"}
  BY <1>2, <1>3 DEF FreeTicks, TimeoutVerdict
<1>5. x # "free" => ~Stable(x)
  BY <1>3 DEF Stable, FreeTicks, Required
<1>6. Rule(asked, seen', Len(seen')) =
            IF x = "unavailable" THEN "error"
            ELSE IF x = "packet" THEN "block"
            ELSE IF Stable(x) THEN "free"
            ELSE IF cad_wait + 1 < limits.max THEN "none"
            ELSE TimeoutVerdict
  BY <1>1, <1>2, <1>4, RuleAfterProbe
<1>7. CadTypeOK'
  BY <1>1, <1>2, <1>3, <1>4 DEF CadInv, CadTypeOK
<1>8. LimitsInv' /\ QueuedInv'
  BY <1>1, <1>2, <1>3 DEF LimitsInv, QueuedInv
<1>9. WaitInv'
  <2>1. SUFFICES ASSUME phase' # "ready" PROVE WaitInv'
    BY DEF WaitInv
  <2>2. /\ phase' = phase /\ verdict' = verdict
        /\ x \in {"free", "busy"} /\ ~Stable(x)
        /\ phase = "worker" => ~(limits.max > 0 /\ cad_wait + 1 >= limits.max)
        /\ cad_wait' = cad_wait + 1 /\ free_ticks' = FreeTicks(x)
    BY <1>2, <1>5, <2>1
  <2>3. phase = "worker" => cad_wait' < limits'.max
    <3>1. 0 < limits.max
      BY <1>3, LimitsOfPolicy
    <3> QED
      BY <1>1, <1>3, <2>2, <3>1
  <2>4. CountsFree(seen', free_ticks')
    BY <1>1, <1>2, <2>2, ReadingCounted
  <2>5. Rule(asked', seen', Len(seen')) =
              IF cad_wait' < limits'.max THEN "none" ELSE TimeoutVerdict'
    <3>1. TimeoutVerdict' = TimeoutVerdict
      BY <1>1 DEF TimeoutVerdict
    <3>2. x # "unavailable" /\ x # "packet"
      BY <2>2
    <3> QED
      BY <1>1, <1>6, <2>2, <3>1, <3>2
  <2> QED
    BY <1>1, <1>3, <1>4, <2>2, <2>3, <2>4, <2>5 DEF WaitInv
<1>10. DecisionFollowsReadings'
  <2>1. verdict' # "none" => verdict' = Rule(asked, seen', Len(seen'))
    <3>1. CASE x \in {"unavailable", "packet"}
      BY <1>2, <1>3, <1>6, <3>1
    <3>2. CASE x \notin {"unavailable", "packet"}
      <4>1. Stable(x) => (verdict' # "none" => verdict' = "free")
        BY <1>2, <1>3, <1>5, <3>2
      <4>2. ~Stable(x) /\ verdict' # "none"
               => verdict' = TimeoutVerdict /\ ~(cad_wait + 1 < limits.max)
        BY <1>2, <1>3, <3>2
      <4> QED
        BY <1>6, <3>2, <4>1, <4>2
    <3> QED
      BY <3>1, <3>2
  <2>2. ASSUME NEW n \in 0..(Len(seen') - 1)
        PROVE  Rule(asked, seen', n) = "none"
    <3>1. n \in 0..Len(seen)
      BY <1>4
    <3>2. Rule(asked, seen', n) = Rule(asked, seen, n)
      BY <1>2, <1>3, <3>1, RuleOfPrefix
    <3>3. CASE n = Len(seen)
      <4>1. cad_wait < limits.max
        BY <1>1 DEF CadInv, WaitInv, MainProbe, WorkerProbe
      <4> QED
        BY <1>1, <3>2, <3>3, <4>1 DEF CadInv, WaitInv
    <3>4. CASE n # Len(seen)
      <4>1. n \in 0..(Len(seen) - 1)
        BY <1>4, <3>1, <3>4
      <4> QED
        BY <3>2, <4>1 DEF CadInv, DecisionFollowsReadings
    <3> QED
      BY <3>3, <3>4
  <2> QED
    BY <1>1, <2>1, <2>2 DEF DecisionFollowsReadings
<1> QED
  BY <1>7, <1>8, <1>9, <1>10 DEF CadInv

\* The main thread's wait runs out.
LEMMA TimeoutKeepsCadInv ==
  ASSUME CadInv, MainTimesOut
  PROVE  CadInv'
<1>1. /\ phase = "main" /\ cad_wait >= limits.max /\ phase' = "ready"
      /\ verdict' = TimeoutVerdict
      /\ UNCHANGED <<policy, limits, asked, seen, cad_wait, free_ticks>>
  BY DEF MainTimesOut, Ends
<1>2. TimeoutVerdict \in {"timeout_send", "block"}
  BY DEF TimeoutVerdict
<1>3. CadTypeOK'
  BY <1>1, <1>2 DEF CadInv, CadTypeOK
<1>4. LimitsInv' /\ QueuedInv' /\ WaitInv'
  BY <1>1 DEF LimitsInv, QueuedInv, WaitInv
<1>5. Rule(asked, seen, Len(seen)) = TimeoutVerdict
  <2>1. cad_wait \in Nat /\ limits.max \in Nat
    BY DEF CadInv, CadTypeOK
  <2>2. ~(cad_wait < limits.max)
    BY <1>1, <2>1
  <2> QED
    BY <1>1, <2>2 DEF CadInv, WaitInv
<1>6. DecisionFollowsReadings'
  BY <1>1, <1>5 DEF CadInv, DecisionFollowsReadings
<1> QED
  BY <1>3, <1>4, <1>6 DEF CadInv

\* The invariant of the two wait loops, for every accepted policy and any SET
\* at any moment.
LEMMA CadWaitInvariant == CadSpec => []CadInv
<1>1. CadInit => CadInv
  <2>1. SUFFICES ASSUME CadInit PROVE CadInv
    OBVIOUS
  <2>2. CadTypeOK
    BY <2>1, PolicyAssumption DEF CadInit, CadTypeOK
  <2> QED
    BY <2>1, <2>2 DEF CadInit, CadInv, LimitsInv, QueuedInv, WaitInv, DecisionFollowsReadings
<1>2. CadInv /\ [CadNext]_cadVars => CadInv'
  <2>1. SUFFICES ASSUME CadInv, [CadNext]_cadVars PROVE CadInv'
    OBVIOUS
  <2>2. CASE UNCHANGED cadVars
    BY <2>1, <2>2, Zenon DEF cadVars, CadInv, CadTypeOK, LimitsInv, QueuedInv, WaitInv,
       DecisionFollowsReadings, Rule, IdleLongEnough, TimeoutVerdict, CountsFree
  <2>3. CASE SetCadWait \/ SetCadIdle \/ SetCadPoll \/ SetCadTxAfterTimeout \/ SetTxMode
    <3>1. PICK p \in Policies : SetPolicy(p)
      <4>1. policy \in Policies
        BY <2>1 DEF CadInv, CadTypeOK
      <4>2. CASE SetCadWait
        BY <4>1, <4>2 DEF SetCadWait, Policies
      <4>3. CASE SetCadIdle
        BY <4>1, <4>3 DEF SetCadIdle, Policies
      <4>4. CASE SetCadPoll
        BY <4>1, <4>4 DEF SetCadPoll, Policies
      <4>5. CASE SetCadTxAfterTimeout
        BY <4>1, <4>5 DEF SetCadTxAfterTimeout, Policies
      <4>6. CASE SetTxMode
        BY <4>1, <4>6 DEF SetTxMode, Policies
      <4> QED
        BY <2>3, <4>2, <4>3, <4>4, <4>5, <4>6
    <3> QED
      BY <2>1, <3>1, SetKeepsCadInv
  <2>4. CASE QueueJob \/ SendDirect
    BY <2>1, <2>4, AcceptKeepsCadInv
  <2>5. CASE BeginJob
    BY <2>1, <2>5, BeginKeepsCadInv
  <2>6. CASE MainProbe \/ WorkerProbe
    BY <2>1, <2>6, ProbeKeepsCadInv
  <2>7. CASE MainTimesOut
    BY <2>1, <2>7, TimeoutKeepsCadInv
  <2> QED
    BY <2>1, <2>2, <2>3, <2>4, <2>5, <2>6, <2>7 DEF CadNext
<1> QED
  BY <1>1, <1>2, PTL DEF CadSpec

\* DecisionFollowsReadings for every accepted policy: direct and queued packets
\* are sent, blocked and timed out by one rule.
THEOREM CadDecides == CadSpec => []DecisionFollowsReadings
<1>1. CadInv => DecisionFollowsReadings
  BY DEF CadInv
<1> QED
  BY <1>1, CadWaitInvariant, PTL

\* SilenceSends for every accepted policy: with CADIDLE no longer than CADWAIT a
\* silent channel is always granted before the time runs out.
THEOREM SilenceIsGranted == CadSpec => []SilenceSends
<1>1. CadInv => SilenceSends
  <2>1. SUFFICES ASSUME CadInv, verdict # "none", asked.managed,
                        asked.idle <= asked.wait,
                        \A i \in 1..Len(seen) : seen[i] = "free"
                 PROVE  verdict = "free"
    BY DEF SilenceSends
  <2> DEFINE n == Len(seen)
  <2>2. /\ verdict = Rule(asked, seen, n) /\ n \in Nat
        /\ asked.wait \in Nat /\ asked.idle \in Nat /\ asked.poll \in Nat \ {0}
    <3>1. seen \in Seq(MainReadings) /\ asked \in Policies
      BY <2>1 DEF CadInv, CadTypeOK
    <3>2. verdict = Rule(asked, seen, n)
      BY <2>1, Zenon DEF CadInv, DecisionFollowsReadings
    <3>3. /\ asked.wait \in Nat /\ asked.idle \in Nat /\ asked.poll \in Nat \ {0}
      BY <3>1, PolicyAssumption DEF Policies
    <3> QED
      BY <3>1, <3>2, <3>3
  <2> HIDE DEF n
  <2>3. n # 0
    BY <2>1, <2>2 DEF Rule
  <2>4. seen[n] = "free"
    BY <2>1, <2>2, <2>3 DEF n
  <2>5. n * asked.poll \in Nat
    BY <2>2
  <2>6. ~(n * asked.poll < asked.wait) => IdleLongEnough(asked, seen, n)
    <3>1. SUFFICES ASSUME ~(n * asked.poll < asked.wait)
                   PROVE  IdleLongEnough(asked, seen, n)
      OBVIOUS
    <3>2. n \in 1..n /\ n * asked.poll >= asked.idle
      BY <2>1, <2>2, <2>3, <2>5, <3>1
    <3>3. \A i \in (n - n + 1)..n : seen[i] = "free"
      BY <2>1, <2>2 DEF n
    <3> QED
      BY <3>2, <3>3 DEF IdleLongEnough
  <2> QED
    BY <2>1, <2>2, <2>3, <2>4, <2>6 DEF Rule
<1> QED
  BY <1>1, CadWaitInvariant, PTL

=============================================================================
