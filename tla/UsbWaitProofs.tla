---------------------------- MODULE UsbWaitProofs ----------------------------
(***************************************************************************)
(* Proofs about UsbWait, for any set of configurations, any queue and      *)
(* event-buffer capacity and any number of connections and events.         *)
(***************************************************************************)
EXTENDS UsbWait, TLAPS

-----------------------------------------------------------------------------
(* Typing.                                                                 *)

\* The Boolean variables.
FlagTypeOK ==
    /\ arrivals \in BOOLEAN /\ lefts \in BOOLEAN
    /\ lost \in BOOLEAN /\ loss_flag \in BOOLEAN
    /\ reopening \in BOOLEAN /\ force_reopen \in BOOLEAN
    /\ reinit_pending \in BOOLEAN /\ retry \in BOOLEAN

\* The bus and the monitor.
BusTypeOK ==
    /\ conn \in 1..MaxConn /\ list \in 0..conn /\ others \in 0..MaxOther
    /\ owed \in Seq(Event) /\ events \in Seq(Event)
    /\ bound \in 0..conn /\ left_bound \in 0..2

\* The radio, the wait and the threads.
CtrlTypeOK ==
    /\ health \in {"READY", "FAILED", "UNPLUGGED", "UNINITIALIZED"}
    /\ driver \in 0..MaxConn /\ rf \in Configs
    /\ owner \in {"none", "main", "worker"}
    /\ record \in Configs /\ replay \in Configs /\ asked \in Configs
    /\ state \in {"READY", "PENDING", "TEARDOWN", "UNPLUGGED"}
    /\ grace \in {"none", "running", "over"}
    /\ snapshot \in 0..MaxConn /\ selected \in 0..MaxConn
    /\ queued \in 0..Capacity
    /\ pc \in [main : {"check", "dispatch", "tick", "drain", "look2", "init",
                       "replay", "replayed", "sockets", "join"},
               worker : {"idle", "probe_lock", "probe", "admit", "send_lock",
                         "send", "lost", "publish", "unlock"}]
    /\ open \subseteq 1..MaxConn
    /\ exit \in {"no", "io_fault", "no_list", "reinit", "crash", "clean"}

-----------------------------------------------------------------------------
(* The bus: a connection that has left never comes back.                   *)

\* A LEFT of the daemon's stick names a connection that is over.
Departures(s) ==
    \A i \in DOMAIN s :
       s[i].left /\ s[i].dev # None => s[i].dev # list /\ s[i].dev <= conn

EventInv == Departures(owed) /\ Departures(events)

\* What the monitor has taken for the bound stick's LEFT was one.
LeftInv == left_bound = 1 => bound # None /\ list # bound

-----------------------------------------------------------------------------
(* The radio and the wait.                                                 *)

\* Where the two threads hold radio_mutex.
MutexInv ==
    /\ owner = "main" <=> pc.main \in {"init", "replay", "replayed"}
    /\ owner = "worker" <=>
          pc.worker \in {"probe", "send", "lost", "publish", "unlock"}

\* A HAL exists unless the wait is on; the monitor is bound to the device the
\* HAL drives, or to the one selected for the next HAL.
BindingInv ==
    /\ pc.main \in {"drain", "look2"} => state = "PENDING"
    /\ pc.main \in {"init", "replay", "replayed"} =>
          state = "UNPLUGGED" /\ reinit_pending
    /\ reinit_pending => state = "UNPLUGGED"
    /\ state # "UNPLUGGED" \/ pc.main \in {"replay", "replayed"} =>
          driver # None /\ bound = driver
    /\ state = "UNPLUGGED" /\ pc.main \notin {"replay", "replayed"} =>
          /\ driver = None /\ ~lost /\ ~loss_flag
          /\ reinit_pending => selected # None /\ bound = selected

\* A loss that is flagged, being classified or being acted on is latched in
\* the HAL; the worker's on_loss runs with the HAL it belongs to.
LossInv ==
    /\ loss_flag \/ state \in {"PENDING", "TEARDOWN"} => lost
    /\ pc.worker \in {"lost", "publish"} => lost /\ driver # None

\* The record holds what the clients have set, the replay what the record
\* held at the teardown.
RecordInv ==
    /\ record = asked
    /\ state = "UNPLUGGED" => replay = asked
    /\ pc.main = "replayed" => rf = asked

\* A usable radio outside the re-init runs with what the clients have set.
\* After a failed SET it may not, but then nothing is queued and the health
\* refuses everything.
ConfigInv ==
    driver # None /\ ~lost /\ owner # "main" =>
       \/ rf = asked
       \/ health = "FAILED" /\ queued = 0 /\ pc.worker = "idle"

\* While the process runs.
RunInv ==
    exit = "no" => /\ MutexInv /\ BindingInv /\ LossInv /\ RecordInv
                   /\ ConfigInv

\* What the runs check.
SafeInv ==
    /\ ReadyMeansAlive /\ GoneMeansGone
    /\ IoFaultMeansPresent /\ TransmitsAsConfigured

-----------------------------------------------------------------------------

\* An event names a device object.
LEMMA EventDevices == 
    ASSUME events \in Seq(Event)
    PROVE  \A i \in DOMAIN events : events[i].dev \in Nat
<1>1. \A i \in DOMAIN events : events[i] \in Event
  OBVIOUS
<1>2. \A e \in Event : e.dev \in Nat
  BY UsbAssumption DEF Event
<1>3. QED
  BY <1>1, <1>2

\* What a dispatch records are events of the queue.
LEMMA RecordedEvents ==
    ASSUME events \in Seq(Event)
    PROVE  \A i \in DOMAIN Recorded :
              i \in DOMAIN events /\ Recorded[i] = events[i]
BY UsbAssumption DEF Recorded

\* libusb's events of a list change join the queue.
LEMMA QueuedEvents ==
    ASSUME owed \in Seq(Event), events \in Seq(Event)
    PROVE  /\ events \o owed \in Seq(Event)
           /\ \A i \in DOMAIN (events \o owed) :
                 \/ i \in DOMAIN events /\ (events \o owed)[i] = events[i]
                 \/ \E j \in DOMAIN owed : (events \o owed)[i] = owed[j]
<1>1. events \o owed \in Seq(Event)
  OBVIOUS
<1>2. ASSUME NEW i \in DOMAIN (events \o owed), i \notin DOMAIN events
      PROVE  \E j \in DOMAIN owed : (events \o owed)[i] = owed[j]
  <2>1. i - Len(events) \in DOMAIN owed
    BY <1>2
  <2>2. (events \o owed)[i] = owed[i - Len(events)]
    BY <1>2
  <2>3. QED
    BY <2>1, <2>2
<1>3. ASSUME NEW i \in DOMAIN events
      PROVE  (events \o owed)[i] = events[i]
  OBVIOUS
<1>4. QED
  BY <1>1, <1>2, <1>3

\* The Boolean variables stay Boolean.
LEMMA FlagsTyped == Spec => []FlagTypeOK
<1>1. Init => FlagTypeOK
  BY Zenon DEF Init, FlagTypeOK
<1>2. FlagTypeOK /\ [Next]_vars => FlagTypeOK'
  <2> SUFFICES ASSUME FlagTypeOK, [Next]_vars
               PROVE  FlagTypeOK'
    OBVIOUS
  <2> USE DEF FlagTypeOK, busVars, monVars, radioVars, waitVars, selVars,
          recVars
  <2>1. CASE Bus
    BY <2>1, Zenon DEF Bus, Unplug, None, Plug, OtherStick, QueueEvent
  <2>2. CASE Clock
    BY <2>2, Zenon DEF Clock
  <2>3. CASE CheckRuntime
    BY <2>3, Zenon DEF CheckRuntime, Go
  <2>4. CASE CheckRuntimeLoss
    BY <2>4, Zenon DEF CheckRuntimeLoss, None, RefuseAdmission, PublishLoss, Go
  <2>5. CASE TickDispatch
    BY <2>5, Zenon DEF TickDispatch, Dispatch, LeftBound, None, Recorded,
       Overflow, Go
  <2>6. CASE TickReady
    BY <2>6, Zenon DEF TickReady, TickReturns, Go
  <2>7. CASE ClassifyGone
    BY <2>7, Zenon DEF ClassifyGone, Classifying, BoundInList, None, Gone,
       GoesTo, TickReturns, Go
  <2>8. CASE ClassifyWaits
    BY <2>8, Zenon DEF ClassifyWaits, Classifying, GoesTo, TickReturns, Go
  <2>9. CASE ClassifyPresent
    BY <2>9, Zenon DEF ClassifyPresent, Classifying, BoundInList, None, GoesTo,
       Go
  <2>10. CASE PresentDrain
    BY <2>10, Zenon DEF PresentDrain, Dispatch, LeftBound, None, Recorded,
       Overflow, Go
  <2>11. CASE SecondLookGone
    BY <2>11, Zenon DEF SecondLookGone, BoundInList, None, Gone, GoesTo,
       TickReturns, Go
  <2>12. CASE SecondLookPresent
    BY <2>12, Zenon DEF SecondLookPresent, BoundInList, None, Fatal
  <2>13. CASE ListFails
    BY <2>13, Zenon DEF ListFails, Classifying, Fatal, None
  <2>14. CASE TeardownBusy
    BY <2>14, Zenon DEF TeardownBusy, TickReturns, Go
  <2>15. CASE Teardown
    BY <2>15, Zenon DEF Teardown, CopyReplay, None, ForceReopen, Go
  <2>16. CASE KeepWaiting
    BY <2>16, Zenon DEF KeepWaiting, Waiting, NewChange, TickReturns, Go
  <2>17. CASE SelectBegin
    BY <2>17, Zenon DEF SelectBegin, Waiting, NewChange, TakeChanges,
       TickReturns, Go
  <2>18. CASE SelectStale
    BY <2>18, Zenon DEF SelectStale, Waiting, NewChange, TakeChanges,
       FinishWait, None, TickReturns, Go
  <2>19. CASE SelectRefuse
    BY <2>19, Zenon DEF SelectRefuse, Waiting, NewChange, None, FinishWait,
       TickReturns, Go
  <2>20. CASE SelectOpenFails
    BY <2>20, Zenon DEF SelectOpenFails, Waiting, NewChange, None, FinishWait,
       TickReturns, Go
  <2>21. CASE SelectOpened
    BY <2>21, Zenon DEF SelectOpened, Waiting, NewChange, None
  <2>22. CASE ReinitBusy
    BY <2>22, Zenon DEF ReinitBusy, TickReturns, Go
  <2>23. CASE ReinitLock
    BY <2>23, Zenon DEF ReinitLock, Go
  <2>24. CASE InitRadio
    BY <2>24, Zenon DEF InitRadio, TakeSelected, None, Go
  <2>25. CASE InitRadioFails
    BY <2>25, Zenon DEF InitRadioFails, TakeSelected, None, Fatal
  <2>26. CASE Replay
    BY <2>26, Zenon DEF Replay, MayWork, Go
  <2>27. CASE ReplayLoss
    BY <2>27, Zenon DEF ReplayLoss, RefuseAdmission, PublishLoss, Go
  <2>28. CASE ReplayFails
    BY <2>28, Zenon DEF ReplayFails, MayWork, Fatal, None
  <2>29. CASE ReinitReturns
    BY <2>29, Zenon DEF ReinitReturns, ReinitEnds, Go
  <2>30. CASE SubmitJob
    BY <2>30, Zenon DEF SubmitJob, Ready, QueueFull
  <2>31. CASE ConfigApplied
    BY <2>31, Zenon DEF ConfigApplied, ConfigAdmitted, Ready, None, MayWork
  <2>32. CASE ConfigHwError
    BY <2>32, Zenon DEF ConfigHwError, ConfigAdmitted, Ready, None, MayWork,
       PublishLoss
  <2>33. CASE PassEnds
    BY <2>33, Zenon DEF PassEnds, Go
  <2>34. CASE StopRequest
    BY <2>34, Zenon DEF StopRequest, Go
  <2>35. CASE Shutdown
    BY <2>35, Zenon DEF Shutdown, ClosesDevices, None
  <2>36. CASE WorkerTakesJob
    BY <2>36, Zenon DEF WorkerTakesJob, Go
  <2>37. CASE ProbeLock
    BY <2>37, Zenon DEF ProbeLock, Go
  <2>38. CASE Probe
    BY <2>38, Zenon DEF Probe, Ready, MayWork, Go
  <2>39. CASE Admit
    BY <2>39, Zenon DEF Admit, Go, Ready, None
  <2>40. CASE SendLock
    BY <2>40, Zenon DEF SendLock, Go
  <2>41. CASE Send
    BY <2>41, Zenon DEF Send, None, MayWork, Go
  <2>42. CASE SendWithoutDriver
    BY <2>42, Zenon DEF SendWithoutDriver, None
  <2>43. CASE WorkerLoss
    BY <2>43, Zenon DEF WorkerLoss, Ready, None, Go
  <2>44. CASE WorkerRefuses
    BY <2>44, Zenon DEF WorkerRefuses, RefuseAdmission, Go
  <2>45. CASE WorkerPublishes
    BY <2>45, Zenon DEF WorkerPublishes, PublishLoss, Go
  <2>46. CASE WorkerUnlocks
    BY <2>46, Zenon DEF WorkerUnlocks, Go
  <2>47. CASE UNCHANGED vars
    BY <2>47, Zenon DEF vars
  <2>48. QED
    BY <2>1, <2>2, <2>3, <2>4, <2>5, <2>6, <2>7, <2>8, <2>9, <2>10, <2>11,
       <2>12, <2>13, <2>14, <2>15, <2>16, <2>17, <2>18, <2>19, <2>20, <2>21,
       <2>22, <2>23, <2>24, <2>25, <2>26, <2>27, <2>28, <2>29, <2>30, <2>31,
       <2>32, <2>33, <2>34, <2>35, <2>36, <2>37, <2>38, <2>39, <2>40, <2>41,
       <2>42, <2>43, <2>44, <2>45, <2>46, <2>47
       DEF Next, Main, Tick, Worker, Ended
<1>3. QED
  BY <1>1, <1>2, PTL DEF Spec

\* The bus and the monitor stay in their ranges.  A connection is never listed
\* again once its LEFT is under way, and what left_bound = 1 says is true.
LEMMA BusTyped == Spec => [](BusTypeOK /\ EventInv /\ LeftInv)
<1>1. Init => BusTypeOK /\ EventInv /\ LeftInv
  BY UsbAssumption DEF Init, BusTypeOK, EventInv, LeftInv, Event, None,
     Departures
<1>2. BusTypeOK /\ EventInv /\ LeftInv /\ [Next]_vars
      => BusTypeOK' /\ EventInv' /\ LeftInv'
  <2> SUFFICES ASSUME BusTypeOK, EventInv, LeftInv, [Next]_vars
               PROVE  BusTypeOK' /\ EventInv' /\ LeftInv'
    OBVIOUS
  <2> USE UsbAssumption DEF BusTypeOK, EventInv, LeftInv, Event, None,
          Departures, busVars, monVars, radioVars, waitVars, selVars, recVars
  <2>1. CASE Bus
    <3>0. UNCHANGED <<monVars, radioVars, owner, recVars, waitVars, selVars,
                        queued, pc, open, exit>>
      BY <2>1 DEF Bus
    <3>1. CASE Unplug
      BY <3>0, <3>1 DEF Unplug
    <3>2. CASE Plug
      <4>1. BusTypeOK' /\ LeftInv'
        BY <3>0, <3>2 DEF Plug
      <4>2. Departures(events)'
        BY <3>0, <3>2, EventDevices DEF Plug
      <4>3. Departures(owed)'
        BY <3>0, <3>2 DEF Plug
      <4>4. QED
        BY <4>1, <4>2, <4>3
    <3>3. CASE OtherStick
      BY <3>0, <3>3 DEF OtherStick
    <3>4. CASE QueueEvent
      <4>1. BusTypeOK' /\ LeftInv' /\ Departures(owed)'
        BY <3>0, <3>4, QueuedEvents DEF QueueEvent
      <4>2. ASSUME NEW i \in DOMAIN (events \o owed)
            PROVE  \/ \E j \in DOMAIN events : (events \o owed)[i] = events[j]
                   \/ \E j \in DOMAIN owed : (events \o owed)[i] = owed[j]
        BY QueuedEvents
      <4>3. Departures(events \o owed)
        BY <4>2
      <4>4. Departures(events)'
        BY <3>0, <3>4, <4>3 DEF QueueEvent
      <4>5. QED
        BY <4>1, <4>4
    <3>5. QED
      BY <2>1, <3>1, <3>2, <3>3, <3>4 DEF Bus
  <2>2. CASE Clock
    BY <2>2 DEF Clock
  <2>3. CASE CheckRuntime
    BY <2>3 DEF CheckRuntime, Go
  <2>4. CASE CheckRuntimeLoss
    BY <2>4 DEF CheckRuntimeLoss, RefuseAdmission, PublishLoss, Go
  <2>5. CASE TickDispatch
    BY <2>5, RecordedEvents DEF TickDispatch, Dispatch, LeftBound, Overflow, Go
  <2>6. CASE TickReady
    BY <2>6 DEF TickReady, TickReturns, Go
  <2>7. CASE ClassifyGone
    BY <2>7 DEF ClassifyGone, Classifying, BoundInList, Gone, GoesTo,
       TickReturns, Go
  <2>8. CASE ClassifyWaits
    BY <2>8 DEF ClassifyWaits, Classifying, GoesTo, TickReturns, Go
  <2>9. CASE ClassifyPresent
    BY <2>9 DEF ClassifyPresent, Classifying, BoundInList, GoesTo, Go
  <2>10. CASE PresentDrain
    BY <2>10, RecordedEvents DEF PresentDrain, Dispatch, LeftBound, Overflow,
       Go
  <2>11. CASE SecondLookGone
    BY <2>11 DEF SecondLookGone, BoundInList, Gone, GoesTo, TickReturns, Go
  <2>12. CASE SecondLookPresent
    BY <2>12 DEF SecondLookPresent, BoundInList, Fatal
  <2>13. CASE ListFails
    BY <2>13 DEF ListFails, Classifying, Fatal
  <2>14. CASE TeardownBusy
    BY <2>14 DEF TeardownBusy, TickReturns, Go
  <2>15. CASE Teardown
    BY <2>15 DEF Teardown, CopyReplay, ForceReopen, Go
  <2>16. CASE KeepWaiting
    BY <2>16 DEF KeepWaiting, Waiting, NewChange, TickReturns, Go
  <2>17. CASE SelectBegin
    BY <2>17 DEF SelectBegin, Waiting, NewChange, TakeChanges, TickReturns, Go
  <2>18. CASE SelectStale
    BY <2>18 DEF SelectStale, Waiting, NewChange, TakeChanges, FinishWait,
       TickReturns, Go
  <2>19. CASE SelectRefuse
    BY <2>19 DEF SelectRefuse, Waiting, NewChange, FinishWait, TickReturns, Go
  <2>20. CASE SelectOpenFails
    BY <2>20 DEF SelectOpenFails, Waiting, NewChange, FinishWait, TickReturns,
       Go
  <2>21. CASE SelectOpened
    BY <2>21 DEF SelectOpened, Waiting, NewChange
  <2>22. CASE ReinitBusy
    BY <2>22 DEF ReinitBusy, TickReturns, Go
  <2>23. CASE ReinitLock
    BY <2>23 DEF ReinitLock, Go
  <2>24. CASE InitRadio
    BY <2>24 DEF InitRadio, TakeSelected, Go
  <2>25. CASE InitRadioFails
    BY <2>25 DEF InitRadioFails, TakeSelected, Fatal
  <2>26. CASE Replay
    BY <2>26 DEF Replay, MayWork, Go
  <2>27. CASE ReplayLoss
    BY <2>27 DEF ReplayLoss, RefuseAdmission, PublishLoss, Go
  <2>28. CASE ReplayFails
    BY <2>28 DEF ReplayFails, MayWork, Fatal
  <2>29. CASE ReinitReturns
    BY <2>29 DEF ReinitReturns, ReinitEnds, Go
  <2>30. CASE SubmitJob
    BY <2>30 DEF SubmitJob, Ready, QueueFull
  <2>31. CASE ConfigApplied
    BY <2>31 DEF ConfigApplied, ConfigAdmitted, Ready, MayWork
  <2>32. CASE ConfigHwError
    BY <2>32 DEF ConfigHwError, ConfigAdmitted, Ready, MayWork, PublishLoss
  <2>33. CASE PassEnds
    BY <2>33 DEF PassEnds, Go
  <2>34. CASE StopRequest
    BY <2>34 DEF StopRequest, Go
  <2>35. CASE Shutdown
    BY <2>35 DEF Shutdown, ClosesDevices
  <2>36. CASE WorkerTakesJob
    BY <2>36 DEF WorkerTakesJob, Go
  <2>37. CASE ProbeLock
    BY <2>37 DEF ProbeLock, Go
  <2>38. CASE Probe
    BY <2>38 DEF Probe, Ready, MayWork, Go
  <2>39. CASE Admit
    BY <2>39 DEF Admit, Go, Ready
  <2>40. CASE SendLock
    BY <2>40 DEF SendLock, Go
  <2>41. CASE Send
    BY <2>41 DEF Send, MayWork, Go
  <2>42. CASE SendWithoutDriver
    BY <2>42 DEF SendWithoutDriver
  <2>43. CASE WorkerLoss
    BY <2>43 DEF WorkerLoss, Ready, Go
  <2>44. CASE WorkerRefuses
    BY <2>44 DEF WorkerRefuses, RefuseAdmission, Go
  <2>45. CASE WorkerPublishes
    BY <2>45 DEF WorkerPublishes, PublishLoss, Go
  <2>46. CASE WorkerUnlocks
    BY <2>46 DEF WorkerUnlocks, Go
  <2>47. CASE UNCHANGED vars
    BY <2>47 DEF vars
  <2>48. QED
    BY <2>1, <2>2, <2>3, <2>4, <2>5, <2>6, <2>7, <2>8, <2>9, <2>10, <2>11,
       <2>12, <2>13, <2>14, <2>15, <2>16, <2>17, <2>18, <2>19, <2>20, <2>21,
       <2>22, <2>23, <2>24, <2>25, <2>26, <2>27, <2>28, <2>29, <2>30, <2>31,
       <2>32, <2>33, <2>34, <2>35, <2>36, <2>37, <2>38, <2>39, <2>40, <2>41,
       <2>42, <2>43, <2>44, <2>45, <2>46, <2>47
       DEF Next, Main, Tick, Worker, Ended
<1>3. QED
  BY <1>1, <1>2, PTL DEF Spec

\* The other variables stay in their ranges.
LEMMA CtrlTyped == Spec => []CtrlTypeOK
<1>1. Init => CtrlTypeOK
  BY UsbAssumption DEF Init, CtrlTypeOK, None
<1>2. CtrlTypeOK /\ BusTypeOK /\ [Next]_vars => CtrlTypeOK'
  <2> SUFFICES ASSUME CtrlTypeOK, BusTypeOK, [Next]_vars
               PROVE  CtrlTypeOK'
    OBVIOUS
  <2> USE UsbAssumption DEF CtrlTypeOK, BusTypeOK, None, busVars, monVars,
          radioVars, waitVars, selVars, recVars
  <2>1. CASE Bus
    BY <2>1 DEF Bus, Unplug, Plug, OtherStick, QueueEvent
  <2>2. CASE Clock
    BY <2>2 DEF Clock
  <2>3. CASE CheckRuntime
    BY <2>3 DEF CheckRuntime, Go
  <2>4. CASE CheckRuntimeLoss
    BY <2>4 DEF CheckRuntimeLoss, RefuseAdmission, PublishLoss, Go
  <2>5. CASE TickDispatch
    BY <2>5 DEF TickDispatch, Dispatch, Go
  <2>6. CASE TickReady
    BY <2>6 DEF TickReady, TickReturns, Go
  <2>7. CASE ClassifyGone
    BY <2>7 DEF ClassifyGone, Classifying, BoundInList, Gone, GoesTo,
       TickReturns, Go
  <2>8. CASE ClassifyWaits
    BY <2>8 DEF ClassifyWaits, Classifying, GoesTo, TickReturns, Go
  <2>9. CASE ClassifyPresent
    BY <2>9 DEF ClassifyPresent, Classifying, BoundInList, GoesTo, Go
  <2>10. CASE PresentDrain
    BY <2>10 DEF PresentDrain, Dispatch, Go
  <2>11. CASE SecondLookGone
    BY <2>11 DEF SecondLookGone, BoundInList, Gone, GoesTo, TickReturns, Go
  <2>12. CASE SecondLookPresent
    BY <2>12 DEF SecondLookPresent, BoundInList, Fatal
  <2>13. CASE ListFails
    BY <2>13 DEF ListFails, Classifying, Fatal
  <2>14. CASE TeardownBusy
    BY <2>14 DEF TeardownBusy, TickReturns, Go
  <2>15. CASE Teardown
    BY <2>15 DEF Teardown, CopyReplay, ForceReopen, Go
  <2>16. CASE KeepWaiting
    BY <2>16 DEF KeepWaiting, Waiting, NewChange, TickReturns, Go
  <2>17. CASE SelectBegin
    <3>1. /\ pc.main = "tick" /\ pc' = [pc EXCEPT !["main"] = "sockets"]
          /\ snapshot' = list \/ snapshot' = snapshot
          /\ UNCHANGED <<health, driver, rf, owner, recVars, state, grace,
                         selected, queued, open, exit>>
      BY <2>17, Zenon DEF SelectBegin, Waiting, TickReturns, Go
    <3>2. QED
      BY <3>1
  <2>18. CASE SelectStale
    BY <2>18 DEF SelectStale, Waiting, NewChange, TakeChanges, FinishWait,
       TickReturns, Go
  <2>19. CASE SelectRefuse
    BY <2>19 DEF SelectRefuse, Waiting, NewChange, FinishWait, TickReturns, Go
  <2>20. CASE SelectOpenFails
    BY <2>20 DEF SelectOpenFails, Waiting, NewChange, FinishWait, TickReturns,
       Go
  <2>21. CASE SelectOpened
    BY <2>21 DEF SelectOpened, Waiting, NewChange
  <2>22. CASE ReinitBusy
    BY <2>22 DEF ReinitBusy, TickReturns, Go
  <2>23. CASE ReinitLock
    BY <2>23 DEF ReinitLock, Go
  <2>24. CASE InitRadio
    BY <2>24 DEF InitRadio, TakeSelected, Go
  <2>25. CASE InitRadioFails
    BY <2>25 DEF InitRadioFails, TakeSelected, Fatal
  <2>26. CASE Replay
    BY <2>26 DEF Replay, MayWork, Go
  <2>27. CASE ReplayLoss
    BY <2>27 DEF ReplayLoss, RefuseAdmission, PublishLoss, Go
  <2>28. CASE ReplayFails
    BY <2>28 DEF ReplayFails, MayWork, Fatal
  <2>29. CASE ReinitReturns
    BY <2>29 DEF ReinitReturns, ReinitEnds, Go
  <2>30. CASE SubmitJob
    BY <2>30 DEF SubmitJob, Ready, QueueFull
  <2>31. CASE ConfigApplied
    BY <2>31 DEF ConfigApplied, ConfigAdmitted, Ready, MayWork
  <2>32. CASE ConfigHwError
    BY <2>32 DEF ConfigHwError, ConfigAdmitted, Ready, MayWork, PublishLoss
  <2>33. CASE PassEnds
    BY <2>33 DEF PassEnds, Go
  <2>34. CASE StopRequest
    BY <2>34 DEF StopRequest, Go
  <2>35. CASE Shutdown
    BY <2>35 DEF Shutdown, ClosesDevices
  <2>36. CASE WorkerTakesJob
    <3>1. PICK first \in {"probe_lock", "admit"} : Go("worker", first)
      BY <2>36 DEF WorkerTakesJob
    <3>2. /\ pc' \in [main : {"check", "dispatch", "tick", "drain", "look2",
                               "init", "replay", "replayed", "sockets", "join"},
                       worker : {"idle", "probe_lock", "probe", "admit",
                                 "send_lock", "send", "lost", "publish",
                                 "unlock"}]
      BY <3>1 DEF Go
    <3>3. queued' \in 0..Capacity
      BY <2>36 DEF WorkerTakesJob
    <3>4. QED
      BY <2>36, <3>2, <3>3 DEF WorkerTakesJob
  <2>37. CASE ProbeLock
    BY <2>37 DEF ProbeLock, Go
  <2>38. CASE Probe
    BY <2>38 DEF Probe, Ready, MayWork, Go
  <2>39. CASE Admit
    BY <2>39 DEF Admit, Go, Ready
  <2>40. CASE SendLock
    BY <2>40 DEF SendLock, Go
  <2>41. CASE Send
    BY <2>41 DEF Send, MayWork, Go
  <2>42. CASE SendWithoutDriver
    BY <2>42 DEF SendWithoutDriver
  <2>43. CASE WorkerLoss
    BY <2>43 DEF WorkerLoss, Ready, Go
  <2>44. CASE WorkerRefuses
    BY <2>44 DEF WorkerRefuses, RefuseAdmission, Go
  <2>45. CASE WorkerPublishes
    BY <2>45 DEF WorkerPublishes, PublishLoss, Go
  <2>46. CASE WorkerUnlocks
    BY <2>46 DEF WorkerUnlocks, Go
  <2>47. CASE UNCHANGED vars
    BY <2>47 DEF vars
  <2>48. QED
    BY <2>1, <2>2, <2>3, <2>4, <2>5, <2>6, <2>7, <2>8, <2>9, <2>10, <2>11,
       <2>12, <2>13, <2>14, <2>15, <2>16, <2>17, <2>18, <2>19, <2>20, <2>21,
       <2>22, <2>23, <2>24, <2>25, <2>26, <2>27, <2>28, <2>29, <2>30, <2>31,
       <2>32, <2>33, <2>34, <2>35, <2>36, <2>37, <2>38, <2>39, <2>40, <2>41,
       <2>42, <2>43, <2>44, <2>45, <2>46, <2>47
       DEF Next, Main, Tick, Worker, Ended
<1>3. QED
  BY <1>1, <1>2, BusTyped, PTL DEF Spec

\* While the process runs: who holds radio_mutex, which HAL there is and what
\* the monitor is bound to, which losses are latched, and what the radio runs with.
LEMMA Running == Spec => []RunInv
<1>1. Init => RunInv
  BY UsbAssumption DEF Init, RunInv, None, MutexInv, BindingInv, LossInv,
     RecordInv, ConfigInv
<1>2. RunInv /\ FlagTypeOK /\ BusTypeOK /\ LeftInv /\ CtrlTypeOK /\ [Next]_vars
      => RunInv'
  <2> SUFFICES ASSUME RunInv, FlagTypeOK, BusTypeOK, LeftInv, CtrlTypeOK,
                        [Next]_vars
               PROVE  RunInv'
    OBVIOUS
  <2> USE UsbAssumption DEF RunInv, FlagTypeOK, BusTypeOK, LeftInv, CtrlTypeOK,
          None, MutexInv, BindingInv, LossInv, RecordInv, ConfigInv, busVars,
          monVars, radioVars, waitVars, selVars, recVars
  <2>1. CASE Bus
    BY <2>1 DEF Bus, Unplug, Plug, OtherStick, QueueEvent
  <2>2. CASE Clock
    BY <2>2 DEF Clock
  <2>3. CASE CheckRuntime
    BY <2>3 DEF CheckRuntime, Go
  <2>4. CASE CheckRuntimeLoss
    BY <2>4 DEF CheckRuntimeLoss, RefuseAdmission, PublishLoss, Go
  <2>5. CASE TickDispatch
    BY <2>5 DEF TickDispatch, Dispatch, Go
  <2>6. CASE TickReady
    BY <2>6 DEF TickReady, TickReturns, Go
  <2>7. CASE ClassifyGone
    BY <2>7 DEF ClassifyGone, Classifying, BoundInList, Gone, GoesTo,
       TickReturns, Go
  <2>8. CASE ClassifyWaits
    BY <2>8 DEF ClassifyWaits, Classifying, GoesTo, TickReturns, Go
  <2>9. CASE ClassifyPresent
    BY <2>9 DEF ClassifyPresent, Classifying, BoundInList, GoesTo, Go
  <2>10. CASE PresentDrain
    BY <2>10 DEF PresentDrain, Dispatch, Go
  <2>11. CASE SecondLookGone
    BY <2>11 DEF SecondLookGone, BoundInList, Gone, GoesTo, TickReturns, Go
  <2>12. CASE SecondLookPresent
    BY <2>12 DEF SecondLookPresent, BoundInList, Fatal
  <2>13. CASE ListFails
    BY <2>13 DEF ListFails, Classifying, Fatal
  <2>14. CASE TeardownBusy
    BY <2>14 DEF TeardownBusy, TickReturns, Go
  <2>15. CASE Teardown
    BY <2>15 DEF Teardown, CopyReplay, ForceReopen, Go
  <2>16. CASE KeepWaiting
    BY <2>16 DEF KeepWaiting, Waiting, NewChange, TickReturns, Go
  <2>17. CASE SelectBegin
    BY <2>17 DEF SelectBegin, Waiting, NewChange, TakeChanges, TickReturns, Go
  <2>18. CASE SelectStale
    BY <2>18 DEF SelectStale, Waiting, NewChange, TakeChanges, FinishWait,
       TickReturns, Go
  <2>19. CASE SelectRefuse
    BY <2>19 DEF SelectRefuse, Waiting, NewChange, FinishWait, TickReturns, Go
  <2>20. CASE SelectOpenFails
    BY <2>20 DEF SelectOpenFails, Waiting, NewChange, FinishWait, TickReturns,
       Go
  <2>21. CASE SelectOpened
    BY <2>21 DEF SelectOpened, Waiting, NewChange
  <2>22. CASE ReinitBusy
    BY <2>22 DEF ReinitBusy, TickReturns, Go
  <2>23. CASE ReinitLock
    BY <2>23 DEF ReinitLock, Go
  <2>24. CASE InitRadio
    BY <2>24 DEF InitRadio, TakeSelected, Go
  <2>25. CASE InitRadioFails
    BY <2>25 DEF InitRadioFails, TakeSelected, Fatal
  <2>26. CASE Replay
    BY <2>26 DEF Replay, MayWork, Go
  <2>27. CASE ReplayLoss
    BY <2>27 DEF ReplayLoss, RefuseAdmission, PublishLoss, Go
  <2>28. CASE ReplayFails
    BY <2>28 DEF ReplayFails, MayWork, Fatal
  <2>29. CASE ReinitReturns
    BY <2>29 DEF ReinitReturns, ReinitEnds, Go
  <2>30. CASE SubmitJob
    BY <2>30 DEF SubmitJob, Ready, QueueFull
  <2>31. CASE ConfigApplied
    BY <2>31 DEF ConfigApplied, ConfigAdmitted, Ready, MayWork
  <2>32. CASE ConfigHwError
    BY <2>32 DEF ConfigHwError, ConfigAdmitted, Ready, MayWork, PublishLoss
  <2>33. CASE PassEnds
    BY <2>33 DEF PassEnds, Go
  <2>34. CASE StopRequest
    BY <2>34 DEF StopRequest, Go
  <2>35. CASE Shutdown
    BY <2>35 DEF Shutdown, ClosesDevices
  <2>36. CASE WorkerTakesJob
    BY <2>36 DEF WorkerTakesJob, Go
  <2>37. CASE ProbeLock
    BY <2>37 DEF ProbeLock, Go
  <2>38. CASE Probe
    BY <2>38 DEF Probe, Ready, MayWork, Go
  <2>39. CASE Admit
    BY <2>39 DEF Admit, Go, Ready
  <2>40. CASE SendLock
    BY <2>40 DEF SendLock, Go
  <2>41. CASE Send
    BY <2>41 DEF Send, MayWork, Go
  <2>42. CASE SendWithoutDriver
    BY <2>42 DEF SendWithoutDriver
  <2>43. CASE WorkerLoss
    BY <2>43 DEF WorkerLoss, Ready, Go
  <2>44. CASE WorkerRefuses
    BY <2>44 DEF WorkerRefuses, RefuseAdmission, Go
  <2>45. CASE WorkerPublishes
    BY <2>45 DEF WorkerPublishes, PublishLoss, Go
  <2>46. CASE WorkerUnlocks
    BY <2>46 DEF WorkerUnlocks, Go
  <2>47. CASE UNCHANGED vars
    BY <2>47 DEF vars
  <2>48. QED
    BY <2>1, <2>2, <2>3, <2>4, <2>5, <2>6, <2>7, <2>8, <2>9, <2>10, <2>11,
       <2>12, <2>13, <2>14, <2>15, <2>16, <2>17, <2>18, <2>19, <2>20, <2>21,
       <2>22, <2>23, <2>24, <2>25, <2>26, <2>27, <2>28, <2>29, <2>30, <2>31,
       <2>32, <2>33, <2>34, <2>35, <2>36, <2>37, <2>38, <2>39, <2>40, <2>41,
       <2>42, <2>43, <2>44, <2>45, <2>46, <2>47
       DEF Next, Main, Tick, Worker, Ended
<1>3. QED
  BY <1>1, <1>2, FlagsTyped, BusTyped, CtrlTyped, PTL DEF Spec

\* The four safety properties, the last steps of the process included.
LEMMA Safety == Spec => []SafeInv
<1>1. Init => SafeInv
  BY UsbAssumption DEF Init, SafeInv, None, Ready, ReadyMeansAlive,
     GoneMeansGone, IoFaultMeansPresent, TransmitsAsConfigured
<1>2. SafeInv /\ RunInv /\ FlagTypeOK /\ BusTypeOK /\ LeftInv /\ CtrlTypeOK /\
      [Next]_vars
      => SafeInv'
  <2> SUFFICES ASSUME SafeInv, RunInv, FlagTypeOK, BusTypeOK, LeftInv,
                        CtrlTypeOK, [Next]_vars
               PROVE  SafeInv'
    OBVIOUS
  <2> SUFFICES ASSUME exit = "no"
               PROVE  SafeInv'
    <3>1. CASE exit # "no"
      <4>1. UNCHANGED vars
        BY <3>1 DEF Next, Ended
      <4>2. QED
        BY <4>1 DEF vars, busVars, monVars, radioVars, recVars, waitVars,
           selVars, SafeInv, ReadyMeansAlive, GoneMeansGone, IoFaultMeansPresent,
           TransmitsAsConfigured, Ready
    <3>2. QED
      BY <3>1
  <2> USE UsbAssumption DEF SafeInv, RunInv, FlagTypeOK, BusTypeOK, LeftInv,
          CtrlTypeOK, None, Ready, BoundInList, MutexInv, BindingInv, LossInv,
          RecordInv, ConfigInv, ReadyMeansAlive, GoneMeansGone,
          IoFaultMeansPresent, TransmitsAsConfigured, busVars, monVars,
          radioVars, waitVars, selVars, recVars
  <2>1. CASE Bus
    BY <2>1 DEF Bus, Unplug, Plug, OtherStick, QueueEvent
  <2>2. CASE Clock
    BY <2>2 DEF Clock
  <2>3. CASE CheckRuntime
    BY <2>3 DEF CheckRuntime, Go
  <2>4. CASE CheckRuntimeLoss
    BY <2>4 DEF CheckRuntimeLoss, RefuseAdmission, PublishLoss, Go
  <2>5. CASE TickDispatch
    BY <2>5 DEF TickDispatch, Dispatch, Go
  <2>6. CASE TickReady
    BY <2>6 DEF TickReady, TickReturns, Go
  <2>7. CASE ClassifyGone
    BY <2>7 DEF ClassifyGone, Classifying, Gone, GoesTo, TickReturns, Go
  <2>8. CASE ClassifyWaits
    BY <2>8 DEF ClassifyWaits, Classifying, GoesTo, TickReturns, Go
  <2>9. CASE ClassifyPresent
    BY <2>9 DEF ClassifyPresent, Classifying, GoesTo, Go
  <2>10. CASE PresentDrain
    BY <2>10 DEF PresentDrain, Dispatch, Go
  <2>11. CASE SecondLookGone
    BY <2>11 DEF SecondLookGone, Gone, GoesTo, TickReturns, Go
  <2>12. CASE SecondLookPresent
    BY <2>12 DEF SecondLookPresent, Fatal
  <2>13. CASE ListFails
    BY <2>13 DEF ListFails, Classifying, Fatal
  <2>14. CASE TeardownBusy
    BY <2>14 DEF TeardownBusy, TickReturns, Go
  <2>15. CASE Teardown
    BY <2>15 DEF Teardown, CopyReplay, ForceReopen, Go
  <2>16. CASE KeepWaiting
    BY <2>16 DEF KeepWaiting, Waiting, NewChange, TickReturns, Go
  <2>17. CASE SelectBegin
    BY <2>17 DEF SelectBegin, Waiting, NewChange, TakeChanges, TickReturns, Go
  <2>18. CASE SelectStale
    BY <2>18 DEF SelectStale, Waiting, NewChange, TakeChanges, FinishWait,
       TickReturns, Go
  <2>19. CASE SelectRefuse
    BY <2>19 DEF SelectRefuse, Waiting, NewChange, FinishWait, TickReturns, Go
  <2>20. CASE SelectOpenFails
    BY <2>20 DEF SelectOpenFails, Waiting, NewChange, FinishWait, TickReturns,
       Go
  <2>21. CASE SelectOpened
    BY <2>21 DEF SelectOpened, Waiting, NewChange
  <2>22. CASE ReinitBusy
    BY <2>22 DEF ReinitBusy, TickReturns, Go
  <2>23. CASE ReinitLock
    BY <2>23 DEF ReinitLock, Go
  <2>24. CASE InitRadio
    BY <2>24 DEF InitRadio, TakeSelected, Go
  <2>25. CASE InitRadioFails
    BY <2>25 DEF InitRadioFails, TakeSelected, Fatal
  <2>26. CASE Replay
    BY <2>26 DEF Replay, MayWork, Go
  <2>27. CASE ReplayLoss
    BY <2>27 DEF ReplayLoss, RefuseAdmission, PublishLoss, Go
  <2>28. CASE ReplayFails
    BY <2>28 DEF ReplayFails, MayWork, Fatal
  <2>29. CASE ReinitReturns
    BY <2>29 DEF ReinitReturns, ReinitEnds, Go
  <2>30. CASE SubmitJob
    BY <2>30 DEF SubmitJob, QueueFull
  <2>31. CASE ConfigApplied
    BY <2>31 DEF ConfigApplied, ConfigAdmitted, MayWork
  <2>32. CASE ConfigHwError
    BY <2>32 DEF ConfigHwError, ConfigAdmitted, MayWork, PublishLoss
  <2>33. CASE PassEnds
    BY <2>33 DEF PassEnds, Go
  <2>34. CASE StopRequest
    BY <2>34 DEF StopRequest, Go
  <2>35. CASE Shutdown
    BY <2>35 DEF Shutdown, ClosesDevices
  <2>36. CASE WorkerTakesJob
    BY <2>36 DEF WorkerTakesJob, Go
  <2>37. CASE ProbeLock
    BY <2>37 DEF ProbeLock, Go
  <2>38. CASE Probe
    BY <2>38 DEF Probe, MayWork, Go
  <2>39. CASE Admit
    BY <2>39 DEF Admit, Go
  <2>40. CASE SendLock
    BY <2>40 DEF SendLock, Go
  <2>41. CASE Send
    BY <2>41 DEF Send, MayWork, Go
  <2>42. CASE SendWithoutDriver
    BY <2>42 DEF SendWithoutDriver
  <2>43. CASE WorkerLoss
    BY <2>43 DEF WorkerLoss, Go
  <2>44. CASE WorkerRefuses
    BY <2>44 DEF WorkerRefuses, RefuseAdmission, Go
  <2>45. CASE WorkerPublishes
    BY <2>45 DEF WorkerPublishes, PublishLoss, Go
  <2>46. CASE WorkerUnlocks
    BY <2>46 DEF WorkerUnlocks, Go
  <2>47. CASE UNCHANGED vars
    BY <2>47 DEF vars
  <2>48. QED
    BY <2>1, <2>2, <2>3, <2>4, <2>5, <2>6, <2>7, <2>8, <2>9, <2>10, <2>11,
       <2>12, <2>13, <2>14, <2>15, <2>16, <2>17, <2>18, <2>19, <2>20, <2>21,
       <2>22, <2>23, <2>24, <2>25, <2>26, <2>27, <2>28, <2>29, <2>30, <2>31,
       <2>32, <2>33, <2>34, <2>35, <2>36, <2>37, <2>38, <2>39, <2>40, <2>41,
       <2>42, <2>43, <2>44, <2>45, <2>46, <2>47
       DEF Next, Main, Tick, Worker, Ended
<1>3. QED
  BY <1>1, <1>2, Running, FlagsTyped, BusTyped, CtrlTyped, PTL DEF Spec

\* Every variable stays in its range.
THEOREM TypeCorrect == Spec => []TypeOK
<1>1. FlagTypeOK /\ BusTypeOK /\ CtrlTypeOK => TypeOK
  BY UsbAssumption DEF FlagTypeOK, BusTypeOK, CtrlTypeOK, TypeOK
<1>2. QED
  BY <1>1, FlagsTyped, BusTyped, CtrlTyped, PTL

\* READY is reported only with a driver whose HAL has latched no loss, but for
\* the worker between its latch and on_loss's first store: neither that late
\* store nor op_reinit's READY covers a loss.
THEOREM ReadyIsAlive == Spec => []ReadyMeansAlive
BY Safety, PTL DEF SafeInv

\* The classification tears the radio down only for a connection that has left
\* the bus, with any number of lost events and of events of other sticks.
THEOREM TornDownOnlyWhenGone == Spec => []GoneMeansGone
BY Safety, PTL DEF SafeInv

\* The exit for an I/O error with the stick present is taken only for the HAL
\* in use, with its loss latched and its own connection listed.
THEOREM IoFaultIsPresent == Spec => []IoFaultMeansPresent
BY Safety, PTL DEF SafeInv

\* The TX worker transmits with the configuration the clients have set, across
\* any number of losses, re-inits and replays.
THEOREM ConfiguredAcrossReplugs == Spec => []TransmitsAsConfigured
BY Safety, PTL DEF SafeInv

==============================================================================
