------------------------------- MODULE UsbWait -------------------------------
(***************************************************************************)
(* The Meshstick's unplug-wait: a USB failure noticed by the main loop or  *)
(* by the TX worker, its classification within the grace, the teardown of  *)
(* the radio, the selection of the returning stick, its re-init and the    *)
(* replay of the applied configuration, next to jobs of the TX worker that *)
(* were admitted before the loss.                                          *)
(*                                                                         *)
(* A connection is one plugging-in of the daemon's stick; libusb gives     *)
(* each its own device object.  Other sticks only cause hotplug events.    *)
(* The radio itself is module RadioAccess; here a use of the radio either  *)
(* works or fails.                                                         *)
(***************************************************************************)
EXTENDS Naturals, Sequences

CONSTANTS
    Configs,    \* RF configurations
    Boot,       \* the band's boot defaults; as a record: nothing applied
    Capacity,   \* jobs the TX queue holds
    MonQueue,   \* MON_QUEUE (32), events one dispatch can record
    MaxConn,    \* bound: connections of the daemon's stick
    MaxOther    \* bound: hotplug events of other sticks

ASSUME UsbAssumption ==
    /\ Boot \in Configs
    /\ Capacity \in Nat /\ MonQueue \in Nat
    /\ MaxConn \in Nat \ {0} /\ MaxOther \in Nat

None == 0       \* no connection, no device object

VARIABLES
    (* the bus *)
    conn,       \* connections so far
    list,       \* the connection libusb lists, or None
    owed,       \* events of the last list change, not queued yet
    events,     \* queued hotplug events, not handled yet
    others,     \* events of other sticks so far
    (* loraham_ch341_mon *)
    bound, left_bound, arrivals, lefts,
    (* RadioController and its HAL *)
    health,
    driver,     \* connection the driver and its HAL drive, None when reset
    lost,       \* Ch341Hal::_lost
    rf,         \* configuration the chip runs with
    owner,      \* holder of radio_mutex
    (* config_replay.cpp, g_replay *)
    record, replay,
    asked,      \* history: the configuration the clients' commands have set
    (* daemon_usb_wait.cpp *)
    state, loss_flag,
    grace,      \* g_loss_ms and the clock: none, running, over
    reopening, force_reopen, reinit_pending,
    (* daemon_ch341_select.cpp *)
    snapshot,   \* the connection the running selection's scan found
    retry,      \* g_retry_at is set
    selected,   \* g_selected
    (* the threads *)
    queued, pc,
    open,       \* connections with an open handle
    exit        \* why the process has ended

busVars == <<conn, list, owed, events, others>>
monVars == <<bound, left_bound, arrivals, lefts>>
radioVars == <<health, driver, lost, rf>>
waitVars == <<state, loss_flag, grace, reopening, force_reopen,
              reinit_pending>>
selVars == <<snapshot, retry, selected>>
recVars == <<record, replay, asked>>
vars == <<busVars, monVars, radioVars, owner, recVars, waitVars, selVars,
          queued, pc, open, exit>>

Event == [left : BOOLEAN, dev : 0..MaxConn]

\* Every variable stays in its range.
TypeOK ==
    /\ conn \in 1..MaxConn /\ list \in 0..MaxConn /\ others \in 0..MaxOther
    /\ owed \in Seq(Event) /\ events \in Seq(Event)
    /\ bound \in 0..MaxConn /\ left_bound \in 0..2
    /\ arrivals \in BOOLEAN /\ lefts \in BOOLEAN
    /\ health \in {"READY", "FAILED", "UNPLUGGED", "UNINITIALIZED"}
    /\ driver \in 0..MaxConn /\ lost \in BOOLEAN /\ rf \in Configs
    /\ owner \in {"none", "main", "worker"}
    /\ record \in Configs /\ replay \in Configs /\ asked \in Configs
    /\ state \in {"READY", "PENDING", "TEARDOWN", "UNPLUGGED"}
    /\ loss_flag \in BOOLEAN /\ grace \in {"none", "running", "over"}
    /\ reopening \in BOOLEAN /\ force_reopen \in BOOLEAN
    /\ reinit_pending \in BOOLEAN
    /\ snapshot \in 0..MaxConn /\ retry \in BOOLEAN
    /\ selected \in 0..MaxConn
    /\ queued \in 0..Capacity
    /\ pc \in [main : {"check", "dispatch", "tick", "drain", "look2", "init",
                       "replay", "replayed", "sockets", "join"},
               worker : {"idle", "probe_lock", "probe", "admit", "send_lock",
                         "send", "lost", "publish", "unlock"}]
    /\ open \subseteq 1..MaxConn
    /\ exit \in {"no", "io_fault", "no_list", "reinit", "crash", "clean"}

\* Started on a plugged-in stick: selected, bound, READY, nothing applied.
Init ==
    /\ conn = 1 /\ list = 1 /\ owed = <<>> /\ events = <<>> /\ others = 0
    /\ bound = 1 /\ left_bound = 0 /\ arrivals = FALSE /\ lefts = FALSE
    /\ health = "READY" /\ driver = 1 /\ lost = FALSE /\ rf = Boot
    /\ owner = "none"
    /\ record = Boot /\ replay = Boot /\ asked = Boot
    /\ state = "READY" /\ loss_flag = FALSE /\ grace = "none"
    /\ reopening = FALSE /\ force_reopen = FALSE /\ reinit_pending = FALSE
    /\ snapshot = None /\ retry = FALSE
    /\ selected = None
    /\ queued = 0 /\ pc = [main |-> "check", worker |-> "idle"]
    /\ open = {1} /\ exit = "no"

Go(t, label) == pc' = [pc EXCEPT ![t] = label]

-----------------------------------------------------------------------------
(* The bus (external).  libusb's one udev thread changes the list first    *)
(* and queues the event afterwards.                                        *)

Unplug ==
    /\ list # None /\ owed = <<>>
    /\ list' = None
    /\ owed' = <<[left |-> TRUE, dev |-> list]>>
    /\ UNCHANGED <<conn, events, others>>

Plug ==
    /\ list = None /\ owed = <<>>
    /\ conn < MaxConn
    /\ conn' = conn + 1
    /\ list' = conn + 1
    /\ owed' = <<[left |-> FALSE, dev |-> conn + 1]>>
    /\ UNCHANGED <<events, others>>

OtherStick ==
    /\ owed = <<>>
    /\ others < MaxOther
    /\ others' = others + 1
    /\ \E left \in BOOLEAN : owed' = <<[left |-> left, dev |-> None]>>
    /\ UNCHANGED <<conn, list, events>>

QueueEvent ==
    /\ owed # <<>>
    /\ events' = events \o owed
    /\ owed' = <<>>
    /\ UNCHANGED <<conn, list, others>>

Bus ==
    /\ Unplug \/ Plug \/ OtherStick \/ QueueEvent
    /\ UNCHANGED <<monVars, radioVars, owner, recVars, waitVars, selVars,
                   queued, pc, open, exit>>

\* The grace deadline passes.
Clock ==
    /\ grace = "running"
    /\ grace' = "over"
    /\ UNCHANGED <<busVars, monVars, radioVars, owner, recVars, state,
                   loss_flag, reopening, force_reopen, reinit_pending, selVars,
                   queued, pc, open, exit>>

-----------------------------------------------------------------------------
(* loraham_ch341_mon                                                       *)

Recorded == SubSeq(events, 1, IF Len(events) < MonQueue THEN Len(events)
                                                        ELSE MonQueue)

Overflow == Len(events) > MonQueue

\* Mutant: lost events are taken for the bound stick's LEFT.
LeftOnOverflow ==
    IF Overflow \/ \E i \in DOMAIN Recorded :
                      Recorded[i] = [left |-> TRUE, dev |-> bound]
      THEN 1 ELSE left_bound

\* 1: the bound device's LEFT was seen; 2: it may be among lost events.
LeftBound ==
    IF bound = None THEN left_bound
    ELSE IF \E i \in DOMAIN Recorded :
              Recorded[i] = [left |-> TRUE, dev |-> bound] THEN 1
    ELSE IF Overflow /\ left_bound = 0 THEN 2 ELSE left_bound

\* Handle the pending events; what the callback had no room for is lost.
Dispatch ==
    /\ events' = <<>>
    /\ left_bound' = LeftBound
    /\ arrivals' = (arrivals \/ Overflow
                      \/ \E i \in DOMAIN Recorded : ~Recorded[i].left)
    /\ lefts' = (lefts \/ \E i \in DOMAIN Recorded :
                    /\ Recorded[i].left
                    /\ bound = None \/ Recorded[i].dev # bound)
    /\ UNCHANGED <<conn, list, owed, others, bound>>

\* Mutant: any stick on the bus counts.
AnyPresent == list # None

\* bound_in_list: the very connection that was bound is listed.
BoundInList == bound # None /\ list = bound

-----------------------------------------------------------------------------
(* A failed USB call after READY: Ch341Hal::failure and on_loss.           *)

\* Mutant: the loss is latched but TX and SET are still admitted.
AdmissionKept == UNCHANGED health

\* on_loss publishes the health before anything else ...
RefuseAdmission == health' = "UNPLUGGED"

\* ... then the first loss's time and the flag.
PublishLoss ==
    /\ grace' = IF grace = "none" THEN "running" ELSE grace
    /\ loss_flag' = TRUE

\* A USB call on the stick may fail at any time, and must when it is gone.
MayWork == list = driver

-----------------------------------------------------------------------------
(* The main loop up to the tick.                                           *)

\* daemon_radio_check_runtime finds no error ...
CheckRuntime ==
    /\ pc.main = "check"
    /\ Go("main", "dispatch")
    /\ UNCHANGED <<busVars, monVars, radioVars, owner, recVars, waitVars,
                   selVars, queued, open, exit>>

\* ... or the HAL's error latches the loss.  The loss of every other call of
\* the main loop (drain, probe, RSSI) has the same effect.
CheckRuntimeLoss ==
    /\ pc.main = "check"
    /\ driver # None /\ ~lost
    /\ lost' = TRUE
    /\ RefuseAdmission
    /\ PublishLoss
    /\ Go("main", "dispatch")
    /\ UNCHANGED <<busVars, monVars, driver, rf, owner, recVars, state,
                   reopening, force_reopen, reinit_pending, selVars, queued,
                   open, exit>>

TickDispatch ==
    /\ pc.main = "dispatch"
    /\ Dispatch
    /\ Go("main", "tick")
    /\ UNCHANGED <<radioVars, owner, recVars, waitVars, selVars, queued, open,
                   exit>>

\* The tick returns to the loop; everything not named stays.
TickReturns == Go("main", "sockets") /\ UNCHANGED <<owner, open, exit>>

\* op_fatal: the HAL closes its device, without a HAL the selected one is
\* closed; then _exit.
Fatal(why, hal) ==
    /\ open' = open \ {IF hal # None THEN hal ELSE selected}
    /\ exit' = why

-----------------------------------------------------------------------------
(* daemon_usb_wait_tick, one action per case and outcome.                  *)

\* No loss: events of other sticks are dropped, but a replug that came
\* before the HAL noticed anything is kept.
TickReady ==
    /\ pc.main = "tick"
    /\ state = "READY" /\ ~loss_flag
    /\ arrivals' = (arrivals /\ left_bound = 1)
    /\ lefts' = (lefts /\ left_bound = 1)
    /\ TickReturns
    /\ UNCHANGED <<busVars, bound, left_bound, radioVars, recVars, waitVars,
                   selVars, queued>>

Classifying ==
    /\ pc.main = "tick"
    /\ state = "PENDING" \/ (state = "READY" /\ loss_flag)

GoesTo(s) ==
    /\ state' = s
    /\ UNCHANGED <<loss_flag, grace, reopening, force_reopen, reinit_pending>>

\* usb_wait_gone
Gone == GoesTo("TEARDOWN") /\ TickReturns

\* A LEFT, or nothing in the list at the deadline.
ClassifyGone ==
    /\ Classifying
    /\ left_bound = 1 \/ (grace = "over" /\ ~BoundInList)
    /\ Gone
    /\ UNCHANGED <<busVars, monVars, radioVars, recVars, selVars, queued>>

ClassifyWaits ==
    /\ Classifying
    /\ left_bound # 1 /\ grace # "over"
    /\ GoesTo("PENDING")
    /\ TickReturns
    /\ UNCHANGED <<busVars, monVars, radioVars, recVars, selVars, queued>>

\* Present at the first look: drain the events, then look once more.
ClassifyPresent ==
    /\ Classifying
    /\ left_bound # 1 /\ grace = "over" /\ BoundInList
    /\ GoesTo("PENDING")
    /\ Go("main", "drain")
    /\ UNCHANGED <<busVars, monVars, radioVars, owner, recVars, selVars, queued,
                   open, exit>>

PresentDrain ==
    /\ pc.main = "drain"
    /\ Dispatch
    /\ Go("main", "look2")
    /\ UNCHANGED <<radioVars, owner, recVars, waitVars, selVars, queued, open,
                   exit>>

SecondLookGone ==
    /\ pc.main = "look2"
    /\ left_bound = 1 \/ ~BoundInList
    /\ Gone
    /\ UNCHANGED <<busVars, monVars, radioVars, recVars, selVars, queued>>

\* "USB I/O error with the Meshstick present"
SecondLookPresent ==
    /\ pc.main = "look2"
    /\ left_bound # 1 /\ BoundInList
    /\ Fatal("io_fault", driver)
    /\ UNCHANGED <<busVars, monVars, radioVars, owner, recVars, waitVars,
                   selVars, queued, pc>>

\* The device list cannot be read, at either look.
ListFails ==
    /\ \/ Classifying /\ left_bound # 1 /\ grace = "over"
       \/ pc.main = "look2" /\ left_bound # 1
    /\ Fatal("no_list", driver)
    /\ UNCHANGED <<busVars, monVars, radioVars, owner, recVars, waitVars,
                   selVars, queued, pc>>

\* Mutant: what the clients set is not kept for the stick's return.
ReplayNotCopied == UNCHANGED replay

CopyReplay == replay' = record

\* Mutant: the wait starts with the next hotplug event.
NoForcedReopen == force_reopen' = FALSE

ForceReopen == force_reopen' = TRUE

\* op_teardown_try: never waits for radio_mutex.  Driver and HAL go, the
\* device is closed, the loss is retired.
TeardownBusy ==
    /\ pc.main = "tick" /\ state = "TEARDOWN"
    /\ owner # "none"
    /\ TickReturns
    /\ UNCHANGED <<busVars, monVars, radioVars, recVars, waitVars, selVars,
                   queued>>

Teardown ==
    /\ pc.main = "tick" /\ state = "TEARDOWN"
    /\ owner = "none"
    /\ CopyReplay
    /\ bound' = None /\ left_bound' = 0
    /\ driver' = None /\ lost' = FALSE /\ open' = open \ {driver}
    /\ loss_flag' = FALSE /\ grace' = "none"
    /\ state' = "UNPLUGGED"
    /\ ForceReopen
    /\ Go("main", "sockets")
    /\ UNCHANGED <<busVars, arrivals, lefts, health, rf, owner, record, asked,
                   reopening, reinit_pending, selVars, queued, exit>>

-----------------------------------------------------------------------------
(* Waiting for the stick: the selection, in outline.                       *)

Waiting == pc.main = "tick" /\ state = "UNPLUGGED" /\ ~reinit_pending

NewChange == arrivals \/ lefts

TakeChanges == arrivals' = FALSE /\ lefts' = FALSE

\* No event, no forced selection, no retry due.
KeepWaiting ==
    /\ Waiting /\ ~reopening /\ ~NewChange /\ ~force_reopen
    /\ TickReturns
    /\ UNCHANGED <<busVars, monVars, radioVars, recVars, waitVars, selVars,
                   queued>>

\* daemon_ch341_select_begin and the scan.
SelectBegin ==
    /\ Waiting /\ ~reopening
    /\ NewChange \/ force_reopen \/ retry
    /\ TakeChanges
    /\ force_reopen' = FALSE
    /\ UNCHANGED selected
    /\ \/ reopening' = TRUE /\ snapshot' = list /\ retry' = FALSE
       \/ reopening' = FALSE /\ retry' = TRUE /\ UNCHANGED snapshot
    /\ TickReturns
    /\ UNCHANGED <<busVars, bound, left_bound, radioVars, recVars, state,
                   loss_flag, grace, reinit_pending, queued>>

\* finish_wait: with a time to try again, or until the next event.
FinishWait(again) ==
    /\ reopening' = FALSE
    /\ retry' = again
    /\ snapshot' = None
    /\ TickReturns
    /\ UNCHANGED <<selected, state, loss_flag, grace, force_reopen,
                   reinit_pending>>

\* A change since the scan: classify again.
SelectStale ==
    /\ Waiting /\ reopening
    /\ NewChange
    /\ TakeChanges
    /\ FinishWait(TRUE)
    /\ UNCHANGED <<busVars, bound, left_bound, radioVars, recVars, queued>>

\* refuse: no stick was there; the next change starts a new selection.
SelectRefuse ==
    /\ Waiting /\ reopening /\ ~NewChange
    /\ snapshot = None
    /\ FinishWait(FALSE)
    /\ UNCHANGED <<busVars, monVars, radioVars, recVars, queued>>

\* The open fails, the identity cannot be read, or events that came with it
\* are taken first: closed again, retried.
SelectOpenFails ==
    /\ Waiting /\ reopening /\ ~NewChange
    /\ snapshot # None
    /\ events' = <<>>
    /\ FinishWait(TRUE)
    /\ UNCHANGED <<conn, list, owed, others, monVars, radioVars, recVars,
                   queued>>

\* opened: the stick is bound, no event came in between; it is handed to the
\* re-init, which the same tick tries.
SelectOpened ==
    /\ Waiting /\ reopening /\ ~NewChange
    /\ snapshot # None /\ list # None /\ events = <<>>
    /\ selected' = list /\ open' = open \union {list}
    /\ bound' = list /\ left_bound' = 0
    /\ reopening' = FALSE /\ reinit_pending' = TRUE
    /\ snapshot' = None
    /\ UNCHANGED <<busVars, arrivals, lefts, radioVars, owner, recVars, state,
                   loss_flag, grace, force_reopen, retry, queued, pc, exit>>

-----------------------------------------------------------------------------
(* op_reinit, under a try-lock of radio_mutex.                             *)

ReinitBusy ==
    /\ pc.main = "tick" /\ state = "UNPLUGGED" /\ reinit_pending
    /\ owner # "none"
    /\ TickReturns
    /\ UNCHANGED <<busVars, monVars, radioVars, recVars, waitVars, selVars,
                   queued>>

ReinitLock ==
    /\ pc.main = "tick" /\ state = "UNPLUGGED" /\ reinit_pending
    /\ owner = "none"
    /\ owner' = "main"
    /\ Go("main", "init")
    /\ UNCHANGED <<busVars, monVars, radioVars, recVars, waitVars, selVars,
                   queued, open, exit>>

\* The new HAL takes the selected device.
TakeSelected ==
    /\ driver' = selected /\ lost' = FALSE
    /\ selected' = None
    /\ rf' = Boot

\* lora_init: READY is published before the configuration is replayed.
InitRadio ==
    /\ pc.main = "init"
    /\ list = selected
    /\ TakeSelected
    /\ health' = "READY"
    /\ Go("main", "replay")
    /\ UNCHANGED <<busVars, monVars, owner, recVars, waitVars, snapshot,
                   retry, queued, open, exit>>

InitRadioFails ==
    /\ pc.main = "init"
    /\ TakeSelected
    /\ health' = "FAILED"
    /\ Fatal("reinit", selected)
    /\ UNCHANGED <<busVars, monVars, owner, recVars, waitVars, snapshot,
                   retry, queued, pc>>

\* parse_and_apply_config_generic of the recorded command, then the RX
\* re-arm; without a record nothing touches the stick.
Replay ==
    /\ pc.main = "replay"
    /\ replay = Boot \/ MayWork
    /\ rf' = replay /\ record' = replay
    /\ Go("main", "replayed")
    /\ UNCHANGED <<busVars, monVars, health, driver, lost, owner, replay,
                   asked, waitVars, selVars, queued, open, exit>>

\* The parameters were set and the loss came with the RX re-arm.
ReplayLoss ==
    /\ pc.main = "replay"
    /\ replay # Boot
    /\ rf' = replay /\ record' = replay
    /\ lost' = TRUE
    /\ RefuseAdmission
    /\ PublishLoss
    /\ Go("main", "replayed")
    /\ UNCHANGED <<busVars, monVars, driver, owner, replay, asked, state,
                   reopening, force_reopen, reinit_pending, selVars, queued,
                   open, exit>>

\* A parameter could not be set, with or without a loss latched.
ReplayFails ==
    /\ pc.main = "replay"
    /\ replay # Boot
    /\ lost' \in (IF MayWork THEN BOOLEAN ELSE {TRUE})
    /\ health' = "FAILED"
    /\ Fatal("reinit", driver)
    /\ UNCHANGED <<busVars, monVars, driver, rf, owner, recVars, waitVars,
                   selVars, queued, pc>>

\* Mutant: the end of the re-init clears the loss flag.
ReinitClearsLoss ==
    /\ state' = "READY" /\ reinit_pending' = FALSE /\ loss_flag' = FALSE
    /\ UNCHANGED <<grace, reopening, force_reopen>>

\* The tick goes back to READY, keeping a loss latched in the meantime.
ReinitEnds ==
    /\ state' = "READY" /\ reinit_pending' = FALSE
    /\ UNCHANGED <<loss_flag, grace, reopening, force_reopen>>

ReinitReturns ==
    /\ pc.main = "replayed"
    /\ ReinitEnds
    /\ owner' = "none"
    /\ Go("main", "sockets")
    /\ UNCHANGED <<busVars, monVars, radioVars, recVars, selVars, queued, open,
                   exit>>

-----------------------------------------------------------------------------
(* The rest of the pass: admission of jobs and of CONFIG commands.         *)

Ready == health = "READY"

QueueFull == queued = Capacity

SubmitJob ==
    /\ pc.main = "sockets"
    /\ Ready /\ ~QueueFull
    /\ queued' = queued + 1
    /\ UNCHANGED <<busVars, monVars, radioVars, owner, recVars, waitVars,
                   selVars, pc, open, exit>>

\* A SET that touches the radio: driver, readiness and an idle queue are
\* checked first, so radio_mutex is free.
ConfigAdmitted ==
    /\ pc.main = "sockets"
    /\ Ready /\ driver # None
    /\ queued = 0 /\ pc.worker = "idle"

ConfigApplied ==
    /\ ConfigAdmitted
    /\ MayWork
    /\ \E c \in Configs \ {Boot} : rf' = c /\ record' = c /\ asked' = c
    /\ UNCHANGED <<busVars, monVars, health, driver, lost, owner, replay,
                   waitVars, selVars, queued, pc, open, exit>>

\* A setter fails after the record has taken the keys set before it: FAILED,
\* whatever the HAL published during the apply.
ConfigHwError ==
    /\ ConfigAdmitted
    /\ rf' \in Configs
    /\ \E done \in {record} \union (Configs \ {Boot}) :
          record' = done /\ asked' = done
    /\ health' = "FAILED"
    /\ \/ MayWork /\ UNCHANGED <<lost, loss_flag, grace>>
       \/ lost' = TRUE /\ PublishLoss
    /\ UNCHANGED <<busVars, monVars, driver, owner, replay, state, reopening,
                   force_reopen, reinit_pending, selVars, queued, pc, open,
                   exit>>

PassEnds ==
    /\ pc.main = "sockets"
    /\ Go("main", "check")
    /\ UNCHANGED <<busVars, monVars, radioVars, owner, recVars, waitVars,
                   selVars, queued, open, exit>>

\* A stop request ends the loop: queued jobs are discarded, the worker is
\* joined ...
StopRequest ==
    /\ pc.main = "check"
    /\ queued' = 0
    /\ Go("main", "join")
    /\ UNCHANGED <<busVars, monVars, radioVars, owner, recVars, waitVars,
                   selVars, open, exit>>

\* radio_controller_shutdown closes the HAL's device, daemon_ch341_shutdown
\* one that no HAL has taken yet.
ClosesDevices == open' = open \ {driver, selected}

\* ... and the radio is shut down.
Shutdown ==
    /\ pc.main = "join" /\ pc.worker = "idle"
    /\ ClosesDevices
    /\ driver' = None /\ selected' = None
    /\ health' = "UNINITIALIZED"
    /\ exit' = "clean"
    /\ UNCHANGED <<busVars, monVars, lost, rf, owner, recVars, waitVars,
                   snapshot, retry, queued, pc>>

-----------------------------------------------------------------------------
(* The TX worker.                                                          *)

\* A MANAGED job probes the channel first, a DIRECT one is sent.
WorkerTakesJob ==
    /\ pc.worker = "idle"
    /\ queued > 0
    /\ queued' = queued - 1
    /\ \E first \in {"probe_lock", "admit"} : Go("worker", first)
    /\ UNCHANGED <<busVars, monVars, radioVars, owner, recVars, waitVars,
                   selVars, open, exit>>

ProbeLock ==
    /\ pc.worker = "probe_lock"
    /\ owner = "none"
    /\ owner' = "worker"
    /\ Go("worker", "probe")
    /\ UNCHANGED <<busVars, monVars, radioVars, recVars, waitVars, selVars,
                   queued, open, exit>>

\* daemon_data_tx_worker_cad_probe asks the health under the lock.
Probe ==
    /\ pc.worker = "probe"
    /\ owner' = "none"
    /\ \/ Ready /\ (lost \/ MayWork) /\ Go("worker", "admit")
       \/ Go("worker", "idle")
    /\ UNCHANGED <<busVars, monVars, radioVars, recVars, waitVars, selVars,
                   queued, open, exit>>

\* lora_send_controller asks driver and health before it takes the lock.
Admit ==
    /\ pc.worker = "admit"
    /\ Go("worker", IF Ready /\ driver # None THEN "send_lock" ELSE "idle")
    /\ UNCHANGED <<busVars, monVars, radioVars, owner, recVars, waitVars,
                   selVars, queued, open, exit>>

SendLock ==
    /\ pc.worker = "send_lock"
    /\ owner = "none"
    /\ owner' = "worker"
    /\ Go("worker", "send")
    /\ UNCHANGED <<busVars, monVars, radioVars, recVars, waitVars, selVars,
                   queued, open, exit>>

\* The transmission, or a HAL that refuses after a loss.
Send ==
    /\ pc.worker = "send"
    /\ driver # None
    /\ lost \/ MayWork
    /\ Go("worker", "unlock")
    /\ UNCHANGED <<busVars, monVars, radioVars, owner, recVars, waitVars,
                   selVars, queued, open, exit>>

\* ctrl->driver was reset after the admission: a call through a null pointer.
SendWithoutDriver ==
    /\ pc.worker = "send"
    /\ driver = None
    /\ exit' = "crash"
    /\ UNCHANGED <<busVars, monVars, radioVars, owner, recVars, waitVars,
                   selVars, queued, pc, open>>

\* A USB call of the worker fails and wins the latch ...
WorkerLoss ==
    /\ pc.worker = "send" \/ (pc.worker = "probe" /\ Ready)
    /\ driver # None /\ ~lost
    /\ lost' = TRUE
    /\ Go("worker", "lost")
    /\ UNCHANGED <<busVars, monVars, health, driver, rf, owner, recVars,
                   waitVars, selVars, queued, open, exit>>

\* ... and runs on_loss: first the health ...
WorkerRefuses ==
    /\ pc.worker = "lost"
    /\ RefuseAdmission
    /\ Go("worker", "publish")
    /\ UNCHANGED <<busVars, monVars, driver, lost, rf, owner, recVars, waitVars,
                   selVars, queued, open, exit>>

\* ... then the flag.
WorkerPublishes ==
    /\ pc.worker = "publish"
    /\ PublishLoss
    /\ Go("worker", "unlock")
    /\ UNCHANGED <<busVars, monVars, radioVars, owner, recVars, state,
                   reopening, force_reopen, reinit_pending, selVars, queued,
                   open, exit>>

WorkerUnlocks ==
    /\ pc.worker = "unlock"
    /\ owner' = "none"
    /\ Go("worker", "idle")
    /\ UNCHANGED <<busVars, monVars, radioVars, recVars, waitVars, selVars,
                   queued, open, exit>>

-----------------------------------------------------------------------------

Tick ==
    \/ TickDispatch \/ TickReady
    \/ ClassifyGone \/ ClassifyWaits \/ ClassifyPresent \/ PresentDrain
    \/ SecondLookGone \/ SecondLookPresent \/ ListFails
    \/ TeardownBusy \/ Teardown
    \/ KeepWaiting \/ SelectBegin \/ SelectStale \/ SelectRefuse
    \/ SelectOpenFails \/ SelectOpened
    \/ ReinitBusy \/ ReinitLock \/ InitRadio \/ InitRadioFails
    \/ Replay \/ ReplayLoss \/ ReplayFails \/ ReinitReturns

Main ==
    \/ CheckRuntime \/ CheckRuntimeLoss \/ Tick
    \/ SubmitJob \/ ConfigApplied \/ ConfigHwError \/ PassEnds
    \/ StopRequest \/ Shutdown

Worker ==
    \/ WorkerTakesJob \/ ProbeLock \/ Probe \/ Admit \/ SendLock \/ Send
    \/ SendWithoutDriver \/ WorkerLoss \/ WorkerRefuses \/ WorkerPublishes
    \/ WorkerUnlocks

\* The process has ended.
Ended == exit # "no" /\ UNCHANGED vars

Next ==
    \/ exit = "no" /\ (Bus \/ Clock \/ Main \/ Worker)
    \/ Ended

\* Both threads run on, a pass serves finitely many clients, the clock
\* advances and libusb queues what it owes.  A selection is retried when its
\* time has come, and a stick that no one else holds is opened in the end.
Fairness ==
    /\ WF_vars(exit = "no" /\ Main)
    /\ WF_vars(exit = "no" /\ Worker)
    /\ WF_vars(exit = "no" /\ Clock)
    /\ WF_vars(exit = "no" /\ owed # <<>> /\ Bus)
    /\ SF_vars(exit = "no" /\ PassEnds)
    /\ SF_vars(exit = "no" /\ SelectBegin /\ reopening')
    /\ SF_vars(exit = "no" /\ SelectOpened)

Spec == Init /\ [][Next]_vars /\ Fairness

-----------------------------------------------------------------------------
(* Properties.                                                             *)

\* READY is only ever reported with a driver whose HAL has not latched a
\* loss, except between the worker's latch and its first store in on_loss:
\* neither the late store of on_loss nor the re-init's READY covers a loss.
ReadyMeansAlive ==
    Ready => driver # None /\ (lost => pc.worker = "lost")

\* The radio is torn down only for a stick that is gone from the bus: events
\* of other sticks, lost events and an old connection's LEFT never count.
GoneMeansGone == state = "TEARDOWN" => list # bound

\* The "I/O error with the Meshstick present" exit concerns the radio in use:
\* its HAL has latched a loss and its very connection is on the bus.  A quick
\* replug is waited for, and no loss of an earlier HAL ends the process.
IoFaultMeansPresent == exit = "io_fault" => lost /\ list = driver

\* Every transmission runs with the configuration the clients' commands have
\* set, across any number of losses and replugs and although the re-init
\* publishes READY before the replay.
TransmitsAsConfigured ==
    pc.worker = "send" /\ driver # None /\ ~lost => rf = asked

\* A latched loss is acted on: the HAL is torn down or the process exits.
LossHandled == lost ~> (~lost \/ exit # "no")

\* A stick that stays plugged in is taken back, or the process exits.
StickReturns ==
    (state = "UNPLUGGED" /\ list # None)
       ~> (state # "UNPLUGGED" \/ list = None \/ exit # "no")

\* No TX reaches a radio that has been torn down: after a loss the readiness
\* checks refuse it before any mutex, and the worker only ever calls into the
\* refusing HAL.
NoUseAfterTeardown == exit # "crash"

==============================================================================
