------------------------------ MODULE TxWorker ------------------------------
(***************************************************************************)
(* The asynchronous TX path of one daemon process: the bounded TX queue,   *)
(* the worker thread that executes its jobs, the completion queue that     *)
(* carries the results back, and the main thread's operations on them:     *)
(* DATA chunks (queued and direct), the two CONF commands gated by the     *)
(* queue (SET TXQUEUE=0 and every RF change), the completion drain and     *)
(* the shutdown.                                                           *)
(*                                                                         *)
(* One step is one critical section of async->lock, one atomic load or     *)
(* store, or one condition-variable operation; the main thread and the     *)
(* worker interleave between them.  A job is identified by the number of   *)
(* jobs accepted before it plus one and carries the RF configuration in    *)
(* force when it was accepted.  CAD and the transmission itself are the    *)
(* steps between WorkerPop and WorkerFinish (module RadioAccess opens      *)
(* them up).                                                               *)
(***************************************************************************)
EXTENDS Naturals, Sequences, FiniteSets

CONSTANTS
    Capacity,            \* DAEMON_TX_QUEUE_CAPACITY (8)
    CompletionCapacity,  \* DAEMON_TX_COMPLETION_QUEUE_CAPACITY (16)
    RfConfigs,           \* RF configurations a CONF client can apply
    BootConfig,          \* the configuration the radio was initialised with
    MaxJobs,             \* bound: DATA chunks handed to the queue
    MaxRead              \* bound: chunks in one read while the queue is off

ASSUME CapacityAssumption ==
    /\ Capacity \in Nat \ {0}
    /\ CompletionCapacity \in Nat \ {0}
    /\ MaxJobs \in Nat
    /\ MaxRead \in Nat \ {0}

ASSUME ConfigAssumption == BootConfig \in RfConfigs

VARIABLES
    queue,           \* async->worker.queue
    accepted, rejected, processed, dropped,  \* the worker's counters
    stop_requested, running, job_active,
    wpc,             \* where the worker thread is
    wjob,            \* the job it popped and has not recorded yet
    completions,     \* the completion queue
    resultDropped,   \* completion_queue->dropped
    drained,         \* completions the main thread has popped
    tx_busy,         \* ctrl->tx_busy
    ready,           \* radio_controller_ready(ctrl)
    tx_queue_active, \* ctrl->tx_queue_active (SET TXQUEUE)
    rf,              \* the RF configuration in force
    mpc,             \* where the main thread is
    op,              \* the operation it is in
    chunks           \* chunks of the current read still to be handed over

queueVars == <<queue, accepted, rejected, dropped>>
threadVars == <<stop_requested, running>>
resultVars == <<processed, completions, resultDropped>>
workerVars == <<wpc, wjob, job_active>>
radioVars == <<tx_busy, ready, rf>>
vars == <<queueVars, threadVars, resultVars, workerVars, radioVars, drained,
          tx_queue_active, mpc, op, chunks>>

Job == [id : Nat, rf : RfConfigs]
NoJob == [id |-> 0, rf |-> BootConfig]

\* The DATA inputs; each of their chunks is one send_data_chunk call.
Data == {"raw", "framed"}

\* Where the worker holds a popped job whose transmission is not over.
Executing == {"cad", "transmit", "finished"}

\* Where the worker holds a popped job it has not recorded.
Holding == Executing \union {"record"}

DataTypeOK ==
    /\ queue \in Seq(Job) /\ Len(queue) <= Capacity
    /\ completions \in Seq(Job) /\ Len(completions) <= CompletionCapacity
    /\ accepted \in Nat /\ rejected \in Nat /\ processed \in Nat
    /\ dropped \in Nat /\ resultDropped \in Nat /\ drained \in Nat
    /\ wpc \in Holding \union {"none", "top", "waiting", "exited"}
    /\ wjob \in Job
    /\ rf \in RfConfigs
    /\ mpc \in {"loop", "chunk", "start", "submit", "notify", "pending",
                "active", "perform", "transmit", "drain", "notify_all",
                "join", "reinit", "exited"}
    /\ op \in Data \union {"txqueue", "config"}
    /\ chunks \in Nat

FlagTypeOK ==
    /\ stop_requested \in BOOLEAN /\ running \in BOOLEAN
    /\ job_active \in BOOLEAN /\ tx_busy \in BOOLEAN /\ ready \in BOOLEAN
    /\ tx_queue_active \in BOOLEAN

\* The queues stay within their capacities and every variable in its range.
TypeOK == DataTypeOK /\ FlagTypeOK

Init ==
    /\ queue = <<>> /\ completions = <<>>
    /\ accepted = 0 /\ rejected = 0 /\ processed = 0 /\ dropped = 0
    /\ resultDropped = 0 /\ drained = 0
    /\ stop_requested = FALSE /\ running = FALSE /\ job_active = FALSE
    /\ wpc = "none" /\ wjob = NoJob
    /\ tx_busy = FALSE /\ ready = TRUE /\ tx_queue_active = TRUE
    /\ rf = BootConfig
    /\ mpc = "loop" /\ op = "config" /\ chunks = 0

-----------------------------------------------------------------------------
(* Main thread: DATA input.                                                *)

\* Mutant: the budget forgets the jobs already waiting.
ReadBudgetIgnoresPending == IF tx_queue_active THEN Capacity ELSE MaxRead

\* Chunks a raw client may hand over in one read: the free queue slots
\* (data_tx_queue_capacity_bytes), no queue bound on the direct path.
ReadBudget == IF tx_queue_active THEN Capacity - Len(queue) ELSE MaxRead

\* A raw DATA client is ready: nothing is read while the queue is full,
\* otherwise the bytes read make at most ReadBudget chunks.
RawRead ==
    /\ mpc = "loop"
    /\ \E n \in 1..ReadBudget :
          /\ accepted + rejected + n <= MaxJobs
          /\ chunks' = n
    /\ mpc' = "chunk"
    /\ op' = "raw"
    /\ UNCHANGED <<queueVars, threadVars, resultVars, workerVars, radioVars,
                   drained, tx_queue_active>>

\* A framed client completed one TX_PACKET; no budget is consulted.
FramedPacket ==
    /\ mpc = "loop"
    /\ accepted + rejected < MaxJobs
    /\ chunks' = 1
    /\ mpc' = "chunk"
    /\ op' = "framed"
    /\ UNCHANGED <<queueVars, threadVars, resultVars, workerVars, radioVars,
                   drained, tx_queue_active>>

\* The handler accepted a chunk: on to the next chunk of this read.
ChunkDone ==
    /\ chunks' = chunks - 1
    /\ mpc' = IF chunks = 1 THEN "loop" ELSE "chunk"

\* The handler failed: data_tx_for_each_chunk abandons the rest of the read.
ChunkFailed ==
    /\ chunks' = 0
    /\ mpc' = "loop"

\* send_data_chunk: refused before any queue or radio access (radio not
\* ready, payload over the limit).
ChunkRefused ==
    /\ mpc = "chunk"
    /\ ChunkFailed
    /\ UNCHANGED <<queueVars, threadVars, resultVars, workerVars, radioVars,
                   drained, tx_queue_active, op>>

\* send_data_chunk: the queued path goes on to start the worker, the direct
\* path to check for residual queue activity.
ChunkRoute ==
    /\ mpc = "chunk"
    /\ ready
    /\ mpc' = IF tx_queue_active THEN "start" ELSE "pending"
    /\ UNCHANGED <<queueVars, threadVars, resultVars, workerVars, radioVars,
                   drained, tx_queue_active, op, chunks>>

\* daemon_tx_async_worker_start: the worker is already running ...
StartIsNoOp ==
    /\ mpc = "start"
    /\ running
    /\ mpc' = "submit"
    /\ UNCHANGED <<queueVars, threadVars, resultVars, workerVars, radioVars,
                   drained, tx_queue_active, op, chunks>>

\* Mutant: `running` is not set with the creation.
StartThreadUnmarked ==
    /\ mpc = "start"
    /\ ~running
    /\ stop_requested' = FALSE
    /\ wpc' = "top"
    /\ mpc' = "submit"
    /\ UNCHANGED <<queueVars, running, resultVars, wjob, job_active, radioVars,
                   drained, tx_queue_active, op, chunks>>

\* ... or a thread is created ...
StartThread ==
    /\ mpc = "start"
    /\ ~running
    /\ stop_requested' = FALSE
    /\ running' = TRUE
    /\ wpc' = "top"
    /\ mpc' = "submit"
    /\ UNCHANGED <<queueVars, resultVars, wjob, job_active, radioVars,
                   drained, tx_queue_active, op, chunks>>

\* ... or creating it throws, which takes `running` back and fails the chunk.
StartThrows ==
    /\ mpc = "start"
    /\ ~running
    /\ stop_requested' = FALSE
    /\ ChunkFailed
    /\ UNCHANGED <<queueVars, running, resultVars, workerVars, radioVars,
                   drained, tx_queue_active, op>>

\* daemon_tx_queue_full
QueueFull == Len(queue) = Capacity

\* daemon_tx_async_worker_submit, the critical section: reject when stopping
\* or full, else append.
Submit ==
    /\ mpc = "submit"
    /\ IF stop_requested \/ QueueFull
       THEN /\ rejected' = rejected + 1
            /\ ChunkFailed
            /\ UNCHANGED <<queue, accepted>>
       ELSE /\ queue' = Append(queue, [id |-> accepted + 1, rf |-> rf])
            /\ accepted' = accepted + 1
            /\ mpc' = "notify"
            /\ UNCHANGED <<rejected, chunks>>
    /\ UNCHANGED <<dropped, threadVars, resultVars, workerVars, radioVars,
                   drained, tx_queue_active, op>>

\* Mutant: the notification is forgotten.
WakeForgotten == UNCHANGED wpc

\* wake.notify_one() / notify_all(): a sleeping worker goes back to its lock.
Wake == wpc' = IF wpc = "waiting" THEN "top" ELSE wpc

Notify ==
    /\ mpc = "notify"
    /\ Wake
    /\ ChunkDone
    /\ UNCHANGED <<queueVars, threadVars, resultVars, wjob, job_active,
                   radioVars, drained, tx_queue_active, op>>

-----------------------------------------------------------------------------
(* Main thread: the operations that must find the queue idle.  All three   *)
(* read the pending count first and the job_active flag second.            *)

\* SET TXQUEUE=1 is always applied.
SetTxQueueOn ==
    /\ mpc = "loop"
    /\ ~tx_queue_active
    /\ tx_queue_active' = TRUE
    /\ UNCHANGED <<queueVars, threadVars, resultVars, workerVars, radioVars,
                   drained, mpc, op, chunks>>

\* SET TXQUEUE=0 arrives.
SetTxQueueOff ==
    /\ mpc = "loop"
    /\ mpc' = "pending"
    /\ op' = "txqueue"
    /\ UNCHANGED <<queueVars, threadVars, resultVars, workerVars, radioVars,
                   drained, tx_queue_active, chunks>>

\* A CONF line that touches the radio arrives while the radio is ready.
SetRfConfig ==
    /\ mpc = "loop"
    /\ ready
    /\ mpc' = "pending"
    /\ op' = "config"
    /\ UNCHANGED <<queueVars, threadVars, resultVars, workerVars, radioVars,
                   drained, tx_queue_active, chunks>>

\* ERR BUSY on CONF, outcome BUSY for a direct chunk.
GateRefuses == ChunkFailed

\* Mutant: only the executing job is looked at.
PendingIgnored == FALSE

\* daemon_tx_async_runtime_pending() > 0
SeesPending == queue # <<>>

ReadPending ==
    /\ mpc = "pending"
    /\ IF SeesPending
       THEN GateRefuses
       ELSE mpc' = "active" /\ UNCHANGED chunks
    /\ UNCHANGED <<queueVars, threadVars, resultVars, workerVars, radioVars,
                   drained, tx_queue_active, op>>

\* Mutant: only the waiting jobs are looked at.
ActiveIgnored == FALSE

\* daemon_tx_async_runtime_job_active()
SeesActive == job_active

ReadActive ==
    /\ mpc = "active"
    /\ IF SeesActive
       THEN GateRefuses
       ELSE mpc' = "perform" /\ UNCHANGED chunks
    /\ UNCHANGED <<queueVars, threadVars, resultVars, workerVars, radioVars,
                   drained, tx_queue_active, op>>

TxQueueOff ==
    /\ mpc = "perform" /\ op = "txqueue"
    /\ tx_queue_active' = FALSE
    /\ mpc' = "loop"
    /\ UNCHANGED <<queueVars, threadVars, resultVars, workerVars, radioVars,
                   drained, op, chunks>>

\* apply_config and its outcomes: applied (a new configuration), refused or
\* nothing to change, or a hardware error half way, which fails the radio.
ApplyRfConfig ==
    /\ mpc = "perform" /\ op = "config"
    /\ \E c \in RfConfigs :
          /\ rf' = c
          /\ ready' \in {ready, FALSE}
    /\ mpc' = "loop"
    /\ UNCHANGED <<queueVars, threadVars, resultVars, workerVars, tx_busy,
                   drained, tx_queue_active, op, chunks>>

\* The direct path gives up: TX busy, CAD error, channel busy.
DirectAbort ==
    /\ mpc = "perform" /\ op \in Data
    /\ ChunkFailed
    /\ UNCHANGED <<queueVars, threadVars, resultVars, workerVars, radioVars,
                   drained, tx_queue_active, op>>

\* The direct path transmits on the main thread: tx_busy.exchange(true).
DirectTransmit ==
    /\ mpc = "perform" /\ op \in Data
    /\ ~tx_busy
    /\ tx_busy' = TRUE
    /\ mpc' = "transmit"
    /\ UNCHANGED <<queueVars, threadVars, resultVars, workerVars, ready, rf,
                   drained, tx_queue_active, op, chunks>>

\* The blocking transmit returned; the re-arm after it may fail the radio.
DirectTransmitDone ==
    /\ mpc = "transmit"
    /\ tx_busy' = FALSE
    /\ ready' \in {ready, FALSE}
    /\ \/ ChunkDone
       \/ ChunkFailed
    /\ UNCHANGED <<queueVars, threadVars, resultVars, workerVars, rf,
                   drained, tx_queue_active, op>>

-----------------------------------------------------------------------------
(* Main thread: draining completions.                                      *)

BeginDrain ==
    /\ mpc = "loop"
    /\ mpc' = "drain"
    /\ UNCHANGED <<queueVars, threadVars, resultVars, workerVars, radioVars,
                   drained, tx_queue_active, op, chunks>>

\* daemon_tx_completion_queue_pop until it reports an empty queue.
DrainCompletion ==
    /\ mpc = "drain"
    /\ IF completions # <<>>
       THEN /\ completions' = Tail(completions)
            /\ drained' = drained + 1
            /\ UNCHANGED mpc
       ELSE /\ mpc' = "loop"
            /\ UNCHANGED <<completions, drained>>
    /\ UNCHANGED <<queueVars, threadVars, processed, resultDropped,
                   workerVars, radioVars, tx_queue_active, op, chunks>>

-----------------------------------------------------------------------------
(* Main thread: shutdown (daemon_tx_async_runtime_shutdown).               *)

\* daemon_tx_queue_discard_all
DiscardAll == queue' = <<>> /\ dropped' = dropped + Len(queue)

\* daemon_tx_async_worker_stop, first critical section.
StopRequest ==
    /\ mpc = "loop"
    /\ stop_requested' = TRUE
    /\ DiscardAll
    /\ mpc' = "notify_all"
    /\ UNCHANGED <<accepted, rejected, running, resultVars, workerVars,
                   radioVars, drained, tx_queue_active, op, chunks>>

NotifyAll ==
    /\ mpc = "notify_all"
    /\ Wake
    /\ mpc' = "join"
    /\ UNCHANGED <<queueVars, threadVars, resultVars, wjob, job_active,
                   radioVars, drained, tx_queue_active, op, chunks>>

\* thread.join() returns once the worker function has returned.
Join ==
    /\ mpc = "join"
    /\ wpc \in {"none", "exited"}
    /\ wpc' = "none"
    /\ running' = FALSE
    /\ mpc' = "reinit"
    /\ UNCHANGED <<queueVars, stop_requested, resultVars, wjob, job_active,
                   radioVars, drained, tx_queue_active, op, chunks>>

\* daemon_tx_async_worker_init: queue, counters and flags start over; the
\* completion queue is left as it is and dies with the process.
Reinit ==
    /\ mpc = "reinit"
    /\ queue' = <<>>
    /\ accepted' = 0 /\ rejected' = 0 /\ processed' = 0 /\ dropped' = 0
    /\ stop_requested' = FALSE /\ running' = FALSE
    /\ mpc' = "exited"
    /\ UNCHANGED <<completions, resultDropped, workerVars, radioVars, drained,
                   tx_queue_active, op, chunks>>

\* The process is gone.
Exited ==
    /\ mpc = "exited"
    /\ UNCHANGED vars

-----------------------------------------------------------------------------
(* The worker thread.                                                      *)

\* Nothing to do: release the lock and sleep, atomically.
WorkerWait ==
    /\ wpc = "top"
    /\ ~stop_requested /\ queue = <<>>
    /\ wpc' = "waiting"
    /\ UNCHANGED <<queueVars, threadVars, resultVars, wjob, job_active,
                   radioVars, drained, tx_queue_active, mpc, op, chunks>>

\* condition_variable::wait may return without a notification.
SpuriousWakeup ==
    /\ wpc = "waiting"
    /\ wpc' = "top"
    /\ UNCHANGED <<queueVars, threadVars, resultVars, wjob, job_active,
                   radioVars, drained, tx_queue_active, mpc, op, chunks>>

MayExit == stop_requested /\ queue = <<>>

\* The worker function returns.
WorkerExit ==
    /\ wpc = "top"
    /\ MayExit
    /\ running' = FALSE
    /\ wpc' = "exited"
    /\ UNCHANGED <<queueVars, stop_requested, resultVars, wjob, job_active,
                   radioVars, drained, tx_queue_active, mpc, op, chunks>>

\* Mutant: job_active is not raised with the pop.
RaiseNothing == UNCHANGED job_active

\* job_active.store(true)
RaiseActive == job_active' = TRUE

\* Pop and raise job_active in one critical section.
WorkerPop ==
    /\ wpc = "top"
    /\ queue # <<>>
    /\ wjob' = Head(queue)
    /\ queue' = Tail(queue)
    /\ RaiseActive
    /\ wpc' = "cad"
    /\ UNCHANGED <<accepted, rejected, dropped, threadVars, resultVars,
                   radioVars, drained, tx_queue_active, mpc, op, chunks>>

\* The job can end without a transmission: channel busy, CAD unavailable,
\* radio not ready.
MayAbort == wpc = "cad"

WorkerAbort ==
    /\ MayAbort
    /\ wpc' = "finished"
    /\ UNCHANGED <<queueVars, threadVars, resultVars, wjob, job_active,
                   radioVars, drained, tx_queue_active, mpc, op, chunks>>

WorkerTransmit ==
    /\ wpc = "cad"
    /\ ready /\ ~tx_busy
    /\ tx_busy' = TRUE
    /\ wpc' = "transmit"
    /\ UNCHANGED <<queueVars, threadVars, resultVars, wjob, job_active, ready,
                   rf, drained, tx_queue_active, mpc, op, chunks>>

WorkerTransmitDone ==
    /\ wpc = "transmit"
    /\ tx_busy' = FALSE
    /\ ready' \in {ready, FALSE}
    /\ wpc' = "finished"
    /\ UNCHANGED <<queueVars, threadVars, resultVars, wjob, job_active, rf,
                   drained, tx_queue_active, mpc, op, chunks>>

\* job_active.store(false), outside the lock and before the result exists.
WorkerFinish ==
    /\ wpc = "finished"
    /\ job_active' = FALSE
    /\ wpc' = "record"
    /\ UNCHANGED <<queueVars, threadVars, resultVars, wjob, radioVars,
                   drained, tx_queue_active, mpc, op, chunks>>

\* Mutant: a full completion queue refuses the newest result.
PushCompletionRefuses ==
    IF Len(completions) = CompletionCapacity
    THEN UNCHANGED completions /\ resultDropped' = resultDropped + 1
    ELSE completions' = Append(completions, wjob) /\ UNCHANGED resultDropped

\* daemon_tx_completion_queue_push: a full queue forgets its oldest entry.
PushCompletion ==
    IF Len(completions) = CompletionCapacity
    THEN /\ completions' = Append(Tail(completions), wjob)
         /\ resultDropped' = resultDropped + 1
    ELSE completions' = Append(completions, wjob) /\ UNCHANGED resultDropped

\* daemon_tx_worker_record_result and the result callback it calls.
WorkerRecord ==
    /\ wpc = "record"
    /\ processed' = processed + 1
    /\ PushCompletion
    /\ wjob' = NoJob
    /\ wpc' = "top"
    /\ UNCHANGED <<queueVars, threadVars, job_active, radioVars, drained,
                   tx_queue_active, mpc, op, chunks>>

-----------------------------------------------------------------------------

\* What arrives from outside: clients, the stop signal.
Request ==
    \/ RawRead \/ FramedPacket \/ SetTxQueueOn \/ SetTxQueueOff
    \/ SetRfConfig \/ BeginDrain \/ StopRequest

\* The main thread carrying on with what it began.
MainStep ==
    \/ ChunkRefused \/ ChunkRoute
    \/ StartIsNoOp \/ StartThread \/ StartThrows \/ Submit \/ Notify
    \/ ReadPending \/ ReadActive \/ TxQueueOff \/ ApplyRfConfig
    \/ DirectAbort \/ DirectTransmit \/ DirectTransmitDone
    \/ DrainCompletion \/ NotifyAll \/ Join \/ Reinit

\* The worker thread running; a spurious wake-up is not owed to it.
WorkerStep ==
    \/ WorkerWait \/ WorkerExit \/ WorkerPop \/ WorkerAbort \/ WorkerTransmit
    \/ WorkerTransmitDone \/ WorkerFinish \/ WorkerRecord

Next == Request \/ MainStep \/ WorkerStep \/ SpuriousWakeup \/ Exited

\* Both threads are scheduled; nobody owes the daemon a request or a
\* spurious wake-up.
Fairness == WF_vars(MainStep) /\ WF_vars(WorkerStep)

Spec == Init /\ [][Next]_vars /\ Fairness

-----------------------------------------------------------------------------
(* Properties.                                                             *)

\* A job is transmitted with the RF configuration that was in force when it
\* was accepted: no CONF change is applied while a job is queued or executing
\* (config_dispatch_apply_line's queue gate).
AcceptedJobKeepsRfConfig ==
    /\ \A i \in DOMAIN queue : queue[i].rf = rf
    /\ wpc \in Executing => wjob.rf = rf

\* Once a direct chunk has passed the residual-queue check of
\* send_data_chunk, and while it is on air, no queued job is waiting or
\* executing: direct and queued transmissions never interleave.
DirectNeverInterleaves ==
    (mpc \in {"perform", "transmit"} /\ op \in Data) =>
        queue = <<>> /\ wpc \notin Executing

\* SET TXQUEUE=0 takes effect only on a drained, idle queue, and nothing is
\* queued while the queue is off (drain-before-disable).
QueueOffIsDrained ==
    ~tx_queue_active => queue = <<>> /\ wpc \notin Executing

\* Every accepted job is queued, in the worker's hands, recorded or counted
\* as dropped, exactly once, and jobs leave the queue in acceptance order.
JobLedger ==
    mpc # "exited" =>
        LET held == IF wpc \in Holding THEN 1 ELSE 0
        IN  /\ accepted = processed + held + Len(queue) + dropped
            /\ held = 1 => wjob.id = processed + 1
            /\ \A i \in DOMAIN queue : queue[i].id = processed + held + i

\* Every recorded result is waiting, drained or counted as dropped, and the
\* ones waiting are the newest, in order: a full completion queue loses only
\* its oldest entries (TXQRESULTDROP).
ResultLedger ==
    mpc # "exited" =>
        /\ processed = drained + resultDropped + Len(completions)
        /\ \A i \in DOMAIN completions :
              completions[i].id = processed - Len(completions) + i

\* From acceptance to the client's drain nothing is lost uncounted, done twice
\* or reordered.
NothingUnaccounted == JobLedger /\ ResultLedger

\* Bytes read from a raw client while the queue is on are never refused for
\* lack of a queue slot: the read was limited to the free slots and only this
\* thread fills them (data_tx_queue_capacity_bytes).
ReadFitsQueue ==
    (tx_queue_active /\ op = "raw" /\ mpc \in {"chunk", "start", "submit"})
        => Len(queue) + chunks <= Capacity

\* daemon_tx_async_worker_start creates a thread only when no earlier one is
\* left to join: assigning to a joinable std::thread would terminate the
\* process.
StartFindsNoThread == (mpc = "start" /\ ~running) => wpc = "none"

\* After a stop request the worker finishes the job it holds and begins no
\* other.
StopBeginsNoJob == [][stop_requested => (wpc' = "cad" => wpc = "cad")]_vars

\* Every queued job leaves the queue for good: it is popped or discarded by a
\* stop; no wake-up is lost.
QueuedJobLeaves ==
    \A n \in 1..MaxJobs :
        (\E i \in DOMAIN queue : queue[i].id = n)
            ~> ~(\E i \in DOMAIN queue : queue[i].id = n)

\* Shutdown ends: the worker notices the request and the join returns.
StopCompletes == stop_requested ~> mpc = "exited"

\* Neither a queued job nor the shutdown hangs: no wake-up of the condition
\* variable is lost.
NothingHangs == QueuedJobLeaves /\ StopCompletes

=============================================================================
