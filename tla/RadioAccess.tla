----------------------------- MODULE RadioAccess -----------------------------
(***************************************************************************)
(* Who touches the radio chip, and when: the TX path (lora_send), the      *)
(* active CAD probe, the RX drain, the RX re-arm retry and CONFIG apply,   *)
(* run by the main thread and the TX worker under radio_mutex, next to the *)
(* GPIO alert thread that raises `received` without it.  LoRa mode.        *)
(*                                                                         *)
(* One step is one atomic load or store, one lock operation or one driver  *)
(* call; what two driver calls do is merged only where no other thread can *)
(* see the state between them.  RSSI reads change nothing and are left     *)
(* out.  That the main thread's own use of the radio (direct TX, CONFIG)   *)
(* never meets a job of the worker is module TxWorker's result; here it is *)
(* the guard QueueIdle.                                                    *)
(***************************************************************************)
EXTENDS Naturals

CONSTANTS
    FailLimit,   \* DAEMON_RX_REARM_FAIL_LIMIT (30)
    MaxJobs      \* bound: jobs handed to the worker

ASSUME LimitAssumption == FailLimit \in Nat \ {0} /\ MaxJobs \in Nat

VARIABLES
    (* the chip and its interrupt line *)
    chip,        \* operating mode
    rxDone,      \* the IRQ flags of a received packet are latched, DIO0 high
    loaded,      \* the chip reports a packet length above zero
    attached,    \* rx_callback is installed on DIO0
    alert,       \* an edge the alert thread has not delivered yet
    (* RadioController *)
    received, tx_busy, ready,
    rx_rearm_pending,
    failures,    \* rx_rearm_consecutive_failures
    owner,       \* holder of radio_mutex
    (* the threads *)
    pc, op,
    jobs, done,  \* jobs handed to the worker, jobs it has finished
    (* history *)
    discarded    \* `received` was dropped during a TX since the last re-arm

chipVars == <<chip, rxDone, loaded, attached, alert>>
armVars == <<rx_rearm_pending, failures, ready>>
jobVars == <<jobs, done>>
vars == <<chipVars, armVars, jobVars, received, tx_busy, owner, pc, op,
          discarded>>

Threads == {"main", "worker"}

\* The labels at which a thread holds radio_mutex.
Locked == {"channel_check", "probe_check", "quiesce", "look", "detach", "scan",
           "restore", "arm", "prepare", "standby", "transmit", "retry_check",
           "rx_check", "rx_read", "config_apply"}

Labels == Locked \union
          {"sockets", "idle", "decide", "probe_lock", "channel_busy",
           "channel_try", "answered", "acquire", "send_lock", "release",
           "retry", "retry_look", "retry_try", "rx", "rx_busy", "rx_discard",
           "rx_lock", "config_lock"}

\* Every variable stays in its range.  The re-arm counter passes the limit by
\* at most one: the thread that was already beyond its readiness check when
\* the other one failed the radio.
TypeOK ==
    /\ chip \in {"rx", "standby"}
    /\ rxDone \in BOOLEAN /\ loaded \in BOOLEAN /\ attached \in BOOLEAN
    /\ alert \in {"none", "packet", "other"}
    /\ received \in BOOLEAN /\ tx_busy \in BOOLEAN /\ ready \in BOOLEAN
    /\ rx_rearm_pending \in BOOLEAN /\ discarded \in BOOLEAN
    /\ failures \in 0..(FailLimit + 1)
    /\ owner \in Threads \union {"none"}
    /\ pc \in [Threads -> Labels]
    /\ op \in [Threads -> {"none", "channel", "cad", "send", "config",
                           "plain"}]
    /\ jobs \in 0..MaxJobs /\ done \in 0..jobs

\* lora_init succeeded: callback installed, receiving.
Init ==
    /\ chip = "rx" /\ rxDone = FALSE /\ loaded = FALSE /\ attached = TRUE
    /\ alert = "none"
    /\ received = FALSE /\ tx_busy = FALSE /\ ready = TRUE
    /\ rx_rearm_pending = FALSE /\ failures = 0 /\ discarded = FALSE
    /\ owner = "none"
    /\ pc = [main |-> "sockets", worker |-> "idle"]
    /\ op = [t \in Threads |-> "none"]
    /\ jobs = 0 /\ done = 0

Go(t, label) == pc' = [pc EXCEPT ![t] = label]

\* Where a thread is between operations.
Home(t) == IF t = "main" THEN "sockets" ELSE "idle"

\* lock_guard: blocks while another thread holds radio_mutex.
Lock(t) == owner = "none" /\ owner' = t

Unlock == owner' = "none"

\* unique_lock(try_to_lock).owns_lock()
TryLock == owner = "none"

-----------------------------------------------------------------------------
(* The chip (external, as the driver calls of the daemon rely on it).      *)

\* A packet completes: RxDone rises, and with it DIO0 unless it is still
\* high from an earlier packet.  Only a rising edge makes an alert.
PacketArrives ==
    /\ chip = "rx"
    /\ rxDone' = TRUE
    /\ loaded' = TRUE
    /\ alert' = IF attached /\ ~rxDone THEN "packet" ELSE alert
    /\ UNCHANGED <<chip, attached, armVars, jobVars, received, tx_busy, owner,
                   pc, op, discarded>>

\* setFlag, run by the alert thread some time after the edge.
Alert ==
    /\ alert # "none"
    /\ alert' = "none"
    /\ received' = TRUE
    /\ UNCHANGED <<chip, rxDone, loaded, attached, armVars, jobVars, tx_busy,
                   owner, pc, op, discarded>>

\* Mutant: the callback stays on DIO0.
CallbackKept == UNCHANGED <<attached, alert>>

\* clearPacketReceivedAction: drops an undelivered edge, but not a callback
\* the alert thread is already running.
ClearPacketReceivedAction ==
    /\ attached' = FALSE
    /\ alert' \in {alert, "none"}

\* A completion other than RxDone (CadDone, TxDone) raises DIO0.
OtherEdge == alert' = IF attached THEN "other" ELSE alert

-----------------------------------------------------------------------------
(* Re-arming the receiver.                                                 *)

\* Mutant: the latch outlives the recovery.
SuccessKeepsLatch == failures' = 0 /\ UNCHANGED <<rx_rearm_pending, ready>>

\* daemon_rx_rearm_note_result of a successful startReceive
NoteSuccess ==
    /\ failures' = 0
    /\ rx_rearm_pending' = FALSE
    /\ UNCHANGED ready

\* Mutant: the latch is forgotten.
FailureUnlatched ==
    /\ failures' = failures + 1
    /\ ready' = (ready /\ failures + 1 < FailLimit)
    /\ UNCHANGED rx_rearm_pending

\* daemon_rx_rearm_note_result of a failed one: latch, and fail the radio at
\* the limit
NoteFailure ==
    /\ failures' = failures + 1
    /\ ready' = (ready /\ failures + 1 < FailLimit)
    /\ rx_rearm_pending' = TRUE

\* driver->startReceive and what the daemon does with its result.  Starting
\* clears the IRQ flags; a failed start may stop before or after that.
StartReceive ==
    \/ /\ chip' = "rx"
       /\ rxDone' = FALSE
       /\ discarded' = FALSE
       /\ NoteSuccess
    \/ /\ chip' = "standby"
       /\ rxDone' \in {rxDone, FALSE}
       /\ UNCHANGED discarded
       /\ NoteFailure

-----------------------------------------------------------------------------
(* The active CAD probe (radio_cad_probe, radio_cad_try_probe).            *)

\* The probe returns.  GET CHANNEL is over; a TX gate goes on to judge the
\* verdict, or gives the TX up when there is none.
ProbeReturns(t, verdict) ==
    /\ Unlock
    /\ Go(t, IF op[t] = "cad" /\ verdict THEN "answered" ELSE Home(t))
    /\ op' = [op EXCEPT ![t] = IF verdict /\ @ = "cad" THEN @ ELSE "none"]
    /\ done' = IF t = "worker" /\ ~verdict THEN done + 1 ELSE done

\* radio_cad_probe blocks; the worker's wrapper looks at the health only
\* under the lock, the main thread has done so before.
ProbeLock(t) ==
    /\ pc[t] = "probe_lock"
    /\ Lock(t)
    /\ Go(t, "probe_check")
    /\ UNCHANGED <<chipVars, armVars, jobVars, received, tx_busy, op,
                   discarded>>

\* The checks before the radio is touched: an undrained packet reads as
\* BUSY, a dead radio or a pending re-arm as no verdict.
ProbeCheck(t) ==
    /\ pc[t] = "probe_check"
    /\ IF t = "worker" /\ ~ready THEN ProbeReturns(t, FALSE)
       ELSE IF received THEN ProbeReturns(t, TRUE)
       ELSE IF rx_rearm_pending THEN ProbeReturns(t, FALSE)
       ELSE Go(t, "quiesce") /\ UNCHANGED <<owner, op, done>>
    /\ UNCHANGED <<chipVars, armVars, jobs, received, tx_busy, discarded>>

\* radio_cad_quiesce_and_check_rx: standby() ends reception ...
Quiesce(t) ==
    /\ pc[t] = "quiesce"
    /\ chip' = "standby"
    /\ Go(t, "look")
    /\ UNCHANGED <<rxDone, loaded, attached, alert, armVars, jobVars, received,
                   tx_busy, owner, op, discarded>>

\* ... or fails and the probe has no verdict ...
QuiesceFails(t) ==
    /\ pc[t] = "quiesce"
    /\ ProbeReturns(t, FALSE)
    /\ UNCHANGED <<chipVars, armVars, jobs, received, tx_busy, discarded>>

\* Mutant: only the daemon's own flag is asked.
PacketFlagged == received

\* What quiesce_and_check_rx asks once the receiver has stopped.
PacketSeen == received \/ rxDone

\* ... and then the answer is final: a packet is handed to the drain.
Look(t) ==
    /\ pc[t] = "look"
    /\ IF PacketSeen
         THEN received' = TRUE /\ ProbeReturns(t, TRUE)
         ELSE Go(t, "detach") /\ UNCHANGED <<received, owner, op, done>>
    /\ UNCHANGED <<chipVars, armVars, jobs, tx_busy, discarded>>

Detach(t) ==
    /\ pc[t] = "detach"
    /\ ClearPacketReceivedAction
    /\ Go(t, "scan")
    /\ UNCHANGED <<chip, rxDone, loaded, armVars, jobVars, received, tx_busy,
                   owner, op, discarded>>

\* scanChannel clears the IRQ flags, remaps DIO0 to CadDone, waits for it and
\* leaves the chip in standby.  A radio that is no longer ready is not
\* restored.
Scan(t) ==
    /\ pc[t] = "scan"
    /\ rxDone' = FALSE
    /\ OtherEdge
    /\ IF ready THEN Go(t, "restore") /\ UNCHANGED <<owner, op, done>>
                ELSE ProbeReturns(t, TRUE)
    /\ UNCHANGED <<chip, loaded, attached, armVars, jobs, received, tx_busy,
                   discarded>>

\* The end of a probe and of a TX alike: clear the IRQ flags, drop `received`
\* ...
Restore(t) ==
    /\ pc[t] = "restore"
    /\ rxDone' = FALSE
    /\ received' = FALSE
    /\ Go(t, "arm")
    /\ UNCHANGED <<chip, loaded, attached, alert, armVars, jobVars, tx_busy,
                   owner, op, discarded>>

\* ... reinstall the callback and start the receiver.
Arm(t) ==
    /\ pc[t] = "arm"
    /\ attached' = TRUE
    /\ StartReceive
    /\ IF op[t] = "send" THEN Unlock /\ Go(t, "release") /\ UNCHANGED <<op, done>>
                         ELSE ProbeReturns(t, TRUE)
    /\ UNCHANGED <<loaded, alert, jobs, received, tx_busy>>

-----------------------------------------------------------------------------
(* A transmission: the CAD gate and lora_send_controller.                  *)

\* A TX that will not happen, or is over.
TxEnds(t) ==
    /\ Go(t, Home(t))
    /\ op' = [op EXCEPT ![t] = "none"]
    /\ done' = IF t = "worker" THEN done + 1 ELSE done

\* MANAGED probes the channel first (the main thread's radio_cad_probe needs
\* a ready radio before the lock), DIRECT goes straight to the send.
Gate(t) ==
    /\ pc[t] = "decide"
    /\ UNCHANGED <<chipVars, armVars, jobs, received, tx_busy, owner, discarded>>
    /\ \/ /\ t = "main" => ready
          /\ Go(t, "probe_lock")
          /\ op' = [op EXCEPT ![t] = "cad"]
          /\ UNCHANGED done
       \/ /\ t = "main" /\ ~ready
          /\ TxEnds(t)
       \/ /\ Go(t, "acquire")
          /\ UNCHANGED <<op, done>>

\* The verdict is FREE or BUSY: probe again ...
Reprobe(t) ==
    /\ pc[t] = "answered"
    /\ t = "main" => ~received
    /\ Go(t, "decide")
    /\ UNCHANGED <<chipVars, armVars, jobVars, received, tx_busy, owner, op,
                   discarded>>

\* ... or give up, or send (idle for long enough, or timed out with
\* CADTXAFTERTIMEOUT=1).  On the main thread, which alone can drain it, a
\* waiting packet ends the attempt.
Judge(t) ==
    /\ pc[t] = "answered"
    /\ UNCHANGED <<chipVars, armVars, jobs, received, tx_busy, owner, discarded>>
    /\ \/ TxEnds(t)
       \/ /\ t = "main" => ~received
          /\ Go(t, "acquire")
          /\ UNCHANGED <<op, done>>

\* lora_send_controller up to tx_busy.exchange(true)
SendAcquire(t) ==
    /\ pc[t] = "acquire"
    /\ UNCHANGED <<chipVars, armVars, jobs, received, owner, discarded>>
    /\ IF ready /\ ~tx_busy
         THEN /\ tx_busy' = TRUE
              /\ Go(t, "send_lock")
              /\ op' = [op EXCEPT ![t] = "send"]
              /\ UNCHANGED done
         ELSE TxEnds(t) /\ UNCHANGED tx_busy

SendLock(t) ==
    /\ pc[t] = "send_lock"
    /\ Lock(t)
    /\ Go(t, "prepare")
    /\ UNCHANGED <<chipVars, armVars, jobVars, received, tx_busy, op, discarded>>

\* lora_send_prepare_controller_tx: drop `received`, take the callback off ...
SendPrepare(t) ==
    /\ pc[t] = "prepare"
    /\ received' = FALSE
    /\ ClearPacketReceivedAction
    /\ Go(t, "standby")
    /\ UNCHANGED <<chip, rxDone, loaded, armVars, jobVars, tx_busy, owner, op,
                   discarded>>

\* ... standby, clear the IRQ flags; 433 MHz also sleeps, emptying the FIFO.
SendStandby(t) ==
    /\ pc[t] = "standby"
    /\ chip' = "standby"
    /\ rxDone' = FALSE
    /\ loaded' \in {loaded, FALSE}
    /\ Go(t, "transmit")
    /\ UNCHANGED <<attached, alert, armVars, jobVars, received, tx_busy, owner,
                   op, discarded>>

\* transmit() blocks until TxDone or an error; either way RX is restored.
Transmit(t) ==
    /\ pc[t] = "transmit"
    /\ OtherEdge
    /\ Go(t, "restore")
    /\ UNCHANGED <<chip, rxDone, loaded, attached, armVars, jobVars, received,
                   tx_busy, owner, op, discarded>>

\* Mutant: TX ownership is only given back when RX came up again.
ReleaseOnlyWhenArmed == tx_busy' = rx_rearm_pending

\* lora_send_release_controller_tx, after the unlock
ReleaseTx == tx_busy' = FALSE

SendRelease(t) ==
    /\ pc[t] = "release"
    /\ ReleaseTx
    /\ TxEnds(t)
    /\ UNCHANGED <<chipVars, armVars, jobs, received, owner, discarded>>

-----------------------------------------------------------------------------
(* The worker's jobs and the main thread's socket pass.                    *)

\* The main thread hands a job to the worker.
SubmitJob ==
    /\ pc.main = "sockets"
    /\ ready
    /\ jobs < MaxJobs
    /\ jobs' = jobs + 1
    /\ UNCHANGED <<chipVars, armVars, received, tx_busy, owner, pc, op, done,
                   discarded>>

WorkerTakesJob ==
    /\ pc.worker = "idle"
    /\ done < jobs
    /\ Go("worker", "decide")
    /\ UNCHANGED <<chipVars, armVars, jobVars, received, tx_busy, owner, op,
                   discarded>>

\* No job pending and none executing (the gates of send_data_chunk and of
\* config_dispatch_apply_line).
QueueIdle == done = jobs

\* send_data_chunk with the queue off: the main thread transmits itself.
DirectTx ==
    /\ pc.main = "sockets"
    /\ ready
    /\ QueueIdle
    /\ ~tx_busy
    /\ Go("main", "decide")
    /\ UNCHANGED <<chipVars, armVars, jobVars, received, tx_busy, owner, op,
                   discarded>>

\* GET CHANNEL: with a packet waiting it answers without a scan ...
GetChannel ==
    /\ pc.main = "sockets"
    /\ ready
    /\ ~received
    /\ Go("main", "channel_busy")
    /\ op' = [op EXCEPT !["main"] = "channel"]
    /\ UNCHANGED <<chipVars, armVars, jobVars, received, tx_busy, owner,
                   discarded>>

\* ... and radio_cad_try_probe skips the scan during a TX ...
ChannelBusy ==
    /\ pc.main = "channel_busy"
    /\ IF tx_busy THEN Go("main", "sockets") /\ op' = [op EXCEPT !["main"] = "none"]
                  ELSE Go("main", "channel_try") /\ UNCHANGED op
    /\ UNCHANGED <<chipVars, armVars, jobVars, received, tx_busy, owner,
                   discarded>>

\* ... or when the radio is taken ...
ChannelTry ==
    /\ pc.main = "channel_try"
    /\ IF TryLock
         THEN owner' = "main" /\ Go("main", "channel_check") /\ UNCHANGED op
         ELSE /\ Go("main", "sockets")
              /\ op' = [op EXCEPT !["main"] = "none"]
              /\ UNCHANGED owner
    /\ UNCHANGED <<chipVars, armVars, jobVars, received, tx_busy, discarded>>

\* ... or when a TX was announced in between.
ChannelCheck ==
    /\ pc.main = "channel_check"
    /\ IF tx_busy THEN ProbeReturns("main", FALSE)
                  ELSE Go("main", "probe_check") /\ UNCHANGED <<owner, op, done>>
    /\ UNCHANGED <<chipVars, armVars, jobs, received, tx_busy, discarded>>

\* A CONF command that reaches the apply step.  One that touches the radio is
\* refused while the queue is busy, a plain one (GETRSSI, unknown, malformed)
\* is not.
ConfigStart ==
    /\ pc.main = "sockets"
    /\ ready
    /\ \E kind \in (IF QueueIdle THEN {"config", "plain"} ELSE {"plain"}) :
          op' = [op EXCEPT !["main"] = kind]
    /\ Go("main", "config_lock")
    /\ UNCHANGED <<chipVars, armVars, jobVars, received, tx_busy, owner,
                   discarded>>

ConfigLock ==
    /\ pc.main = "config_lock"
    /\ Lock("main")
    /\ Go("main", "config_apply")
    /\ UNCHANGED <<chipVars, armVars, jobVars, received, tx_busy, op, discarded>>

ConfigReturns ==
    /\ Unlock
    /\ Go("main", "sockets")
    /\ op' = [op EXCEPT !["main"] = "none"]

\* apply_config: the radio was set and RX restarts, without a look at
\* `received` ...
ConfigApplied ==
    /\ pc.main = "config_apply"
    /\ op.main = "config"
    /\ attached' = TRUE
    /\ StartReceive
    /\ ConfigReturns
    /\ UNCHANGED <<loaded, alert, jobVars, received, tx_busy>>

\* ... or it was left alone ...
ConfigNoOp ==
    /\ pc.main = "config_apply"
    /\ ConfigReturns
    /\ UNCHANGED <<chipVars, armVars, jobVars, received, tx_busy, discarded>>

\* ... or a setter failed: the radio is given up, stopped or still receiving.
ConfigHwError ==
    /\ pc.main = "config_apply"
    /\ op.main = "config"
    /\ ready' = FALSE
    /\ chip' \in {chip, "standby"}
    /\ ConfigReturns
    /\ UNCHANGED <<rxDone, loaded, attached, alert, rx_rearm_pending, failures,
                   jobVars, received, tx_busy, discarded>>

\* The socket pass is over: the radio tick follows.
SocketsDone ==
    /\ pc.main = "sockets"
    /\ Go("main", "retry")
    /\ UNCHANGED <<chipVars, armVars, jobVars, received, tx_busy, owner, op,
                   discarded>>

-----------------------------------------------------------------------------
(* The radio tick: daemon_rx_rearm_retry, then daemon_process_radio_band.  *)

\* Nothing pending, a TX in flight, or not yet due.
RetrySkip ==
    /\ pc.main = "retry"
    /\ Go("main", "rx")
    /\ UNCHANGED <<chipVars, armVars, jobVars, received, tx_busy, owner, op,
                   discarded>>

RetryDue ==
    /\ pc.main = "retry"
    /\ rx_rearm_pending
    /\ ~tx_busy
    /\ Go("main", "retry_look")
    /\ UNCHANGED <<chipVars, armVars, jobVars, received, tx_busy, owner, op,
                   discarded>>

\* A dead radio is left alone, an undrained packet left to the drain.
RetryLook ==
    /\ pc.main = "retry_look"
    /\ Go("main", IF ready /\ ~received THEN "retry_try" ELSE "rx")
    /\ UNCHANGED <<chipVars, armVars, jobVars, received, tx_busy, owner, op,
                   discarded>>

RetryTry ==
    /\ pc.main = "retry_try"
    /\ IF TryLock THEN owner' = "main" /\ Go("main", "retry_check")
                  ELSE Go("main", "rx") /\ UNCHANGED owner
    /\ UNCHANGED <<chipVars, armVars, jobVars, received, tx_busy, op, discarded>>

\* tx_busy is asked again under the lock; `received` is not.
RetryArm ==
    /\ pc.main = "retry_check"
    /\ ~tx_busy
    /\ attached' = TRUE
    /\ StartReceive
    /\ Unlock
    /\ Go("main", "rx")
    /\ UNCHANGED <<loaded, alert, jobVars, received, tx_busy, op>>

RetryYields ==
    /\ pc.main = "retry_check"
    /\ tx_busy
    /\ Unlock
    /\ Go("main", "rx")
    /\ UNCHANGED <<chipVars, armVars, jobVars, received, tx_busy, op, discarded>>

RxLook ==
    /\ pc.main = "rx"
    /\ Go("main", IF ready /\ received THEN "rx_busy" ELSE "sockets")
    /\ UNCHANGED <<chipVars, armVars, jobVars, received, tx_busy, owner, op,
                   discarded>>

RxBusy ==
    /\ pc.main = "rx_busy"
    /\ Go("main", IF tx_busy THEN "rx_discard" ELSE "rx_lock")
    /\ UNCHANGED <<chipVars, armVars, jobVars, received, tx_busy, owner, op,
                   discarded>>

\* daemon_discard_rx_during_tx
DiscardRx == received' = FALSE /\ discarded' = TRUE

RxDiscard ==
    /\ pc.main = "rx_discard"
    /\ DiscardRx
    /\ Go("main", "sockets")
    /\ UNCHANGED <<chipVars, armVars, jobVars, tx_busy, owner, op>>

\* The blocking lock of the drain.
RxLock ==
    /\ pc.main = "rx_lock"
    /\ Lock("main")
    /\ Go("main", "rx_check")
    /\ UNCHANGED <<chipVars, armVars, jobVars, received, tx_busy, op, discarded>>

\* The recheck under the lock; `received` goes down before the read.
RxCheck ==
    /\ pc.main = "rx_check"
    /\ IF tx_busy
         THEN DiscardRx /\ Unlock /\ Go("main", "sockets")
         ELSE received' = FALSE /\ Go("main", "rx_read")
              /\ UNCHANGED <<owner, discarded>>
    /\ UNCHANGED <<chipVars, armVars, jobVars, tx_busy, op>>

\* getPacketLength, readData, broadcast or drop: every branch ends by
\* clearing the IRQ flags and restarting the receiver.
RxRead ==
    /\ pc.main = "rx_read"
    /\ StartReceive
    /\ Unlock
    /\ Go("main", "sockets")
    /\ UNCHANGED <<loaded, attached, alert, jobVars, received, tx_busy, op>>

-----------------------------------------------------------------------------

\* A thread in the middle of an operation both threads can run.
Step(t) ==
    \/ ProbeLock(t) \/ ProbeCheck(t) \/ Quiesce(t) \/ QuiesceFails(t)
    \/ Look(t) \/ Detach(t) \/ Scan(t) \/ Restore(t) \/ Arm(t)
    \/ Gate(t) \/ Reprobe(t) \/ Judge(t) \/ SendAcquire(t) \/ SendLock(t)
    \/ SendPrepare(t) \/ SendStandby(t) \/ Transmit(t) \/ SendRelease(t)

Tick ==
    \/ RetrySkip \/ RetryDue \/ RetryLook \/ RetryTry \/ RetryArm \/ RetryYields
    \/ RxLook \/ RxBusy \/ RxDiscard \/ RxLock \/ RxCheck \/ RxRead

Sockets ==
    \/ SubmitJob \/ DirectTx \/ GetChannel \/ ChannelBusy \/ ChannelTry
    \/ ChannelCheck \/ ConfigStart \/ ConfigLock \/ ConfigApplied \/ ConfigNoOp
    \/ ConfigHwError \/ SocketsDone

Next ==
    \/ PacketArrives
    \/ Alert
    \/ Sockets
    \/ Tick
    \/ WorkerTakesJob
    \/ \E t \in Threads : Step(t)

\* Each thread runs on.  A socket pass serves finitely many clients and a CAD
\* wait is limited in ticks, so both end; the clock passes the retry's
\* deadline again and again; a thread blocked on radio_mutex gets it in the
\* end when it is freed again and again.
Fairness ==
    /\ WF_vars(Alert)
    /\ WF_vars(Step("worker") \/ WorkerTakesJob)
    /\ WF_vars(Step("main") \/ Tick \/ Sockets)
    /\ SF_vars(SocketsDone)
    /\ SF_vars(RetryDue)
    /\ \A t \in Threads : SF_vars(Judge(t)) /\ SF_vars(SendLock(t))

Spec == Init /\ [][Next]_vars /\ Fairness

-----------------------------------------------------------------------------
(* Properties.                                                             *)

\* An active probe never destroys a completed packet ("can never destroy a
\* pending packet"): once it detaches the callback, scans and re-arms, the
\* receiver is stopped and the chip holds no undrained packet, although the
\* flag `received` may lag behind the chip.
ProbeKeepsPacket ==
    \A t \in Threads :
       pc[t] \in {"detach", "scan"} => chip = "standby" /\ ~rxDone

\* The completion of a CAD or of a transmission, which share DIO0 with
\* RxDone, is never taken for a packet.
OnlyPacketsAlert == alert # "other"

\* The radio is free, RXREADY reads 1 and no drain is due, but no packet can
\* raise an alert: the receiver is stopped or DIO0 is still high.
Deaf ==
    /\ ready /\ ~rx_rearm_pending
    /\ owner = "none" /\ ~tx_busy /\ ~received /\ alert = "none"
    /\ chip # "rx" \/ rxDone

\* No failed re-arm, abandoned probe, TX, drain or CONFIG command leaves a
\* READY but deaf radio: the latch, the health or `received` always tells.
\* The one exception is a packet discarded during a TX.
DeafOnlyAfterDiscard == Deaf => discarded

\* A failed re-arm is resolved: the receiver comes back or the radio is
\* reported FAILED.
RearmResolved == rx_rearm_pending ~> (~rx_rearm_pending \/ ~ready)

\* A started TX gives tx_busy back, whatever the radio does and whoever else
\* wants the mutex.
TxReleases == tx_busy ~> ~tx_busy

\* What the documents and comments say and the code does not hold (the README
\* gives the counterexamples).

\* RXREADY=1 means the receiver is armed, as GET STATUS documents it.
RxReadyMeansArmed == ~Deaf

\* The RX drain returns without blocking while a TX is in flight: it does not
\* wait for a mutex the worker holds across transmit().
RxNeverBlocksOnTx == ~(pc.main = "rx_lock" /\ pc.worker = "transmit")

\* The IRQ flags of the packet are still there when readData() derives the
\* CRC verdict from them.
ReadFindsItsIrqFlags == pc.main = "rx_read" /\ loaded => rxDone

==============================================================================
