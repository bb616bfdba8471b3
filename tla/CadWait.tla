------------------------------ MODULE CadWait ------------------------------
(***************************************************************************)
(* The listen-before-talk wait of MANAGED transmissions.  It exists twice: *)
(* data_tx_wait_channel_free_with_limits_ex polls the channel on the main  *)
(* thread for a direct packet, daemon_tx_execute_job_with_sender_and_cad   *)
(* does so on the worker for a queued one.  Both turn the CAD policy, kept *)
(* in milliseconds and changed by SET at any time, into counts of probes.  *)
(* The module follows one packet at a time: TxWorker shows that a direct   *)
(* packet never meets a queued one.  What a probe does to the radio is in  *)
(* RadioAccess; here it is the reading it returns.                         *)
(***************************************************************************)
EXTENDS Naturals, Sequences

CONSTANTS
    Waits,     \* accepted values of CADWAIT, in ms
    Idles,     \* accepted values of CADIDLE, in ms
    Polls,     \* accepted values of CADPOLL, in ms
    Boot       \* the policy the daemon starts with

Policies == [wait : Waits, idle : Idles, poll : Polls, after : BOOLEAN,
             managed : BOOLEAN]

\* config_status_is_set_cadwait and its like accept 50 to 5000 ms, 0 to 2000
\* ms and 10 to 500 ms.
ASSUME PolicyAssumption ==
    /\ Waits \subseteq Nat \ {0}
    /\ Idles \subseteq Nat
    /\ Polls \subseteq Nat \ {0}
    /\ Boot \in Policies

VARIABLES
    policy,       \* the controller's CAD fields; managed: TXMODE=MANAGED
    phase,        \* who waits: "ready" (nobody), "queued", "worker", "main"
    limits,       \* the packet's copy of the policy, in ticks
    cad_wait,     \* ticks so far (elapsed_ticks in the worker)
    free_ticks,   \* free probes in a row (idle_ticks in the worker)
    verdict,      \* how the last wait ended, "none" before and during one
    asked,        \* history: the policy when the packet was accepted
    seen          \* history: the readings of this wait

cadVars == <<policy, phase, limits, cad_wait, free_ticks, verdict, asked, seen>>

\* What a probe can return.  "packet": the probe answered and `received` is
\* set, which only the main thread looks at.
WorkerReadings == {"free", "busy", "unavailable"}
MainReadings == WorkerReadings \cup {"packet"}

\* daemon_tx_policy_ticks_for_ms
TicksForMs(ms, poll) == (ms + poll - 1) \div poll

\* data_tx_snapshot_cad_policy
Snapshot == [max |-> TicksForMs(policy.wait, policy.poll),
             stable |-> TicksForMs(policy.idle, policy.poll),
             after |-> policy.after, enabled |-> policy.managed]

\* required_free_ticks, stable_ticks
Required == IF limits.stable = 0 THEN 1 ELSE limits.stable

\* radio_controller_init
CadInit ==
    /\ policy = Boot
    /\ phase = "ready"
    /\ limits = [max |-> 0, stable |-> 0, after |-> FALSE, enabled |-> FALSE]
    /\ cad_wait = 0
    /\ free_ticks = 0
    /\ verdict = "none"
    /\ asked = Boot
    /\ seen = <<>>

-----------------------------------------------------------------------------
(* CONF: the main thread handles a SET whenever it is not itself waiting.  *)

SetPolicy(p) ==
    /\ phase # "main"
    /\ policy' = p
    /\ UNCHANGED <<phase, limits, cad_wait, free_ticks, verdict, asked, seen>>

SetCadWait == \E ms \in Waits : SetPolicy([policy EXCEPT !.wait = ms])
SetCadIdle == \E ms \in Idles : SetPolicy([policy EXCEPT !.idle = ms])
SetCadPoll == \E ms \in Polls : SetPolicy([policy EXCEPT !.poll = ms])
SetCadTxAfterTimeout == \E b \in BOOLEAN : SetPolicy([policy EXCEPT !.after = b])

\* SET TXMODE.  `managed` also stands for a LoRa modem: FSK is sent without CAD,
\* and a command that changes the modem waits for an empty queue (TxWorker).
SetTxMode == \E b \in BOOLEAN : SetPolicy([policy EXCEPT !.managed = b])

-----------------------------------------------------------------------------
(* A packet is accepted.                                                   *)

\* The packet takes its limits from the policy of the moment.
Accept(where) ==
    /\ phase = "ready"
    /\ phase' = where
    /\ limits' = Snapshot
    /\ asked' = policy
    /\ cad_wait' = 0
    /\ free_ticks' = 0
    /\ seen' = <<>>
    /\ UNCHANGED policy

\* data_tx_configure_job_cad_policy: the job carries the limits into the queue.
QueueJob ==
    /\ Accept("queued")
    /\ verdict' = "none"

\* daemon_tx_execute_job_with_sender_and_cad: the worker has popped the job;
\* one without CAD is sent at once.
BeginJob ==
    /\ phase = "queued"
    /\ phase' = IF limits.enabled THEN "worker" ELSE "ready"
    /\ verdict' = IF limits.enabled THEN "none" ELSE "free"
    /\ UNCHANGED <<policy, limits, cad_wait, free_ticks, asked, seen>>

\* data_tx_wait_channel_free: DIRECT and FSK do not wait.
SendDirect ==
    /\ Accept(IF policy.managed THEN "main" ELSE "ready")
    /\ verdict' = IF policy.managed THEN "none" ELSE "free"

-----------------------------------------------------------------------------
(* The two loops.                                                          *)

\* Mutant: a busy probe does not restart the count of free ones.
FreeTicksKept(reading) == IF reading = "free" THEN free_ticks + 1 ELSE free_ticks

\* free_ticks, idle_ticks after a probe.
FreeTicks(reading) == IF reading = "free" THEN free_ticks + 1 ELSE 0

\* cad_wait, elapsed_ticks after a probe.
Ticks == cad_wait + 1

\* The channel has been free for long enough.
Stable(reading) == FreeTicks(reading) >= Required

\* The timeout sends only with CADTXAFTERTIMEOUT=1.
TimeoutVerdict == IF limits.after THEN "timeout_send" ELSE "block"

\* The wait is over.
Ends(how) ==
    /\ phase' = "ready"
    /\ verdict' = how
    /\ UNCHANGED <<cad_wait, free_ticks>>

\* The probe neither granted the channel nor ended the attempt.
Counts(reading) ==
    /\ cad_wait' = Ticks
    /\ free_ticks' = FreeTicks(reading)

\* data_tx_wait_channel_free_with_limits_ex, the loop's body.
MainProbe ==
    /\ phase = "main"
    /\ cad_wait < limits.max
    /\ \E reading \in MainReadings :
          /\ seen' = Append(seen, reading)
          /\ \/ /\ reading = "unavailable"
                /\ Ends("error")
             \/ /\ reading = "packet"
                /\ Ends("block")
             \/ /\ reading = "free" /\ Stable(reading)
                /\ Ends("free")
             \/ /\ reading = "busy" \/ (reading = "free" /\ ~Stable(reading))
                /\ Counts(reading)
                /\ UNCHANGED <<phase, verdict>>
    /\ UNCHANGED <<policy, limits, asked>>

\* ... and its end.
MainTimesOut ==
    /\ phase = "main"
    /\ cad_wait >= limits.max
    /\ Ends(TimeoutVerdict)
    /\ UNCHANGED <<policy, limits, asked, seen>>

\* daemon_tx_execute_job_with_sender_and_cad, the loop's body; without a limit
\* (cad_wait_ticks = 0) it has no timeout.
WorkerProbe ==
    /\ phase = "worker"
    /\ \E reading \in WorkerReadings :
          /\ seen' = Append(seen, reading)
          /\ \/ /\ reading = "unavailable"
                /\ Ends("error")
             \/ /\ reading = "free" /\ Stable(reading)
                /\ Ends("free")
             \/ /\ reading = "busy" \/ (reading = "free" /\ ~Stable(reading))
                /\ limits.max > 0 /\ Ticks >= limits.max
                /\ Ends(TimeoutVerdict)
             \/ /\ reading = "busy" \/ (reading = "free" /\ ~Stable(reading))
                /\ ~(limits.max > 0 /\ Ticks >= limits.max)
                /\ Counts(reading)
                /\ UNCHANGED <<phase, verdict>>
    /\ UNCHANGED <<policy, limits, asked>>

CadNext ==
    \/ SetCadWait \/ SetCadIdle \/ SetCadPoll \/ SetCadTxAfterTimeout
    \/ SetTxMode \/ QueueJob \/ BeginJob \/ SendDirect
    \/ MainProbe \/ MainTimesOut \/ WorkerProbe

CadSpec == CadInit /\ [][CadNext]_cadVars

-----------------------------------------------------------------------------
(* The rule both loops implement, in milliseconds and without counters:    *)
(* every probe stands for one poll interval.                               *)

\* The last of the n readings r were free for the idle time of policy p.
IdleLongEnough(p, r, n) ==
    \E k \in 1..n : /\ k * p.poll >= p.idle
                    /\ \A i \in (n - k + 1)..n : r[i] = "free"

\* What policy p says after n of the readings r.
Rule(p, r, n) ==
    IF n = 0 THEN "none"
    ELSE IF r[n] = "unavailable" THEN "error"
    ELSE IF r[n] = "packet" THEN "block"
    ELSE IF IdleLongEnough(p, r, n) THEN "free"
    ELSE IF n * p.poll < p.wait THEN "none"
    ELSE IF p.after THEN "timeout_send" ELSE "block"

\* Main thread and worker decide alike, by the policy the packet was accepted
\* under and whatever SET changes meanwhile: a wait ends at the first probe
\* with a decision, and with that decision.  As the rule always has one when the
\* waiting time is over, no wait outlasts it.
DecisionFollowsReadings ==
    /\ verdict # "none" /\ asked.managed => verdict = Rule(asked, seen, Len(seen))
    /\ \A n \in 0..(Len(seen) - 1) : Rule(asked, seen, n) = "none"

\* When the idle time asked for fits in the waiting time, a channel that is
\* free at every probe is always granted: the timeout never comes first.
SilenceSends ==
    (/\ verdict # "none" /\ asked.managed /\ asked.idle <= asked.wait
     /\ \A i \in 1..Len(seen) : seen[i] = "free") => verdict = "free"

=============================================================================
