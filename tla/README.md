# TLA+ models of the LoRaHAM daemon

This directory holds TLA+ specifications of the LoRaHAM daemon
(`loraham_daemon/`), TLC configurations that check them on small instances,
and TLAPS proofs of theorems about them.

The daemon drives one LoRa/FSK radio per process and shares it between local
clients over three Unix sockets: raw DATA, framed DATA and CONF. Three threads
of control matter:

* the **main thread**, an epoll loop: accept, raw DATA, framed DATA, completion
  drain, CONF, flush, then the radio tick (RX re-arm retry, RX drain), then
  monitoring;
* the **TX worker**, which takes jobs from a bounded queue, gates them on CAD
  and transmits, holding `radio_mutex` across the blocking `transmit()`;
* the **GPIO alert thread**, which runs `setFlag` (`received = true`) some time
  after DIO0 rose, holding no lock.

## 1. Inventory

| Component | State | Operations | Interacts with | What is hard | What makes it correct |
|---|---|---|---|---|---|
| TX queue, async worker (`daemon_tx_queue`, `daemon_tx_worker`, `daemon_tx_async_*`) | ring of 8 jobs, counters, `running`, `stop_requested`, `job_active`, thread | start, submit, loop, stop, reinit | DATA paths submit, CONF reads `pending`/`job_active`, completion queue | pop and `job_active` are visible separately to readers; wake-ups; shutdown | no job lost or done twice, in order; stop ends; thread never overwritten |
| TX completion bridge (`daemon_tx_completion`) | ring of 16 results, `dropped`, stale count | push (worker), pop and deliver (main) | client slots | slot and generation captured seconds earlier | a result reaches only its own client |
| DATA TX runtime (`data_tx`, `daemon_data_tx_runtime`) | none of its own | read budget, chunk loop, queued and direct path, CAD wait | queue, radio | direct path next to residual jobs; bytes read but not accepted | budgeted reads always fit; direct and queued never interleave |
| TX executor (`daemon_tx_executor`) | tick counters | CAD loop, send | probe, `lora_send` | stable-idle and timeout counting | never sends without a verdict or an explicit timeout opt-in |
| Framed DATA (`framed_data*`, `daemon_framed_data_runtime`) | parser per slot | feed, packet, error, immediate result, drain | slots, TX path | slot closed in mid-read and reused | one answer per packet, to its sender; frames of one client only |
| Client slots, output queues | fd, generation, stream, bounded output | accept, close, append, flush, broadcast | all sockets | slow clients are closed by the daemon itself | generations tell clients of a slot apart |
| Radio TX path (`daemon_tx`) | `tx_busy`, status generation | acquire, prepare, transmit, restore, release | `radio_mutex`, RX re-arm | `tx_busy` and mutex are taken and released in different steps | always restores RX and releases |
| RX runtime (`daemon_rx`) | `received` | look, check, lock, read, restart | alert thread, TX, clients | checks race with a TX that begins | no block behind a TX; reads see their IRQ flags |
| RX re-arm (`daemon_rx_rearm`) | `rx_rearm_pending`, failure count, health | note result, retry | every path that restarts RX | failures on any path | never READY and silently deaf |
| CAD probes (`radio_cad`) | `cad_active`, monitor streak | active probe, try-probe, passive probe, monitor tick | TX gate, GET CHANNEL | DIO0 is shared; `received` lags behind the chip | no completed packet destroyed, no phantom packet |
| CONFIG (`config_*`) | effective configuration, replay record, settings, a line per slot | line assembly, parse, validate, apply, replies | queue gate, radio, re-arm, USB re-init | apply is sequential and can fail half-way; the airtime gate works on a shadow; slots close in mid-line | a command takes effect wholly or ends in a hardware error; the shadow is the chip; one answer per line |
| Monitoring and LED (`daemon_monitoring`, `daemon_stats`, `daemon_led`) | broadcast generation, hysteresis, LED state | TX status, CAD edges, RSSI stream, LED update | atomics of TX and CAD, the worker's own LED update | whole TXs between two ticks; two threads write the LED | edges announced in order; the LED shows the state |
| Event loop (`event_loop*`, `radio_channel`, `daemon_socket_*`, `daemon_io_runtime`) | epoll registrations | wait, ready, reconcile | slots | fd numbers reused within a pass | registrations follow the slots |
| USB wait, CH341 (`daemon_usb_wait`, `daemon_ch341_*`, `ch341_*`) | wait state, deadline, loss flag, bound stick | loss, grace, teardown, reselect, re-init, replay | worker (`radio_mutex`, driver pointer), CONFIG replay | loss is noticed in any thread; unplug and replug race | a present stick is kept, a gone one awaited, no use of a dead driver |
| Meshstick selection (`daemon_ch341_select`) | snapshot, walk, held sticks, deadlines | scan, decide, open, check, bind, walk | libusb, other daemons' sticks | the bus changes between any two steps | the right stick or none; no handle leaked; no stick left waiting |
| Startup, locks, lifecycle | instance lock, GPIO locks, SPI `flock`, socket files, descriptor table | acquire in order, background, crash, restart, release in order | other processes | crash between any two steps; numbers reused | one daemon per instance; no foreign socket deleted; hardware exclusive |
| Drivers, profiles, boot options, logging | registers, tables, log files | | | LDRO between driver and RadioLib; the RF log's descriptor | modelled where another component depends on them |
| Client programs, archive | | | | | not modelled |

`PROJECT.json` lists each component with its status, and under `hazards`, at
its source line, what a test would hardly reach.

## 2. Plan

The plan, in the order in which the modules were written; all of it is done
except where noted:

1. `TxWorker`, the queue, the worker and the gates around them, with the
   proofs in `TxWorkerProofs`.
2. `FramedChannel`, framed clients, slots with generations, deferred results.
3. `RadioAccess`, the chip between the main thread, the worker and the alert
   thread.
4. `UsbWait`, the Meshstick's unplug-wait next to the worker's use of the
   driver.
5. `ConfigPolicy`, `ConfigApply` and the abstract `AtomicConfig`, the CONF
   apply path and what its clients are promised.
6. `ConfChannel`, the CONF socket, the monitoring and the LED.
7. `FramedParser`, the byte parser against a reference definition.
8. `StickSelect`, the selection of the stick in full.
9. `EventLoop`, registrations and descriptor reuse.
10. `Startup`, several processes, locks, socket files, crash and restart.
11. `CadWait`, the counting of the two CAD wait loops against one definition of
    when a send is allowed.

Every module with state has its proofs, and every safety property a run checks is
a theorem (section 6).

## 3. Modules and how they correspond to the code

A step is one critical section, one atomic load or store, one lock or
condition-variable operation, one system call group or one driver call.
Definitions keep the source's names where they can; `PROJECT.json` maps each
one to its lines. Operators marked `Mutant`, or named for a fault and standing
directly before the definition they vary, are broken variants of it; no
specification uses them.

**`TxWorker`** (`MCTxWorker`). State: the queue and completion queue as
sequences of jobs, the worker's counters, flags and program counter, the main
thread's program counter. A job carries its acceptance number and the RF
configuration in force when it was accepted. The main thread handles raw and
framed chunks (`RawRead`, `FramedPacket`, `ChunkRoute`, start, submit, notify),
`SET TXQUEUE`, RF changes (`ReadPending` and `ReadActive` are the two separate
looks of the gate), direct transmissions, the completion drain and the
shutdown. The worker waits, pops, aborts or transmits, finishes and records.

**`CadWait`** (`MCTxWorker`, which runs it or `TxWorker`; the two share no
state). State: the CAD policy in milliseconds, the packet's copy of it in ticks, the two counters, and as history the policy at acceptance
and the readings so far. The wait loop exists twice, on the main thread for
direct packets (`MainProbe`, `MainTimesOut`) and in the worker for queued ones
(`WorkerProbe`); SETs come at any time but during a wait of the main thread
itself. A probe is the reading it returns (its effect on the chip is
`RadioAccess`'s), and only the main thread looks at `received` after it. The
sleep between two probes is not a step.

**`FramedChannel`** (`MCFramedChannel`). State: per slot the connection, its
generation, what the parser holds and the queued output; the jobs and
completions with their target. Steps follow one pass of
`daemon_process_ready_sockets`; a read is fed in units (part of a frame, end of
a skipped payload, a rejected frame, a packet), so a slot may be closed between
two units of the same read. Output is counted in messages. Generations run
modulo `GenModulus` and skip 0 as in `client_slot_next_generation`.

**`RadioAccess`** (`MCRadioAccess`). State: the chip (receiving or not, RxDone
latched, packet length known, callback installed, undelivered edge), the
controller's flags, the mutex, and both threads' program counters. The threads
share the actions of the probe and of the send. `StartReceive` may always fail;
a failed one leaves the chip stopped, with its IRQ flags cleared or not. A
failed `standby()` leaves it receiving. An edge that is already being delivered
survives `clearPacketReceivedAction`. The main thread's direct TX and CONFIG
changes start only when the queue is idle, which is what `TxWorker` establishes.

**`UsbWait`** (`MCUsbWait`). State: the bus (the connection libusb lists, the
events it still owes or has queued), the monitor's binding and flags, health,
driver and the HAL's latch, the replay record, the wait's state and flags, the
selection in outline, the open handles, and the program counters of both
threads. One plugging-in of the stick is one connection with a device object of
its own, so "the same stick is back" and "it never left" are different states.
libusb changes its list before it queues the event, which is the race the two
looks of `present_bound` are about. The worker's `failure()` is three steps
(latch, health, flag), the main thread's one, since its other steps cannot come
in between. Any USB call may fail while the stick is present, and must when it
is not. `asked` is a history variable: what the clients' commands have set.
lora_init's intermediate UNINITIALIZED and FAILED are not separate steps (no
one is admitted in them); READY before the replay is.

**`StickSelect`** (`MCStickSelect`). State: the sticks, their ports, serials,
connections and condition (fine, claimed by somebody else, denied until udev has
run, unreadable), the events not taken yet, the selection's snapshot and phase,
the ACCESS deadlines, the held sticks, the timers. The steps are those of
`daemon_ch341_select_step`: begin, one scan item, the decision, the open, the
identity read and the post-open checks, the bind, a walk's open and look. The
bus changes between any two, inside the blocking open and bind too. Timers are
off, running or passed; a running one may pass at any time, so every order of
expiries the clock could produce, and more, is covered. `UsbWait` holds the same
selection in outline, next to the threads.

**`ConfigPolicy`, `ConfigApply`, `AtomicConfig`** (`MCConfigApply`).
`ConfigPolicy` has no state: keys, value grammar, ranges, airtime limits, what
each driver checks again, band defaults. A value is the form of its text and the
number it denotes, so the parsers are operators on forms. `ConfigApply` is one
command at a time through `config_dispatch_apply_line` and
`parse_and_apply_config_generic`: the verdict, the mode switch, one step per
token, where any setter can fail (`job` is the line and the token it has come
to), the shadow `g_effective`, the replay record, the
hardware error, the loss of the stick, the re-init with its replay, and the
restart. For the SX127x the LDRO bit is modelled in the three places it lives
in (register, RadioLib's cached value, `ldroAuto`). The gate on a busy queue is
`TxWorker`'s.

**`ConfChannel`** and **`FramedParser`** (`MCSockets`). `ConfChannel`: the CONF
slots with their half line and output, a line as a sequence of words, the
dispatch of each line, the TX status counter and its announcement, the CAD
subscription with its hysteresis, the RSSI stream, the LED under `led_mutex`;
the worker's transmission next to it. A slot may close in the middle of its own
read, and the feed goes on. `FramedParser`: `framed_data_tx_feed_state` byte by
byte, with the resets of the runtime. Bytes are of base `Base`, so a length
field is two digits and lengths below, at and above the limit all fit in a
stream of `MaxStream` bytes.

**`EventLoop`** (`MCEventLoop`). State: the descriptor table with lowest-number
allocation, the epoll interest list, the registration table, the client slots,
the monitor's handles, the RF log's rollover file, the ready set. One pass is
wait, USB tick, accepts, reads, flush, broadcasts, reconcile. What a read means
is left to the other modules.

**`Startup`** (`MCStartup`). State: per process its step, command line,
descriptor table, remembered handles, driven lines and bus ownership; the
socket names on disk. Every step of the start has its failure path, the
shutdown closes by remembered number, and a process can be killed between any
two steps.

## 4. Refinement and reference definitions

`ConfigApply` implements `AtomicConfig` (`ImplementsAtomicConfig`): what clients
are promised of the RF configuration. The mapping takes the configuration and
the readiness as they were when `radio_mutex` was last free, with the served
line and its reply. The abstract module states admissibility from the
configuration alone; the concrete one judges by the shadow and the drivers'
second look, so the refinement says that the two looks agree: in the run for
every key and boundary value, in the proof for every line. A hardware error may leave a prefix of the command
in the configuration, and then the radio is out of use.

`ParserMatchesFrames` compares the parser with a definition that sees the whole
stream at once: where its frames begin (`Begins`) and what each comes to
(`FrameEvents`). `RepliesMatchLines` compares the answers with the lines of a
client's whole stream: where they end (`LineEnds`) and what command each is
(`CommandAt`). `DecisionFollowsReadings` compares both CAD loops with `Rule`, which
knows no counters: every reading stands for one poll interval, and the times are
those the client was told.

## 5. Runs

| Run | Bounds | States | Shows |
|---|---|---|---|
| `tx_worker` | queue 2, completions 2, two RF configurations, 4 chunks; CAD: waits of 50 and 150 ms, idle times of 0, 100 and 120 ms, polls of 50 and 70 ms, CADTXAFTERTIMEOUT and TXMODE both ways | 77,804 | Accepted jobs keep their RF configuration, direct and queued TX never interleave, TXQUEUE=0 only on a drained queue, jobs and results are accounted for, budgeted reads fit, a thread is created only over none, both CAD loops decide by one rule whatever is SET meanwhile; under fairness jobs leave the queue and the shutdown ends |
| `framed_channel` | 2 slots, 2 connections, 2 packets, 2 units per read, output of 1 message | 858,318 | Results reach their own client, at most once; only clients closed by the daemon leave bytes behind; queued packets of a client that stays are answered unless their result was pushed out |
| `radio_access` | 2 jobs, `FailLimit` 3 | 37,295 | Probes keep packets, no phantom packet, no silent deafness except after a discard; failed re-arms are resolved, transmissions release `tx_busy` |
| `usb_wait` | 2 connections, one configuration besides the boot defaults, `MonQueue` 1, one event of another stick, one queued job | 402,024 | The classification agrees with the bus, READY never covers a latched loss, the I/O-fault exit is about the stick in use, transmissions use the configuration the clients set, every loss is acted on, a stick on the bus is taken back even if its ARRIVED was lost |
| `usb_teardown` | same, no other stick | | Violated statement, section 7 |
| `stick_select` | 2 sticks, 2 ports, one serial or none, 3 changes of the bus, 1 stick in trouble at a time, every selector | 3,024,003 | The stick taken is the one asked for and the one used before, never one of several candidates; handles are accounted for; no stick is left waiting for an event |
| `config_apply` | 3 profiles (433 and 868 MHz SX127x, SX1262 on USB), every pair of 6 core settings with and without a mode, every key with every boundary text on the boot configuration | 553,272 | The shadow is the chip, LDRO is right, whole commands replay, and the refinement of section 4 |
| `config_replay` | same | | Violated statement, section 7 |
| `event_loop` | 2 listeners with one slot, 2 connections, 2 monitor descriptors | 4,601,837 | Clients are watched for exactly what they need, no stale readiness closes one, the table never stops the loop by itself |
| `sockets` | CONF: 2 slots, output of 1 message, lines of 2 words, 4 words or 2 transmissions around the counter's wrap; parser: streams of 8 bytes of base 3 | 8.5 million | One answer per line to its sender, TX status exact, LED right, parser equal to the reference |
| `startup` | 2 processes, 3 launches of 5 command lines | 641,133 | Bound names hold, GPIO lines and the bus have one owner |
| `startup_rflog` | 1 process, `-d --rflog on`, 0 or 3 inherited descriptors | | Violated statement, section 7 |

Why the bounds are enough. Both queues of `tx_worker` are full, empty and in
between, and results are overwritten. Two RF configurations tell "the one at
acceptance" from "a later one". A CAD wait is one or three ticks long and the
idle time one to three of them, exact or rounded up, shorter and longer than the
wait; the boot policy (1500, 250 and 50 ms) would only make the readings longer.
Two connections on one slot are a reuse; a
second slot adds the cross-slot case. Two units per read allow a closure in the
middle of a read. Two jobs let a TX, an abort and a second TX follow each other;
three failures make the counter pass below, at and beyond the limit, with a
success resetting it in between. With `MonQueue` 1 a second event overflows the
monitor's queue (32 in the code), so the bound stick's LEFT can be the lost one.
Two sticks on two ports are a duplicate serial, a stick with and one without a
serial (Rule B), a swap and a stick on the other's port; three changes are a
loss, a return and one change more in the middle of the reselection. In
`config_apply` every pair of core settings includes BW before SF and SF before
BW, a mode switch between them, a value both modes know (PREAMBLE) and one only
the other mode knows; new commands arrive only while the record holds core
settings (`Tokens`), the others are probed one at a time. In `event_loop` the
second client and the second handle meet the number of a closed one; the
assumption on `MaxRegistered` holds in the code with room to spare (128 for 68). `sockets` runs the CONF channel or
the parser, which share nothing; its scenarios split what would otherwise
multiply, and `gen` starts two short of the wrap. Three launches on two
processes are a neighbour, a restart and a second restart in the middle of a
shutdown. `startup` is symmetric in its processes; deadlock is checked in every
run except the two of `Startup`, where a machine on which everything has been
started and has ended is a proper end.

Fairness. Threads run on (weak fairness of each thread's steps). Clients owe
nothing: requests, raw chunks and arriving packets are not fair. In
`RadioAccess` four steps are strongly fair: the end of a socket pass (finitely
many clients), the end of a CAD wait (`DecisionFollowsReadings`: no wait
has more probes than its time has intervals), the retry falling due (the clock advances) and the sender
getting `radio_mutex` when it is freed again and again. `RearmResolved` is
checked with finitely many jobs: a worker that holds the mutex at every single
retry is not excluded by the code.

In `UsbWait` the threads, the clock and libusb's owed event are weakly fair. The
end of a socket pass is strongly fair as above; so are a retried selection
falling due (its time is set 200 ms or less ahead) and the open of a stick that
is there: `StickReturns` assumes that no other process holds the stick for ever
and that its open does not fail every time. Unplugging and plugging owe nothing.
The safety counterpart of `StickReturns` for the selection in full is
`NoForgottenStick`: a selection that waits for an event has nothing to open. The
other modules state no fairness and are checked for safety only.

## 6. Proofs

Eight modules hold theorems, each about one component and for every value of its
constants, under the assumptions that component's module names (`ASSUME`), which
TLC also evaluates. Each argument has the same shape: an inductive invariant as a
conjunction of named parts, each part checked by TLC on the bounds of section 5
before it was proved, an initial-state lemma, one step per action, and the
theorems as corollaries. A few theorems state definitions no run lists
(`StopBeginsNoJob`, `SilenceSends`). `PROJECT.json` lists the theorems with the property of
a run that each one states.

**`TxWorkerProofs`**, all safety properties of `TxWorker`. Assumptions: the
capacities are positive, the boot configuration is a configuration.

* `TypeCorrect`, from two type lemmas (`FlagsTyped`, `DataTyped`).
* `ThreadLife`: how `running`, `stop_requested`, the two program counters and
  the number of chunks left belong together. `ThreadNeverOverwritten` and
  `StopIsFinal` follow; the latter needs that a stopping main thread never
  restarts the worker and that the queue stays empty after the discard.
* `Coordination`: the inductive invariant behind the gates. None of
  `AcceptedJobKeepsRfConfig`, `DirectNeverInterleaves` and `QueueOffIsDrained`
  is inductive, because the main thread looks at `pending` and `job_active` in
  two steps. The strengthening says what the first look still guarantees at
  the second one: only the main thread fills the queue, so a queue seen empty
  stays empty, and a job popped earlier has `job_active` raised in the same
  critical section as the pop, so the second look catches it.
* `EverythingAccounted`, from `JobsConserved` and `ResultsConserved`: the ledgers, inductive with the
  typing and the thread invariant.
* `BudgetHolds`: only the main thread adds to the queue, so the free slots
  counted at the read are still free at each chunk.

The same module holds the proofs about `CadWait`, for any accepted CADWAIT,
CADIDLE and CADPOLL (`PolicyAssumption`: waiting time and interval are not 0).

* `TicksCover`: k intervals cover a time exactly when k is at least the ticks
  that `daemon_tx_policy_ticks_for_ms` gives for it. It turns the code's
  comparisons of ticks into the rule's comparisons of milliseconds.
* `CadDecides` is not inductive, for the rule sees readings and the loops
  counters. `WaitInv` relates them: the elapsed ticks are the readings, the free
  ticks those since the last one that was not free (`CountsFree`), so "free for
  the idle time" is a bound on the counter (`IdleByCount`). `LimitsInv` keeps the
  packet's limits those of the policy it was accepted under.
* `SilenceIsGranted`: with CADIDLE no longer than CADWAIT the ticks of the one are
  no more than those of the other, and the channel is granted before the time is
  looked at.

**`FramedChannelProofs`**, all safety properties of `FramedChannel`.
Assumptions: positive sizes, a read has no more units than an output queue holds
messages and one more, and more generations than a behaviour can use up.

* `ResultsGoHome` needs `TargetInv`: a result whose noted generation is the
  slot's present one is for the connection in the slot. It is inductive only
  because a generation never comes back: `GenerationInv` counts one change per
  connection a slot got and one per connection it lost, so the counter has not
  wrapped (`GenerationsCount`).
* `AnsweredOnce` needs `OrderInv`: packets keep their order from the queue
  through the completions, and none on its way has been answered.
* `BytesLeaveWithClient` needs `ReadInv` and `RoomInv`: a slot the daemon closes
  in the middle of its read takes the answers to the rest of it, and is not
  closed a second time in the same read.

And of `FramedParser`, for any base of a byte above 2 and any stream:

* `ParserFindsFrames` needs `FrameInv`: the parser is in the header, the payload
  or the skipped rest of the last frame of the stream, with exactly the bytes of
  it that have come (`InHeader`, `InPayload`, `InSkip`), and has reported the
  frames before it, one event each (`Tracks`). No induction over the stream is
  needed: `frames` records where the parser was between two frames, and the
  division of the stream is stated frame by frame (`Begins`). A byte that is
  appended leaves every complete frame as it was.

**`RadioAccessProofs`**, all safety properties of `RadioAccess`, for every
failure limit and any number of jobs.

* `TxExclusive`: `tx_busy` is raised exactly while one thread's operation is a
  send, from `MutexInv` and `OpInv` (which operation a label belongs to).
* `ProbeSparesPackets` and `AlertsArePackets` need `DetachedInv` and
  `StoppedInv`: between the detach and the re-arm the callback is off, and the
  receiver is stopped before the callback is taken off, so nothing completes in
  between. A CAD's or transmission's completion then meets no callback.
* `DeafnessIsTold` needs `DeafInv`: a stopped receiver, an absent callback and a
  latched packet without an edge to come are each the business of a thread that
  holds the mutex and will re-arm, or are told by the latch, the health, the flag
  or the discard.
* `TypeCorrect` needs `CountInv`: once the failure counter has reached its limit
  only the other thread can still be on its way to a `startReceive`, so it passes
  the limit by one at most.

**`UsbWaitProofs`**, all safety properties of `UsbWait` that hold.

* `EventInv`, `LeftInv`: a queued or owed LEFT of the daemon's stick names a
  connection that is over. Connections never come back, so `TornDownOnlyWhenGone`
  holds although libusb's list and its events are read at different times.
* `BindingInv` and `LossInv`: a HAL exists unless the wait is on, the monitor is
  bound to the device the HAL drives, and a loss that is flagged, classified or
  acted on is latched in that HAL. `ReadyIsAlive` and `IoFaultIsPresent` follow.
* `RecordInv` and `ConfigInv`: the record holds what the clients have set and the
  replay what the record held at the teardown; a usable radio outside the re-init
  runs with it, or a SET has failed and then nothing is queued
  (`ConfiguredAcrossReplugs`).

**`StickSelectProofs`**, all properties of `StickSelect`, for any sticks, ports,
serials and number of changes. Assumptions: the values that stand for "none" and
"not read" are not sticks, serials or ports; the sticks are finitely many.

* `HandleInv` (what is open in which phase) gives `NoHandleLost`.
* `CookieInv`, `ModeInv`, `CheckedInv`: a connection has its own cookie and never
  comes back, so what the checks after the open found stays true while that
  connection is there (`UsesTheSameStick`).
* `ScanInv`: without a change since it began, a scan tells the bus as it is.
  `ChoiceInv` carries that from the scan to the bind (`NeverOpensAmbiguous`, an
  action property).
* `NeverForgetsAStick`: a selection that waits with no time set is in a condition
  that only an event lifts (`WaitInv`). This needs `DeadlineInv` (a deadline has
  passed only for a stick that stays denied or unreadable) and `WalkInv` (what
  a Rule B walk still has before it).

**`EventLoopProofs`**, all properties of `EventLoop`. The kernel forgets a closed
number without telling the table, and the number is handed out again in the same
pass; so the two agree only in part between the waits.

* `OwnersInv`: who has which number. `TableInv`: what the table may say at each
  place of the pass; its core, `WatchedInv`, is that the kernel watches no number
  that the table does not know under its present owner, so no ADD meets EEXIST
  and no MOD meets ENOENT (`EveryClientWatched`, `RegistrationNeverFails`).
* `SizeInv`: the table holds at most the wanted registrations and the libusb ones
  of the pass before. With the size assumption (128 places for 68) it is never
  full.
* `NoClientClosedByMistake`, an action property, from the same invariant.

**`StartupProofs`**, for any processes, command lines, launches and crashes.

* `Owned` says which handles a process remembers at which step, `Contents` that
  the descriptor behind each remembered number is the one it was opened as. Only
  together are they inductive: the way out closes by number, and a wrong number
  would be somebody else's descriptor.
* `OneHolderPerLock`: a flock has one open file description, over forks and
  reuse; `OneDriverPerLine` follows from it and from the order of the cleanup.
* `NamesLeadToListeners` assumes that no command line combines the background
  with the RF log (`RflogSurvives`): that combination closes a number that is no
  longer the log's (the third finding of section 7). `Sound` confines it; the
  other two theorems hold with it too.

**`ConfProofs`**, about the two modules of the CONF socket. `ConfChannel`, for any
slots, queues, commands and transmissions, and any even modulus of the generation
counter:

* `LedShowsState`: `LookInv` says that a look at the state is out of date only
  while the thread that changed the state still has its own update before it; the
  mutex (`MutexInv`) makes that update the later one.
* `TxStatusIsExact`: `HeardInv`, by arithmetic modulo the counter (`ModStep`,
  `EvenParity`): an announcement takes the next generation and says its parity.
  Every other step but an accept leaves the histories of transmissions alone
  (`SlotStep`), and `WorkerInv` ties the parity to `tx_busy`.
* `RepliesAreLines`: `AnswerInv` says that a slot's half line is the open line of
  what its client has said, as far as the code can tell lines apart (how many
  words, and the word if there is one), and that the answers are as many as the
  lines and each of its line's kind. A word appended leaves the ends of lines
  before it where they were, and an LF adds one; the answers are matched by
  counting ends, so no recursion over the stream is needed.

`ConfigApply`, for any profiles and any lines. Assumptions (`ConfigAssumption`):
the band defaults of a profile are whole numbers where the shadow keeps whole
numbers, their own airtime is within the limit, and the band does not reach down
to 0; a line is what the tokenizer can produce.

* `ApplyInvariant`: none of the properties is inductive, for what they relate
  (chip, shadow, LDRO bit, record, what clients were shown) changes key by key. The
  strengthening says for every moment of an apply how far each of them has come.
  `Partial` is a configuration after the first n tokens; during a client's command
  the chip is `Partial` of what was last published (`ServeInv`), during a replay
  of the boot defaults (`ReplayInv`), and the record stands for the chip outside a
  replay (`RecordInv`) and is rebuilt behind it within one (`NoteNext`). The shadow
  is on the chip at every step (`ShadowInv`), which makes the airtime gate, which
  judges by the shadow before anything is applied, judge the outcome
  (`MergeAllShades`, `Judged`).
* `ShadowFollowsChip`, `LdroIsRight` and `WholeReplayIsAccepted` follow. The last
  needs `AirInv`: a published configuration is within the airtime, unless a torn
  command left it behind on a radio that is down. `LdroIsRight` needs that
  RadioLib's cached bit is the chip's as long as the automatic is on (`LdroOk`),
  which `begin()` on a chip without a RESET line only establishes because the
  driver then forces the bit.
* `CommandsAreAtomic`, the refinement of `AtomicConfig`: the first pass accepts
  exactly what the abstract module admits (`IdleJudged`, `SameAdmissible`), the
  drivers' second look refuses nothing of it (`TakesValid`), and so the end of an
  apply is `Accept`, a failing setter `Break` with the prefix that took effect, the
  end of a replay `Return`; all other steps of an apply are not seen.

The proof found that `Verdict` and `TokenVerdict`, written as `CASE` with arms that
overlap, said less than the code: TLC takes the first arm that holds, TLA+ any of
them. They are chains of `IF` now, in the order of the code's early returns.

Only model-checked is liveness, which is out of the prover's reach, with `ENABLED`:
`NothingHangs`, `QueuedPacketAnswered`, `RearmResolved`, `TxReleases`, `LossHandled` and `StickReturns`.

## 7. Where the code and its documentation differ

Three differences have a run of their own:

* lora_send checks driver and readiness before it takes `radio_mutex` and not
  under it; a teardown in between leaves it with a null driver
  (`usb_teardown`). The CAD probe checks under the lock.
* The airtime gate judges whole commands, the replay record grows setter by
  setter. `SET BW=7.8 SF=7` torn by a loss after the first setter leaves
  `BW=7.8`, which on the default SF exceeds the airtime limit; the replay is
  refused and the daemon exits when the stick returns (`config_replay`).
  `WholeReplayAccepted` shows that only torn commands do this.
* With `-d` the RF log, opened while the options are parsed, is closed with the
  inherited descriptors, and its number goes to something else
  (`startup_rflog`).

The others have a definition in the module (the names in parentheses), which
TLC violates when it is added to the module's configuration as an invariant:

* A deferred `TX_RESULT` is delivered whatever TXRESULT says:
  docs/data-protocol.md says "emitted only when enabled" (`FramedChannel`,
  `TxResultOnlyWhenEnabled`).
* A slot the daemon closed and refilled in the same pass keeps the parser state
  of the previous client, so a frame can be completed by another client's bytes
  (`FramedChannel`, `PacketFromOneClient`; `OnlyEvictedLeaveBytes` shows that
  this is the only way).
* The RX drain takes `radio_mutex` with a blocking lock and can wait for a
  transmission that began after its look at `tx_busy` (`RadioAccess`,
  `RxNeverBlocksOnTx`).
* CONFIG apply re-arms without looking at `received`; the drain then reads
  after the IRQ flags were cleared (`RadioAccess`, `ReadFindsItsIrqFlags`).
* A discard during a TX can leave RxDone latched with nobody to clear it until
  the next TX, probe or CONFIG apply; RXREADY reads 1 meanwhile (`RadioAccess`,
  `RxReadyMeansArmed`). `DeafOnlyAfterDiscard` shows it is the only such path.

And these can be read off the models:

* CADIDLE may be set longer than CADWAIT (each is checked against its own range).
  When it is longer in ticks too, a MANAGED packet never finds the channel free, silent as it may be: it is
  blocked, or sent as timed out. `SilenceSends` shows that nothing else does this.
* A completion whose slot is closed is not counted in TXQSTALE, which
  docs/data-protocol.md says it is: the code counts the reused slots.
* The retry's check of `received` does not cover a packet the alert thread has
  not flagged yet, although its comment says it never re-arms over one.
* A stick lost during a CONFIG apply is waited for with RADIO=FAILED instead of
  UNPLUGGED (`ConfigHwError`). Admission is refused either way
  (`ReadyMeansAlive`).
* reconcile_end can meet the RF log's rollover file under the number of a
  descriptor closed in the same pass; epoll refuses a regular file with EPERM,
  which ends the loop. `OnlyForeignFileStops` shows that nothing else does.
* Nothing calls the Pi HAL's `term()`: RadioLib's handles on the GPIO chip and
  the bus stay open until the process exits, after the pin locks are released.
  `HardwareExclusive` is about the lines the code still drives.

## 8. Not modelled

FSK mode in the RX and TX paths, payload contents beyond the framing, CRC and
header verdicts, RSSI values, texts of replies, logs and statistics, registers
other than LDRO's, the SX1262's LDRO bit (its driver passes the setting on), the
wall clock (a deadline is a step that may or may not be due), the counting of the
direct path's wait for `tx_busy`, the option grammar and the hardware tables, a start without
hotplug support, the Meshstick library's loader, the client programs and the
archived daemons (`PROJECT.json`, `components`).
