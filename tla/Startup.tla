------------------------------ MODULE Startup ------------------------------
(***************************************************************************)
(* Starting, stopping and dying: several daemon processes on one machine,  *)
(* the advisory locks in the runtime directory (one per instance, one per  *)
(* GPIO pin, one for the SPI bus), the socket files, and each process's    *)
(* descriptor table, in which a closed number is handed out again.         *)
(*                                                                         *)
(* A process walks main()'s startup sequence one system call group at a    *)
(* time, so that two of them interleave anywhere; a failure takes the exit *)
(* path of its step.  A process can be killed between any two steps: the   *)
(* kernel closes its descriptors, which drops its locks, and leaves its    *)
(* socket files behind.                                                    *)
(***************************************************************************)
EXTENDS Naturals, FiniteSets, Sequences, SequencesExt

CONSTANTS
    Procs,         \* process slots
    Launches,      \* command lines: [id, pins, usb, background, rflog,
                   \*                 inherited]
    MaxLaunches    \* bound: processes started

\* pins is what daemon_gpio_locks_acquire locks, ascending, the LED last or
\* not; inherited is how many descriptors above 2 the parent leaves open.
ASSUME LaunchesAssumption ==
    /\ MaxLaunches \in Nat
    /\ \A l \in Launches : /\ l.usb <=> (l.pins = <<>>)
                           /\ l.pins \in Seq(Nat) /\ l.inherited \in Nat

VARIABLES
    pc,         \* per process: [at, k]: the step it is at, and its index
    opt,        \* its command line
    fdt,        \* its descriptors above 2: number -> open file description
    h,          \* its handles, as it remembers them (descriptor numbers)
    path,       \* the cleanup it leaves by: "none", "startup", "shutdown"
    drives,     \* the GPIO lines its code still drives (the kernel's claim
                \* on them, made by RadioLib, ends with the process)
    bus,        \* it is inside an SPI transaction
    node,       \* socket path -> process listening there, "stale", "none"
    launched    \* processes started so far

vars == <<pc, opt, fdt, h, path, drives, bus, node, launched>>

NoFd == 0
Socks == 1..3                                 \* DATA, framed DATA, CONF
Ids == {l.id : l \in Launches}

\* An open file description: what it is of, and whether this description
\* holds the file's flock.
Desc(kind, name, n) == [file |-> <<kind, name, n>>, locked |-> FALSE]
RfLog(p) == Desc("rflog", opt[p].id, 0)
InstanceFile(p) == Desc("instance", opt[p].id, 0)
PinFile(n) == Desc("gpio", "", n)
SpiFile == Desc("spi", "", 0)
Socket(p, k) == Desc("socket", opt[p].id, k)
Other(kind) == Desc(kind, "", 0)

NoHandles == [rflog |-> NoFd, instance |-> NoFd, pins |-> <<>>,
              chip |-> NoFd, socks |-> [k \in Socks |-> NoFd],
              spi |-> NoFd, usb |-> NoFd, epoll |-> NoFd]

Init ==
    /\ pc = [p \in Procs |-> [at |-> "off", k |-> 0]]
    /\ opt \in [Procs -> {CHOOSE l \in Launches : TRUE}]
    /\ fdt = [p \in Procs |-> <<>>]
    /\ h = [p \in Procs |-> NoHandles]
    /\ path = [p \in Procs |-> "none"]
    /\ drives = [p \in Procs |-> {}]
    /\ bus = [p \in Procs |-> FALSE]
    /\ node = [x \in Ids \X Socks |-> "none"]
    /\ launched = 0

-----------------------------------------------------------------------------
(* The kernel: descriptor numbers and advisory locks.                      *)

\* open(), dup() and socket() return the lowest free number above 2.
Lowest(t) == CHOOSE n \in 3..(3 + Cardinality(DOMAIN t)) :
                 n \notin DOMAIN t /\ \A m \in 3..(n - 1) : m \in DOMAIN t
With(t, n, d) == [m \in DOMAIN t \union {n} |-> IF m = n THEN d ELSE t[m]]
Opened(t, d) == With(t, Lowest(t), d)
Closed(t, N) == [m \in DOMAIN t \ N |-> t[m]]

\* A description that holds the lock of the same file, in any process.
HeldElsewhere(d) == \E q \in Procs : \E n \in DOMAIN fdt[q] :
                        fdt[q][n] = [d EXCEPT !.locked = TRUE]

\* loraham_open_lock_file_at opens the file while the directory's own
\* descriptor is open: the lock never gets the lowest number.
LockFd(t) == Lowest(Opened(t, Other("dir")))
WithLock(t, d) == With(t, LockFd(t), [d EXCEPT !.locked = TRUE])

At(p, step) == pc[p].at = step
Goto(p, step, k) == pc' = [pc EXCEPT ![p] = [at |-> step, k |-> k]]

\* The process starts the cleanup of a failed startup or of a stop.
Cleanup(p, which) ==
    /\ path' = [path EXCEPT ![p] = which]
    /\ Goto(p, "cleanup", 1)

\* The process ends: the kernel closes everything it had open, which drops
\* its locks; a socket file it did not unlink stays, with nobody behind it.
Ends(p) ==
    /\ pc' = [pc EXCEPT ![p] = [at |-> "off", k |-> 0]]
    /\ fdt' = [fdt EXCEPT ![p] = <<>>]
    /\ h' = [h EXCEPT ![p] = NoHandles]
    /\ path' = [path EXCEPT ![p] = "none"]
    /\ drives' = [drives EXCEPT ![p] = {}]
    /\ bus' = [bus EXCEPT ![p] = FALSE]
    /\ node' = [x \in DOMAIN node |-> IF node[x] = p THEN "stale" ELSE node[x]]
    /\ UNCHANGED <<opt, launched>>

-----------------------------------------------------------------------------
(* Command line, background, log streams.                                  *)

Launch(p, l) ==
    /\ At(p, "off") /\ launched < MaxLaunches
    /\ opt' = [opt EXCEPT ![p] = l]
    /\ fdt' = [fdt EXCEPT ![p] =
                   [n \in 3..(2 + l.inherited) |-> Other("parent")]]
    /\ launched' = launched + 1
    /\ Goto(p, "args", 0)
    /\ UNCHANGED <<h, path, drives, bus, node>>

\* daemon_rflog_start, called right after the option loop.
RflogStart(p) ==
    /\ fdt' = [fdt EXCEPT ![p] = IF opt[p].rflog THEN Opened(@, RfLog(p)) ELSE @]
    /\ h' = [h EXCEPT ![p].rflog = IF opt[p].rflog THEN Lowest(fdt[p]) ELSE @]

\* Every option accepted; the RF log is open if it was asked for.
ParseArgs(p) ==
    /\ At(p, "args")
    /\ RflogStart(p)
    /\ Goto(p, "background", 0)
    /\ UNCHANGED <<opt, path, drives, bus, node, launched>>

\* daemon_lifecycle_enter_background: in the grandchild, with stdio moved to
\* the log file, every descriptor above 2 is closed.
EnterBackground(p) ==
    /\ At(p, "background")
    /\ fdt' = [fdt EXCEPT ![p] = IF opt[p].background THEN <<>> ELSE @]
    /\ Goto(p, "stamp", 0)
    /\ UNCHANGED <<opt, h, path, drives, bus, node, launched>>

\* daemon_stdout_stamp_install keeps a duplicate of stdout and of stderr.
StampInstall(p) ==
    /\ At(p, "stamp")
    /\ fdt' = [fdt EXCEPT ![p] = Opened(Opened(@, Other("stdout")), Other("stderr"))]
    /\ Goto(p, "instance", 0)
    /\ UNCHANGED <<opt, h, path, drives, bus, node, launched>>

\* A refused option, an unopenable RF log (1 or 4), a failed fork or
\* redirection (1): nothing is owned yet.
RefusedEarly(p) == pc[p].at \in {"args", "background"} /\ Ends(p)

-----------------------------------------------------------------------------
(* daemon_io_init.                                                         *)

InstanceLockAcquire(p) ==
    /\ At(p, "instance") /\ ~HeldElsewhere(InstanceFile(p))
    /\ fdt' = [fdt EXCEPT ![p] = WithLock(@, InstanceFile(p))]
    /\ h' = [h EXCEPT ![p].instance = LockFd(fdt[p])]
    /\ Goto(p, "pins", 1)
    /\ UNCHANGED <<opt, path, drives, bus, node, launched>>

\* Held by another process (3); the directory or the file is unusable (4).
InstanceLockFails(p) ==
    /\ At(p, "instance")
    /\ Ends(p)

\* The handlers cannot be installed: the lock is released, exit 1.  Releasing
\* and exiting are one step: only the lock is owned.
SignalHandlersFail(p) == At(p, "pins") /\ pc[p].k = 1 /\ Ends(p)

\* daemon_gpio_locks_acquire, one pin at a time in ascending order.
PinLock(p) ==
    /\ At(p, "pins") /\ pc[p].k <= Len(opt[p].pins)
    /\ LET d == PinFile(opt[p].pins[pc[p].k]) IN
       /\ ~HeldElsewhere(d)
       /\ fdt' = [fdt EXCEPT ![p] = WithLock(@, d)]
       /\ h' = [h EXCEPT ![p].pins = Append(@, LockFd(fdt[p]))]
    /\ Goto(p, "pins", pc[p].k + 1)
    /\ UNCHANGED <<opt, path, drives, bus, node, launched>>

PinsDone(p) == At(p, "pins") /\ pc[p].k > Len(opt[p].pins)

\* daemon_led_init under the locks: the chip's handle, then the LED's line.
LedInit(p) ==
    /\ PinsDone(p) /\ ~opt[p].usb
    /\ fdt' = [fdt EXCEPT ![p] = Opened(@, Other("gpiochip"))]
    /\ h' = [h EXCEPT ![p].chip = Lowest(fdt[p])]
    /\ drives' = [drives EXCEPT ![p] = {Last(opt[p].pins)}]
    /\ Goto(p, "unlink", 1)
    /\ UNCHANGED <<opt, path, bus, node, launched>>

\* A USB radio uses no line of the Pi.
NoPins(p) ==
    /\ PinsDone(p) /\ opt[p].usb
    /\ Goto(p, "unlink", 1)
    /\ UNCHANGED <<opt, fdt, h, path, drives, bus, node, launched>>

\* A pin is held, a lock file is unusable, the LED's line cannot be claimed:
\* the pin locks already taken are released, then the instance lock (4).
PinsFail(p) ==
    /\ At(p, "pins") /\ ~opt[p].usb
    /\ fdt' = [fdt EXCEPT ![p] = Closed(@, Range(h[p].pins))]
    /\ h' = [h EXCEPT ![p].pins = <<>>]
    /\ Goto(p, "release", 0)
    /\ UNCHANGED <<opt, path, drives, bus, node, launched>>

\* setup_unix_socket: a socket file left behind is removed.
PreparePath(p) ==
    /\ At(p, "unlink")
    /\ node' = [node EXCEPT ![<<opt[p].id, pc[p].k>>] = "none"]
    /\ Goto(p, "bind", pc[p].k)
    /\ UNCHANGED <<opt, fdt, h, path, drives, bus, launched>>

\* socket, bind, chmod, O_NONBLOCK, listen.  bind() fails on an existing
\* name.
Bind(p) ==
    LET k == pc[p].k IN
    /\ At(p, "bind") /\ node[<<opt[p].id, k>>] = "none"
    /\ fdt' = [fdt EXCEPT ![p] = Opened(@, Socket(p, k))]
    /\ h' = [h EXCEPT ![p].socks[k] = Lowest(fdt[p])]
    /\ node' = [node EXCEPT ![<<opt[p].id, k>>] = p]
    /\ IF k + 1 \in Socks THEN Goto(p, "unlink", k + 1)
       ELSE Goto(p, "radio", 0)
    /\ UNCHANGED <<opt, path, drives, bus, launched>>

\* The path is no socket, bind, chmod or listen fails: setup_unix_socket
\* removes its own name, radio_channel_open_sockets the earlier ones, last
\* first; then the whole startup cleanup.
BindFails(p) ==
    LET k == pc[p].k
        mine == {j \in Socks : j < k} IN
    /\ pc[p].at \in {"unlink", "bind"}
    /\ fdt' = [fdt EXCEPT ![p] = Closed(@, {h[p].socks[j] : j \in mine})]
    /\ h' = [h EXCEPT ![p].socks = [j \in Socks |-> NoFd]]
    /\ node' = [x \in DOMAIN node |->
                  IF x[1] = opt[p].id /\ x[2] \in mine THEN "none" ELSE node[x]]
    /\ Cleanup(p, "startup")
    /\ UNCHANGED <<opt, drives, bus, launched>>

-----------------------------------------------------------------------------
(* daemon_ch341_start and lora_init.                                       *)

\* The HAL: the stick's handle, or the SPI lock's file (opened, not locked)
\* and RadioLib's own handles on the GPIO chip and the bus, which nothing
\* closes before the exit.
HalOpens(p) ==
    /\ At(p, "radio")
    /\ IF opt[p].usb
       THEN /\ fdt' = [fdt EXCEPT ![p] = Opened(@, Other("usb"))]
            /\ h' = [h EXCEPT ![p].usb = Lowest(fdt[p])]
            /\ UNCHANGED drives
       ELSE /\ fdt' = [fdt EXCEPT ![p] =
                         Opened(Opened(With(@, LockFd(@), SpiFile),
                                       Other("gpiochip")), Other("spidev"))]
            /\ h' = [h EXCEPT ![p].spi = LockFd(fdt[p])]
            /\ drives' = [drives EXCEPT ![p] = Range(opt[p].pins)]
    /\ Goto(p, "begin", 0)
    /\ UNCHANGED <<opt, path, bus, node, launched>>

\* begin(), the packet callback and the first receive all passed.
RadioReady(p) ==
    /\ At(p, "begin") /\ ~bus[p]
    /\ Goto(p, "epoll", 0)
    /\ UNCHANGED <<opt, fdt, h, path, drives, bus, node, launched>>

\* The stick is refused (4), spi0.lock or a GPIO line is unusable (4), the
\* chip does not answer (1): startup cleanup.
RadioFails(p) ==
    /\ pc[p].at \in {"radio", "begin"} /\ ~bus[p]
    /\ Cleanup(p, "startup")
    /\ UNCHANGED <<opt, fdt, h, drives, bus, node, launched>>

\* The steps in which a Pi radio's driver may touch the bus: begin(), the
\* loop and the worker, standby() at shutdown.
Touches(p) == pc[p] \in {[at |-> "begin", k |-> 0], [at |-> "run", k |-> 0],
                           [at |-> "cleanup", k |-> 1]}

SpiBegin(p) ==
    /\ Touches(p) /\ h[p].spi # NoFd /\ ~bus[p] /\ ~HeldElsewhere(SpiFile)
    /\ bus' = [bus EXCEPT ![p] = TRUE]
    /\ fdt' = [fdt EXCEPT ![p][h[p].spi].locked = TRUE]
    /\ UNCHANGED <<pc, opt, h, path, drives, node, launched>>

SpiEnd(p) ==
    /\ bus[p]
    /\ bus' = [bus EXCEPT ![p] = FALSE]
    /\ fdt' = [fdt EXCEPT ![p][h[p].spi].locked = FALSE]
    /\ UNCHANGED <<pc, opt, h, path, drives, node, launched>>

\* The bus lock is not free within 2 s, or a transfer fails: _exit(5), with
\* no cleanup.
SpiFatal(p) ==
    /\ Touches(p) /\ h[p].spi # NoFd
    /\ bus[p] \/ HeldElsewhere(SpiFile)
    /\ Ends(p)

-----------------------------------------------------------------------------
(* The loop and the ways out.                                              *)

\* daemon_runtime_init.
EpollInit(p) ==
    /\ At(p, "epoll")
    /\ fdt' = [fdt EXCEPT ![p] = Opened(@, Other("epoll"))]
    /\ h' = [h EXCEPT ![p].epoll = Lowest(fdt[p])]
    /\ Goto(p, "run", 0)
    /\ UNCHANGED <<opt, path, drives, bus, node, launched>>

EpollFails(p) ==
    /\ At(p, "epoll")
    /\ Cleanup(p, "shutdown")
    /\ UNCHANGED <<opt, fdt, h, drives, bus, node, launched>>

\* SIGTERM or SIGINT; one that came during startup is seen here first.
Stop(p) ==
    /\ At(p, "run") /\ ~bus[p]
    /\ Cleanup(p, "shutdown")
    /\ UNCHANGED <<opt, fdt, h, drives, bus, node, launched>>

\* Mutants: the instance lock is dropped before the sockets are removed; the
\* pin locks before the radio and the LED are torn down.
ReleasesInstanceFirst == <<"radio", "led", "pins", "rflog", "epoll", "instance", "sockets">>
ReleasesPinsFirst == <<"pins", "radio", "led", "rflog", "epoll", "sockets", "instance">>

\* The order of daemon_shutdown_cleanup; daemon_io_startup_cleanup leaves out
\* the RF log and epoll, which a failed startup leaves to the exit.
CleanupOrder == <<"radio", "led", "pins", "rflog", "epoll", "sockets", "instance">>

Skips(p, part) == part \in {"rflog", "epoll"} /\ path[p] = "startup"

Handles(p, part) ==
    CASE part = "radio" -> {h[p].spi, h[p].usb}
      [] part = "led" -> {h[p].chip}
      [] part = "pins" -> Range(h[p].pins)
      [] part = "rflog" -> IF Skips(p, part) THEN {} ELSE {h[p].rflog}
      [] part = "epoll" -> {h[p].epoll}
      [] part = "sockets" -> {}
      [] part = "instance" -> {h[p].instance}

Forgets(p, part) ==
    CASE part = "radio" -> [h[p] EXCEPT !.spi = NoFd, !.usb = NoFd]
      [] part = "led" -> [h[p] EXCEPT !.chip = NoFd]
      [] part = "pins" -> [h[p] EXCEPT !.pins = <<>>]
      [] part = "rflog" -> IF Skips(p, part) THEN h[p] ELSE [h[p] EXCEPT !.rflog = NoFd]
      [] part = "epoll" -> [h[p] EXCEPT !.epoll = NoFd]
      [] part = "sockets" -> h[p]
      [] part = "instance" -> [h[p] EXCEPT !.instance = NoFd]

\* One part of the cleanup: its descriptors are closed by number, whatever
\* the number stands for by now, and forgotten.
CleanupStep(p) ==
    LET k == pc[p].k
        part == CleanupOrder[k] IN
    /\ At(p, "cleanup") /\ ~bus[p]
    /\ fdt' = [fdt EXCEPT ![p] = Closed(@, Handles(p, part))]
    /\ h' = [h EXCEPT ![p] = Forgets(p, part)]
    /\ drives' = [drives EXCEPT ![p] =
                     CASE part = "radio" -> IF h[p].chip = NoFd THEN {}
                                            ELSE {Last(opt[p].pins)}
                       [] part = "led" -> {}
                       [] OTHER -> @]
    /\ IF part = "sockets" THEN Goto(p, "close", 1)
       ELSE IF k = Len(CleanupOrder) THEN Goto(p, "exit", 0)
       ELSE Goto(p, "cleanup", k + 1)
    /\ UNCHANGED <<opt, path, bus, node, launched>>

\* close_unix_socket, first half: the descriptor.
SocketClose(p) ==
    LET k == pc[p].k
        fd == h[p].socks[k] IN
    /\ At(p, "close")
    /\ fdt' = [fdt EXCEPT ![p] = Closed(@, {fd})]
    /\ h' = [h EXCEPT ![p].socks[k] = NoFd]
    /\ node' = [node EXCEPT ![<<opt[p].id, k>>] = IF fd # NoFd /\ @ = p THEN "stale" ELSE @]
    /\ Goto(p, "remove", k)
    /\ UNCHANGED <<opt, path, drives, bus, launched>>

AfterSockets(p) ==
    LET k == CHOOSE i \in DOMAIN CleanupOrder : CleanupOrder[i] = "sockets" IN
    IF k = Len(CleanupOrder) THEN Goto(p, "exit", 0) ELSE Goto(p, "cleanup", k + 1)

\* Second half: the name, if it is a socket, whoever made it.
SocketRemove(p) ==
    LET k == pc[p].k IN
    /\ At(p, "remove")
    /\ node' = [node EXCEPT ![<<opt[p].id, k>>] = "none"]
    /\ IF k + 1 \in Socks THEN Goto(p, "close", k + 1) ELSE AfterSockets(p)
    /\ UNCHANGED <<opt, fdt, h, path, drives, bus, launched>>

\* daemon_instance_lock_release on the paths that own nothing else.
ReleaseInstance(p) ==
    /\ At(p, "release")
    /\ fdt' = [fdt EXCEPT ![p] = Closed(@, {h[p].instance})]
    /\ h' = [h EXCEPT ![p].instance = NoFd]
    /\ Goto(p, "exit", 0)
    /\ UNCHANGED <<opt, path, drives, bus, node, launched>>

Exit(p) == At(p, "exit") /\ Ends(p)

\* SIGKILL, a crash, a power cut of the process: between any two steps.
Crash(p) == ~At(p, "off") /\ Ends(p)

Next == \E p \in Procs :
    \/ \E l \in Launches : Launch(p, l)
    \/ ParseArgs(p) \/ EnterBackground(p) \/ StampInstall(p) \/ RefusedEarly(p)
    \/ InstanceLockAcquire(p) \/ InstanceLockFails(p) \/ SignalHandlersFail(p)
    \/ PinLock(p) \/ LedInit(p) \/ NoPins(p) \/ PinsFail(p)
    \/ PreparePath(p) \/ Bind(p) \/ BindFails(p)
    \/ HalOpens(p) \/ RadioReady(p) \/ RadioFails(p)
    \/ SpiBegin(p) \/ SpiEnd(p) \/ SpiFatal(p)
    \/ EpollInit(p) \/ EpollFails(p) \/ Stop(p)
    \/ CleanupStep(p) \/ SocketClose(p) \/ SocketRemove(p) \/ ReleaseInstance(p)
    \/ Exit(p) \/ Crash(p)

Spec == Init /\ [][Next]_vars

-----------------------------------------------------------------------------
(* Properties.                                                             *)

\* From the bind of a listener to its own close, the name on disk leads to
\* that listener: no other process's startup unlink, failed start or late
\* shutdown takes it away, whatever is started, stopped or killed around it
\* ("a same-band restart cannot bind sockets that this instance then
\* deletes").
SocketNamesHold ==
    \A p \in Procs, k \in Socks :
        h[p].socks[k] # NoFd => node[<<opt[p].id, k>>] = p

\* Two processes never drive the same GPIO line and are never on the SPI bus
\* at once: from the LED's claim to the end of its teardown a process holds
\* the lock of every line it drives, and the bus lock during a transaction.
HardwareExclusive ==
    \A p, q \in Procs : p # q =>
        /\ drives[p] \intersect drives[q] = {}
        /\ ~(bus[p] /\ bus[q])

\* While the daemon serves, the descriptor the RF log writes to, rolls over
\* and later closes is the RF log's file, if one was asked for ("must exist
\* before the radio does ... never a silently absent log"): daemon_rflog.cpp
\* uses the number in g_fd as long as it is not negative.
RflogGoesToItsFile ==
    \A p \in Procs :
        (At(p, "run") /\ opt[p].rflog) =>
            /\ h[p].rflog \in DOMAIN fdt[p]
            /\ fdt[p][h[p].rflog] = RfLog(p)
=============================================================================
