---------------------------- MODULE StartupProofs ----------------------------
(***************************************************************************)
(* Proofs about Startup, for any number of processes, any command lines    *)
(* and any number of launches: what a process remembers of its descriptors *)
(* is true of its descriptor table, so that the numbers it closes on its   *)
(* way out are the ones it means, and the locks exclude each other.        *)
(***************************************************************************)
EXTENDS Startup, FiniteSetTheorems, WellFoundedInduction, TLAPS

\* What can be behind a descriptor.
Kinds == {"rflog", "instance", "gpio", "spi", "socket", "parent", "stdout",
          "stderr", "gpiochip", "spidev", "usb", "epoll", "dir"}
Descs == [file : Kinds \X (Ids \union {""}) \X Nat, locked : BOOLEAN]
Locked(d) == [d EXCEPT !.locked = TRUE]

HandleType == [rflog : Nat, instance : Nat, pins : Seq(Nat), chip : Nat,
               socks : [Socks -> Nat], spi : Nat, usb : Nat, epoll : Nat]

Serving == {"radio", "begin", "epoll", "run"}
StepNames == {"off", "args", "background", "stamp", "instance", "pins",
              "unlink", "bind", "cleanup", "close", "remove", "release",
              "exit"} \union Serving

ProcTypeOK ==
    /\ pc \in [Procs -> [at : StepNames, k : Nat]]
    /\ opt \in [Procs -> Launches \union {CHOOSE l \in Launches : TRUE}]
    /\ h \in [Procs -> HandleType]
    /\ path \in [Procs -> {"none", "startup", "shutdown"}]
    /\ drives = [p \in Procs |-> drives[p]]
    /\ bus \in [Procs -> BOOLEAN]
    /\ node = [x \in Ids \X Socks |-> node[x]]
    /\ \A p \in Procs :
          /\ ~At(p, "off") => opt[p] \in Launches
          /\ pc[p].at \in {"unlink", "bind", "close", "remove"} =>
                pc[p].k \in Socks
          /\ At(p, "cleanup") => pc[p].k \in 1..7
          /\ At(p, "pins") => pc[p].k >= 1

\* A descriptor table.
IsTable(t) ==
    /\ IsFiniteSet(DOMAIN t)
    /\ \A n \in DOMAIN t : n \in Nat /\ n >= 3 /\ t[n] \in Descs

TableInv == fdt = [p \in Procs |-> fdt[p]] /\ \A p \in Procs : IsTable(fdt[p])

\* A flock is held through one description.
LocksExclusive ==
    \A p, q \in Procs : \A n \in DOMAIN fdt[p], m \in DOMAIN fdt[q] :
        fdt[p][n].locked /\ fdt[q][m].locked /\ fdt[p][n].file = fdt[q][m].file
            => p = q /\ n = m

-----------------------------------------------------------------------------
(* What a process owns at which step.                                      *)

Early == {"off", "args", "background", "stamp", "instance"}
SocksClosed(p) == \A k \in Socks : h[p].socks[k] = NoFd

\* The number the RF log remembers may be another file's by now: the process
\* went to the background with an RF log (module Startup,
\* RflogGoesToItsFile), and has closed that number.
Late(p) == \/ pc[p].at \in {"close", "remove", "exit"}
           \/ At(p, "cleanup") /\ pc[p].k >= 5
Sound(p) == opt[p].background /\ opt[p].rflog => ~Late(p)

RadioOwned(p) ==
    /\ pc[p].at \in Early \union {"pins", "unlink", "bind", "radio",
                                  "release"} =>
          h[p].spi = NoFd /\ h[p].usb = NoFd /\ h[p].epoll = NoFd
    /\ bus[p] => /\ h[p].spi # NoFd
                 /\ \/ pc[p].at \in {"begin", "run"}
                    \/ At(p, "cleanup") /\ pc[p].k = 1
    /\ pc[p].at \in Early \union {"pins", "release"} => h[p].chip = NoFd
    /\ h[p].chip # NoFd => opt[p].pins # <<>>

PinsOwned(p) ==
    /\ pc[p].at \in Early \union {"release", "close", "remove", "exit"} =>
          h[p].pins = <<>> /\ drives[p] = {}
    /\ At(p, "pins") => /\ pc[p].k = Len(h[p].pins) + 1 /\ drives[p] = {}
                        /\ Len(h[p].pins) <= Len(opt[p].pins)
    /\ pc[p].at \in Serving \union {"unlink", "bind"} =>
          Len(h[p].pins) = Len(opt[p].pins)
    /\ At(p, "cleanup") =>
          /\ pc[p].k <= 3 => Len(h[p].pins) = Len(opt[p].pins)
          /\ pc[p].k >= 3 => drives[p] = {}
          /\ pc[p].k >= 4 => h[p].pins = <<>>
    /\ \A x \in drives[p] : \E i \in 1..Len(opt[p].pins) : x = opt[p].pins[i]

SocksOwned(p) ==
    /\ pc[p].at \in Early \union {"pins", "release", "exit"} => SocksClosed(p)
    /\ pc[p].at \in {"unlink", "bind"} =>
          \A j \in Socks : j >= pc[p].k => h[p].socks[j] = NoFd
    /\ At(p, "cleanup") /\ pc[p].k = 7 => SocksClosed(p)
    /\ At(p, "close") =>
          \A j \in Socks : j < pc[p].k => h[p].socks[j] = NoFd
    /\ At(p, "remove") =>
          \A j \in Socks : j <= pc[p].k => h[p].socks[j] = NoFd

\* From its acquisition to the last step of every way out.
InstanceOwned(p) ==
    /\ pc[p].at \in Early => h[p].instance = NoFd
    /\ pc[p].at \notin Early \union {"exit"} => h[p].instance # NoFd
    /\ h[p].rflog # NoFd => opt[p].rflog
    /\ pc[p].at \in {"off", "args"} => h[p].rflog = NoFd

Owned(p) ==
    RadioOwned(p) /\ PinsOwned(p) /\ SocksOwned(p) /\ InstanceOwned(p)

\* What is behind the numbers a process remembers.
Has(p, n, d) == n \in DOMAIN fdt[p] /\ fdt[p][n] = d

Contents(p) ==
    /\ h[p].instance # NoFd => Has(p, h[p].instance, Locked(InstanceFile(p)))
    /\ \A i \in DOMAIN h[p].pins :
          Has(p, h[p].pins[i], Locked(PinFile(opt[p].pins[i])))
    /\ h[p].chip # NoFd => Has(p, h[p].chip, Other("gpiochip"))
    /\ \A k \in Socks :
          h[p].socks[k] # NoFd => Has(p, h[p].socks[k], Socket(p, k))
    /\ h[p].spi # NoFd => Has(p, h[p].spi, [SpiFile EXCEPT !.locked = bus[p]])
    /\ h[p].usb # NoFd => Has(p, h[p].usb, Other("usb"))
    /\ h[p].epoll # NoFd => Has(p, h[p].epoll, Other("epoll"))
    /\ h[p].rflog # NoFd /\ ~opt[p].background => Has(p, h[p].rflog, RfLog(p))

HandleInv == \A p \in Procs : Owned(p) /\ (Sound(p) => Contents(p))

-----------------------------------------------------------------------------
(* The steps, the cleanup's parts one by one.                              *)

UsbOpens(p) ==
    /\ At(p, "radio") /\ opt[p].usb
    /\ fdt' = [fdt EXCEPT ![p] = Opened(@, Other("usb"))]
    /\ h' = [h EXCEPT ![p].usb = Lowest(fdt[p])]
    /\ Goto(p, "begin", 0)
    /\ UNCHANGED <<opt, path, drives, bus, node, launched>>

PiOpens(p) ==
    /\ At(p, "radio") /\ ~opt[p].usb
    /\ fdt' = [fdt EXCEPT ![p] =
                  Opened(Opened(With(@, LockFd(@), SpiFile),
                                Other("gpiochip")), Other("spidev"))]
    /\ h' = [h EXCEPT ![p].spi = LockFd(fdt[p])]
    /\ drives' = [drives EXCEPT ![p] = Range(opt[p].pins)]
    /\ Goto(p, "begin", 0)
    /\ UNCHANGED <<opt, path, bus, node, launched>>

CleanRadio(p) ==
    /\ At(p, "cleanup") /\ pc[p].k = 1 /\ ~bus[p]
    /\ fdt' = [fdt EXCEPT ![p] = Closed(@, {h[p].spi, h[p].usb})]
    /\ h' = [h EXCEPT ![p] = [@ EXCEPT !.spi = NoFd, !.usb = NoFd]]
    /\ drives' = [drives EXCEPT ![p] = IF h[p].chip = NoFd THEN {}
                                       ELSE {Last(opt[p].pins)}]
    /\ Goto(p, "cleanup", 2)
    /\ UNCHANGED <<opt, path, bus, node, launched>>

CleanLed(p) ==
    /\ At(p, "cleanup") /\ pc[p].k = 2 /\ ~bus[p]
    /\ fdt' = [fdt EXCEPT ![p] = Closed(@, {h[p].chip})]
    /\ h' = [h EXCEPT ![p] = [@ EXCEPT !.chip = NoFd]]
    /\ drives' = [drives EXCEPT ![p] = {}]
    /\ Goto(p, "cleanup", 3)
    /\ UNCHANGED <<opt, path, bus, node, launched>>

CleanPins(p) ==
    /\ At(p, "cleanup") /\ pc[p].k = 3 /\ ~bus[p]
    /\ fdt' = [fdt EXCEPT ![p] = Closed(@, Range(h[p].pins))]
    /\ h' = [h EXCEPT ![p] = [@ EXCEPT !.pins = <<>>]]
    /\ Goto(p, "cleanup", 4)
    /\ UNCHANGED <<opt, path, bus, drives, node, launched>>

\* The RF log, unless a failed startup leaves it to the exit.
CleanRflog(p) ==
    /\ At(p, "cleanup") /\ pc[p].k = 4 /\ ~bus[p]
    /\ \/ /\ path[p] = "startup"
          /\ fdt' = [fdt EXCEPT ![p] = Closed(@, {})]
          /\ UNCHANGED h
       \/ /\ fdt' = [fdt EXCEPT ![p] = Closed(@, {h[p].rflog})]
          /\ h' = [h EXCEPT ![p] = [@ EXCEPT !.rflog = NoFd]]
    /\ Goto(p, "cleanup", 5)
    /\ UNCHANGED <<opt, path, bus, drives, node, launched>>

CleanEpoll(p) ==
    /\ At(p, "cleanup") /\ pc[p].k = 5 /\ ~bus[p]
    /\ fdt' = [fdt EXCEPT ![p] = Closed(@, {h[p].epoll})]
    /\ h' = [h EXCEPT ![p] = [@ EXCEPT !.epoll = NoFd]]
    /\ Goto(p, "cleanup", 6)
    /\ UNCHANGED <<opt, path, bus, drives, node, launched>>

CleanSockets(p) ==
    /\ At(p, "cleanup") /\ pc[p].k = 6 /\ ~bus[p]
    /\ fdt' = [fdt EXCEPT ![p] = Closed(@, {})]
    /\ Goto(p, "close", 1)
    /\ UNCHANGED <<opt, h, path, bus, drives, node, launched>>

CleanInstance(p) ==
    /\ At(p, "cleanup") /\ pc[p].k = 7 /\ ~bus[p]
    /\ fdt' = [fdt EXCEPT ![p] = Closed(@, {h[p].instance})]
    /\ h' = [h EXCEPT ![p] = [@ EXCEPT !.instance = NoFd]]
    /\ Goto(p, "exit", 0)
    /\ UNCHANGED <<opt, path, bus, drives, node, launched>>

RemoveNext(p) ==
    /\ At(p, "remove")
    /\ node' = [node EXCEPT ![<<opt[p].id, pc[p].k>>] = "none"]
    /\ \/ pc[p].k < 3 /\ Goto(p, "close", pc[p].k + 1)
       \/ pc[p].k = 3 /\ Goto(p, "cleanup", 7)
    /\ UNCHANGED <<opt, fdt, h, path, drives, bus, launched>>

Step(p) ==
    \/ Ends(p) \/ \E l \in Launches : Launch(p, l)
    \/ ParseArgs(p) \/ EnterBackground(p) \/ StampInstall(p)
    \/ InstanceLockAcquire(p) \/ PinLock(p) \/ LedInit(p) \/ NoPins(p)
    \/ PinsFail(p) \/ PreparePath(p) \/ Bind(p) \/ BindFails(p)
    \/ UsbOpens(p) \/ PiOpens(p) \/ RadioReady(p) \/ RadioFails(p)
    \/ SpiBegin(p) \/ SpiEnd(p) \/ EpollInit(p) \/ EpollFails(p) \/ Stop(p)
    \/ CleanRadio(p) \/ CleanLed(p) \/ CleanPins(p) \/ CleanRflog(p)
    \/ CleanEpoll(p) \/ CleanSockets(p) \/ CleanInstance(p)
    \/ SocketClose(p) \/ RemoveNext(p) \/ ReleaseInstance(p)

-----------------------------------------------------------------------------
(* Descriptor tables.                                                      *)

\* A non-empty set of numbers has a least one.
LEMMA LeastNumber ==
    ASSUME NEW S \in SUBSET Nat, S # {}
    PROVE  \E n \in S : \A m \in S : n <= m
<1> DEFINE Less == {xy \in Nat \X Nat : xy[1] < xy[2]}
<1>1. IsWellFoundedOn(Less, Nat)
  BY NatLessThanWellFounded, Zenon DEF OpToRel
<1> HIDE DEF Less
<1>2. PICK n \in S : \A m \in S : <<m, n>> \notin Less
  BY <1>1, WFMin
<1>3. ASSUME NEW m \in S, m < n PROVE FALSE
  <2>1. <<m, n>> \in Nat \X Nat
    OBVIOUS
  <2>2. <<m, n>>[1] < <<m, n>>[2]
    BY <1>3
  <2>3. <<m, n>> \in Less
    BY <2>1, <2>2, Zenon DEF Less
  <2>4. QED
    BY <1>2, <2>3
<1>4. QED
  BY <1>3

\* open() returns a number above 2 that is free.
LEMMA LowestFree ==
    ASSUME NEW t, IsFiniteSet(DOMAIN t)
    PROVE  Lowest(t) \in Nat /\ Lowest(t) >= 3 /\ Lowest(t) \notin DOMAIN t
<1> DEFINE c == Cardinality(DOMAIN t)
           S == {n \in 3..(3 + c) : n \notin DOMAIN t}
<1>1. c \in Nat
  BY FS_CardinalityType
<1>2. IsFiniteSet(3..(3 + c)) /\ Cardinality(3..(3 + c)) = c + 1
  <2>1. 3 \in Int /\ 3 + c \in Int /\ ~(3 > 3 + c)
    BY <1>1
  <2>2. IsFiniteSet(3..(3 + c)) /\ Cardinality(3..(3 + c)) = (3 + c) - 3 + 1
    BY <2>1, FS_Interval
  <2>3. QED
    BY <2>2, <1>1
<1>3. S # {}
  <2> SUFFICES ASSUME 3..(3 + c) \subseteq DOMAIN t
               PROVE  FALSE
    OBVIOUS
  <2>1. Cardinality(3..(3 + c)) <= c
    BY FS_Subset
  <2>2. QED
    BY <1>1, <1>2, <2>1
<1>4. S \subseteq Nat
  BY <1>1
<1>5. PICK n \in S : \A m \in S : n <= m
  BY <1>3, <1>4, LeastNumber
<1>6. /\ n \in 3..(3 + c) /\ n \notin DOMAIN t
      /\ \A m \in 3..(n - 1) : m \in DOMAIN t
  BY <1>1, <1>5
<1>7. QED
  BY <1>6 DEF Lowest

\* u is t with the description d at the new number n.
Adds(t, u, n, d) ==
    /\ n \in Nat /\ n >= 3 /\ n \notin DOMAIN t
    /\ DOMAIN u = DOMAIN t \union {n} /\ u[n] = d
    /\ \A m \in DOMAIN t : u[m] = t[m]

\* A table with one more description is a table.
LEMMA AddsTable ==
    ASSUME NEW t, NEW u, NEW n, NEW d \in Descs, IsTable(t), Adds(t, u, n, d)
    PROVE  IsTable(u)
<1>1. IsFiniteSet(DOMAIN t \union {n})
  BY FS_AddElement DEF IsTable
<1>2. QED
  BY <1>1 DEF IsTable, Adds

\* Writing at a free number adds it.
LEMMA WithAdds ==
    ASSUME NEW t, NEW n \in Nat, NEW d, n >= 3, n \notin DOMAIN t
    PROVE  Adds(t, With(t, n, d), n, d)
  BY DEF Adds, With

\* open() adds a description at the lowest free number.
LEMMA OpenedAdds ==
    ASSUME NEW t, NEW d, IsTable(t)
    PROVE  Adds(t, Opened(t, d), Lowest(t), d)
  BY LowestFree, WithAdds DEF IsTable, Opened

\* The descriptors a startup opens are descriptions.
LEMMA OtherIsDesc ==
    /\ \A kind \in Kinds : Other(kind) \in Descs
    /\ SpiFile \in Descs
  BY DEF Other, SpiFile, Desc, Descs, Kinds

\* The lock gets a free number, and not the lowest.
LEMMA LockFdFree ==
    ASSUME NEW t, IsTable(t)
    PROVE  LockFd(t) \in Nat /\ LockFd(t) >= 3 /\ LockFd(t) \notin DOMAIN t
<1>1. Adds(t, Opened(t, Other("dir")), Lowest(t), Other("dir"))
  BY OpenedAdds
<1>2. IsTable(Opened(t, Other("dir")))
  BY <1>1, AddsTable, OtherIsDesc DEF Kinds
<1>3. /\ LockFd(t) \in Nat /\ LockFd(t) >= 3
      /\ LockFd(t) \notin DOMAIN Opened(t, Other("dir"))
  BY <1>2, LowestFree DEF IsTable, LockFd
<1>4. QED
  BY <1>1, <1>3 DEF Adds

\* loraham_open_lock_file_at adds a description at the number it returns.
LEMMA LockAdds ==
    ASSUME NEW t, NEW d, IsTable(t)
    PROVE  /\ Adds(t, With(t, LockFd(t), d), LockFd(t), d)
           /\ WithLock(t, d) = With(t, LockFd(t), Locked(d))
  BY LockFdFree, WithAdds DEF WithLock, Locked

\* close() removes numbers and leaves the others alone.
LEMMA ClosedTable ==
    ASSUME NEW t, NEW N, IsTable(t)
    PROVE  /\ IsTable(Closed(t, N))
           /\ DOMAIN Closed(t, N) = DOMAIN t \ N
           /\ \A m \in DOMAIN t \ N : Closed(t, N)[m] = t[m]
<1>1. IsFiniteSet(DOMAIN t \ N)
  <2>1. DOMAIN t \ N \in SUBSET DOMAIN t
    OBVIOUS
  <2>2. QED
    BY <2>1, FS_Subset DEF IsTable
<1>2. QED
  BY <1>1 DEF IsTable, Closed


\* Each part of the cleanup does what daemon_shutdown_cleanup does for it.
LEMMA CleanupParts ==
    ASSUME ProcTypeOK, NEW p \in Procs, CleanupStep(p)
    PROVE  Step(p)
<1> USE DEF CleanupStep, Handles, Forgets, Skips, Goto
<1>1. At(p, "cleanup") /\ pc[p].k \in 1..7 /\ Len(CleanupOrder) = 7
  BY DEF ProcTypeOK, CleanupOrder
<1> drives = [q \in Procs |-> drives[q]] /\ h \in [Procs -> HandleType]
  BY DEF ProcTypeOK
<1>2. CASE pc[p].k = 1
  <2>1. CleanupOrder[pc[p].k] = "radio"
    BY <1>2 DEF CleanupOrder
  <2>2. CleanRadio(p)
    BY <1>1, <1>2, <2>1 DEF CleanRadio
  <2>3. QED
    BY <2>2 DEF Step
<1>3. CASE pc[p].k = 2
  <2>1. CleanupOrder[pc[p].k] = "led"
    BY <1>3 DEF CleanupOrder
  <2>2. CleanLed(p)
    BY <1>1, <1>3, <2>1 DEF CleanLed
  <2>3. QED
    BY <2>2 DEF Step
<1>4. CASE pc[p].k = 3
  <2>1. CleanupOrder[pc[p].k] = "pins"
    BY <1>4 DEF CleanupOrder
  <2>2. CleanPins(p)
    BY <1>1, <1>4, <2>1 DEF CleanPins
  <2>3. QED
    BY <2>2 DEF Step
<1>5. CASE pc[p].k = 4
  <2>1. CleanupOrder[pc[p].k] = "rflog"
    BY <1>5 DEF CleanupOrder
  <2>2. CleanRflog(p)
    <3>1. CASE path[p] = "startup"
      <4>1. Handles(p, "rflog") = {} /\ Forgets(p, "rflog") = h[p]
        BY <3>1
      <4>2. QED
        BY <1>1, <1>5, <2>1, <3>1, <4>1 DEF CleanRflog
    <3>2. CASE path[p] # "startup"
      <4>1. /\ Handles(p, "rflog") = {h[p].rflog}
            /\ Forgets(p, "rflog") = [h[p] EXCEPT !.rflog = NoFd]
        BY <3>2
      <4>2. QED
        BY <1>1, <1>5, <2>1, <3>2, <4>1 DEF CleanRflog
    <3>3. QED
      BY <3>1, <3>2
  <2>3. QED
    BY <2>2 DEF Step
<1>6. CASE pc[p].k = 5
  <2>1. CleanupOrder[pc[p].k] = "epoll"
    BY <1>6 DEF CleanupOrder
  <2>2. CleanEpoll(p)
    BY <1>1, <1>6, <2>1 DEF CleanEpoll
  <2>3. QED
    BY <2>2 DEF Step
<1>7. CASE pc[p].k = 6
  <2>1. CleanupOrder[pc[p].k] = "sockets"
    BY <1>7 DEF CleanupOrder
  <2>2. CleanSockets(p)
    BY <1>1, <1>7, <2>1 DEF CleanSockets
  <2>3. QED
    BY <2>2 DEF Step
<1>8. CASE pc[p].k = 7
  <2>1. CleanupOrder[pc[p].k] = "instance"
    BY <1>8 DEF CleanupOrder
  <2>2. CleanInstance(p)
    BY <1>1, <1>8, <2>1 DEF CleanInstance
  <2>3. QED
    BY <2>2 DEF Step
<1>9. QED
  BY <1>1, <1>2, <1>3, <1>4, <1>5, <1>6, <1>7, <1>8

\* After the last socket comes the instance lock.
LEMMA RemoveParts ==
    ASSUME ProcTypeOK, NEW p \in Procs, SocketRemove(p)
    PROVE  RemoveNext(p)
<1>1. /\ (CHOOSE i \in DOMAIN CleanupOrder : CleanupOrder[i] = "sockets") = 6
      /\ Len(CleanupOrder) = 7
  BY DEF CleanupOrder
<1>2. AfterSockets(p) => Goto(p, "cleanup", 7)
  <2>1. AfterSockets(p) => IF 6 = 7 THEN Goto(p, "exit", 0)
                           ELSE Goto(p, "cleanup", 6 + 1)
    BY <1>1, Zenon DEF AfterSockets
  <2>2. QED
    BY <2>1 DEF Goto
<1>3. pc[p].k \in 1..3
  BY DEF ProcTypeOK, SocketRemove, At, Socks
<1>4. QED
  BY <1>2, <1>3 DEF SocketRemove, RemoveNext, Socks

\* Every step of the machine is a step of one process.
LEMMA Steps ==
    ASSUME ProcTypeOK, [Next]_vars
    PROVE  UNCHANGED vars \/ \E p \in Procs : Step(p)
<1> SUFFICES ASSUME NEW p \in Procs,
                    \/ \E l \in Launches : Launch(p, l)
                    \/ ParseArgs(p) \/ EnterBackground(p) \/ StampInstall(p)
                    \/ RefusedEarly(p) \/ InstanceLockAcquire(p)
                    \/ InstanceLockFails(p) \/ SignalHandlersFail(p)
                    \/ PinLock(p) \/ LedInit(p) \/ NoPins(p) \/ PinsFail(p)
                    \/ PreparePath(p) \/ Bind(p) \/ BindFails(p)
                    \/ HalOpens(p) \/ RadioReady(p) \/ RadioFails(p)
                    \/ SpiBegin(p) \/ SpiEnd(p) \/ SpiFatal(p)
                    \/ EpollInit(p) \/ EpollFails(p) \/ Stop(p)
                    \/ CleanupStep(p) \/ SocketClose(p) \/ SocketRemove(p)
                    \/ ReleaseInstance(p) \/ Exit(p) \/ Crash(p)
             PROVE  Step(p)
  BY Zenon DEF Next
<1>1. CASE HalOpens(p)
  BY <1>1 DEF HalOpens, UsbOpens, PiOpens, Step
<1>2. CASE \/ RefusedEarly(p) \/ InstanceLockFails(p) \/ SignalHandlersFail(p)
           \/ SpiFatal(p) \/ Exit(p) \/ Crash(p)
  BY <1>2 DEF RefusedEarly, InstanceLockFails, SignalHandlersFail, SpiFatal,
     Exit, Crash, Step
<1>3. QED
  BY <1>1, <1>2, CleanupParts, RemoveParts, Zenon DEF Step

\* A process remembers numbers.
LEMMA HandleUpdates ==
    ASSUME NEW x \in HandleType, NEW n \in Nat
    PROVE  /\ [x EXCEPT !.rflog = n] \in HandleType
           /\ [x EXCEPT !.instance = n] \in HandleType
           /\ [x EXCEPT !.chip = n] \in HandleType
           /\ [x EXCEPT !.spi = n] \in HandleType
           /\ [x EXCEPT !.usb = n] \in HandleType
           /\ [x EXCEPT !.epoll = n] \in HandleType
           /\ [x EXCEPT !.pins = Append(@, n)] \in HandleType
           /\ [x EXCEPT !.pins = <<>>] \in HandleType
           /\ [x EXCEPT !.spi = NoFd, !.usb = NoFd] \in HandleType
           /\ \A k \in Socks : [x EXCEPT !.socks[k] = n] \in HandleType
           /\ [x EXCEPT !.socks = [j \in Socks |-> NoFd]] \in HandleType
           /\ NoHandles \in HandleType
<1> USE DEF HandleType, NoFd
<1>1. [x EXCEPT !.rflog = n] \in HandleType
  OBVIOUS
<1>2. [x EXCEPT !.instance = n] \in HandleType
  OBVIOUS
<1>3. [x EXCEPT !.chip = n] \in HandleType
  OBVIOUS
<1>4. [x EXCEPT !.spi = n] \in HandleType
  OBVIOUS
<1>5. [x EXCEPT !.usb = n] \in HandleType
  OBVIOUS
<1>6. [x EXCEPT !.epoll = n] \in HandleType
  OBVIOUS
<1>7. ASSUME NEW s \in Seq(Nat) PROVE [x EXCEPT !.pins = s] \in HandleType
  OBVIOUS
<1>8. [x EXCEPT !.pins = Append(@, n)] \in HandleType
  <2>1. x.pins \in Seq(Nat)
    OBVIOUS
  <2>2. Append(x.pins, n) \in Seq(Nat)
    BY <2>1
  <2> HIDE DEF HandleType
  <2>3. QED
    BY <1>7, <2>2
<1>9. [x EXCEPT !.pins = <<>>] \in HandleType
  <2>1. <<>> \in Seq(Nat)
    OBVIOUS
  <2> HIDE DEF HandleType
  <2>2. QED
    BY <1>7, <2>1
<1>10. [x EXCEPT !.spi = NoFd, !.usb = NoFd] \in HandleType
  OBVIOUS
<1>11. ASSUME NEW k \in Socks PROVE [x EXCEPT !.socks[k] = n] \in HandleType
  OBVIOUS
<1>12. [x EXCEPT !.socks = [j \in Socks |-> NoFd]] \in HandleType
  OBVIOUS
<1>13. NoHandles \in HandleType
  <2>1. <<>> \in Seq(Nat) /\ [k \in Socks |-> NoFd] \in [Socks -> Nat]
    OBVIOUS
  <2>2. QED
    BY <2>1 DEF NoHandles
<1> HIDE DEF HandleType, NoFd
<1>14. QED
  BY <1>1, <1>2, <1>3, <1>4, <1>5, <1>6, <1>8, <1>9, <1>10, <1>11, <1>12, <1>13

\* What a process remembers keeps its shape.
LEMMA HandleTypes ==
    ASSUME ProcTypeOK, TableInv, NEW p \in Procs, Step(p)
    PROVE  h' \in [Procs -> HandleType]
<1>1. Lowest(fdt[p]) \in Nat /\ LockFd(fdt[p]) \in Nat
  BY LowestFree, LockFdFree DEF TableInv, IsTable
<1>2. h \in [Procs -> HandleType] /\ NoFd \in Nat
  BY DEF ProcTypeOK, NoFd
<1>3. ASSUME NEW x \in HandleType
      PROVE  h' = [h EXCEPT ![p] = x] => h' \in [Procs -> HandleType]
  BY <1>2
<1>4. CASE Ends(p)
  <2>1. NoHandles \in HandleType
    BY <1>1, <1>2, HandleUpdates, Zenon
  <2>2. h' = [h EXCEPT ![p] = NoHandles]
    BY <1>4 DEF Ends
  <2>3. QED
    BY <2>1, <2>2, <1>3
<1>5. ASSUME NEW l \in Launches, Launch(p, l) PROVE h' \in [Procs -> HandleType]
  BY <1>5, <1>2 DEF Launch, At, Goto
<1>6. CASE ParseArgs(p)
  <2>1. [h[p] EXCEPT !.rflog = Lowest(fdt[p])] \in HandleType
    BY <1>1, <1>2, HandleUpdates, Zenon
  <2>2. [h[p] EXCEPT !.rflog = h[p].rflog] \in HandleType
    BY <1>2, HandleUpdates, Zenon DEF HandleType
  <2>3. QED
    BY <1>6, <2>1, <2>2, <1>3 DEF ParseArgs, RflogStart
<1>7. CASE EnterBackground(p)
  BY <1>7, <1>2 DEF EnterBackground, At, Goto
<1>8. CASE StampInstall(p)
  BY <1>8, <1>2 DEF StampInstall, At, Goto
<1>9. CASE InstanceLockAcquire(p)
  <2>1. [h[p] EXCEPT !.instance = LockFd(fdt[p])] \in HandleType
    BY <1>1, <1>2, HandleUpdates, Zenon
  <2>2. h' = [h EXCEPT ![p] = [h[p] EXCEPT !.instance = LockFd(fdt[p])]]
    BY <1>9 DEF InstanceLockAcquire
  <2>3. QED
    BY <2>1, <2>2, <1>3
<1>10. CASE PinLock(p)
  <2>1. [h[p] EXCEPT !.pins = Append(@, LockFd(fdt[p]))] \in HandleType
    BY <1>1, <1>2, HandleUpdates, Zenon
  <2>2. h' = [h EXCEPT ![p] = [h[p] EXCEPT !.pins = Append(@, LockFd(fdt[p]))]]
    BY <1>10 DEF PinLock
  <2>3. QED
    BY <2>1, <2>2, <1>3
<1>11. CASE LedInit(p)
  <2>1. [h[p] EXCEPT !.chip = Lowest(fdt[p])] \in HandleType
    BY <1>1, <1>2, HandleUpdates, Zenon
  <2>2. h' = [h EXCEPT ![p] = [h[p] EXCEPT !.chip = Lowest(fdt[p])]]
    BY <1>11 DEF LedInit
  <2>3. QED
    BY <2>1, <2>2, <1>3
<1>12. CASE NoPins(p)
  BY <1>12, <1>2 DEF NoPins, PinsDone, At, Goto
<1>13. CASE PinsFail(p)
  <2>1. [h[p] EXCEPT !.pins = <<>>] \in HandleType
    BY <1>1, <1>2, HandleUpdates, Zenon
  <2>2. h' = [h EXCEPT ![p] = [h[p] EXCEPT !.pins = <<>>]]
    BY <1>13 DEF PinsFail
  <2>3. QED
    BY <2>1, <2>2, <1>3
<1>14. CASE PreparePath(p)
  BY <1>14, <1>2 DEF PreparePath, At, Goto
<1>15. CASE Bind(p)
  <2>1. pc[p].k \in Socks
    BY <1>15 DEF Bind, At, ProcTypeOK
  <2>2. [h[p] EXCEPT !.socks[pc[p].k] = Lowest(fdt[p])] \in HandleType
    BY <1>1, <1>2, <2>1, HandleUpdates, Zenon
  <2>3. h' = [h EXCEPT ![p] = [h[p] EXCEPT !.socks[pc[p].k] = Lowest(fdt[p])]]
    BY <1>15 DEF Bind
  <2>4. QED
    BY <2>2, <2>3, <1>3
<1>16. CASE BindFails(p)
  <2>1. [h[p] EXCEPT !.socks = [j \in Socks |-> NoFd]] \in HandleType
    BY <1>1, <1>2, HandleUpdates, Zenon
  <2>2. h' = [h EXCEPT ![p] = [h[p] EXCEPT !.socks = [j \in Socks |-> NoFd]]]
    BY <1>16 DEF BindFails
  <2>3. QED
    BY <2>1, <2>2, <1>3
<1>17. CASE UsbOpens(p)
  <2>1. [h[p] EXCEPT !.usb = Lowest(fdt[p])] \in HandleType
    BY <1>1, <1>2, HandleUpdates, Zenon
  <2>2. h' = [h EXCEPT ![p] = [h[p] EXCEPT !.usb = Lowest(fdt[p])]]
    BY <1>17 DEF UsbOpens
  <2>3. QED
    BY <2>1, <2>2, <1>3
<1>18. CASE PiOpens(p)
  <2>1. [h[p] EXCEPT !.spi = LockFd(fdt[p])] \in HandleType
    BY <1>1, <1>2, HandleUpdates, Zenon
  <2>2. h' = [h EXCEPT ![p] = [h[p] EXCEPT !.spi = LockFd(fdt[p])]]
    BY <1>18 DEF PiOpens
  <2>3. QED
    BY <2>1, <2>2, <1>3
<1>19. CASE RadioReady(p)
  BY <1>19, <1>2 DEF RadioReady, At, Goto
<1>20. CASE RadioFails(p)
  BY <1>20, <1>2 DEF RadioFails, Cleanup, At, Goto
<1>21. CASE SpiBegin(p)
  BY <1>21, <1>2 DEF SpiBegin, Touches, At, Goto
<1>22. CASE SpiEnd(p)
  BY <1>22, <1>2 DEF SpiEnd, At, Goto
<1>23. CASE EpollInit(p)
  <2>1. [h[p] EXCEPT !.epoll = Lowest(fdt[p])] \in HandleType
    BY <1>1, <1>2, HandleUpdates, Zenon
  <2>2. h' = [h EXCEPT ![p] = [h[p] EXCEPT !.epoll = Lowest(fdt[p])]]
    BY <1>23 DEF EpollInit
  <2>3. QED
    BY <2>1, <2>2, <1>3
<1>24. CASE EpollFails(p)
  BY <1>24, <1>2 DEF EpollFails, Cleanup, At, Goto
<1>25. CASE Stop(p)
  BY <1>25, <1>2 DEF Stop, Cleanup, At, Goto
<1>26. CASE CleanRadio(p)
  <2>1. [h[p] EXCEPT !.spi = NoFd, !.usb = NoFd] \in HandleType
    BY <1>1, <1>2, HandleUpdates, Zenon
  <2>2. h' = [h EXCEPT ![p] = [h[p] EXCEPT !.spi = NoFd, !.usb = NoFd]]
    BY <1>26 DEF CleanRadio
  <2>3. QED
    BY <2>1, <2>2, <1>3
<1>27. CASE CleanLed(p)
  <2>1. [h[p] EXCEPT !.chip = NoFd] \in HandleType
    BY <1>1, <1>2, HandleUpdates, Zenon
  <2>2. h' = [h EXCEPT ![p] = [h[p] EXCEPT !.chip = NoFd]]
    BY <1>27 DEF CleanLed
  <2>3. QED
    BY <2>1, <2>2, <1>3
<1>28. CASE CleanPins(p)
  <2>1. [h[p] EXCEPT !.pins = <<>>] \in HandleType
    BY <1>1, <1>2, HandleUpdates, Zenon
  <2>2. h' = [h EXCEPT ![p] = [h[p] EXCEPT !.pins = <<>>]]
    BY <1>28 DEF CleanPins
  <2>3. QED
    BY <2>1, <2>2, <1>3
<1>29. CASE CleanRflog(p)
  <2>1. [h[p] EXCEPT !.rflog = NoFd] \in HandleType
    BY <1>2, HandleUpdates, Zenon
  <2>2. QED
    BY <1>29, <2>1, <1>2, <1>3 DEF CleanRflog
<1>30. CASE CleanEpoll(p)
  <2>1. [h[p] EXCEPT !.epoll = NoFd] \in HandleType
    BY <1>1, <1>2, HandleUpdates, Zenon
  <2>2. h' = [h EXCEPT ![p] = [h[p] EXCEPT !.epoll = NoFd]]
    BY <1>30 DEF CleanEpoll
  <2>3. QED
    BY <2>1, <2>2, <1>3
<1>31. CASE CleanSockets(p)
  BY <1>31, <1>2 DEF CleanSockets, At, Goto
<1>32. CASE CleanInstance(p)
  <2>1. [h[p] EXCEPT !.instance = NoFd] \in HandleType
    BY <1>1, <1>2, HandleUpdates, Zenon
  <2>2. h' = [h EXCEPT ![p] = [h[p] EXCEPT !.instance = NoFd]]
    BY <1>32 DEF CleanInstance
  <2>3. QED
    BY <2>1, <2>2, <1>3
<1>33. CASE SocketClose(p)
  <2>1. pc[p].k \in Socks
    BY <1>33 DEF SocketClose, At, ProcTypeOK
  <2>2. [h[p] EXCEPT !.socks[pc[p].k] = NoFd] \in HandleType
    BY <1>1, <1>2, <2>1, HandleUpdates, Zenon
  <2>3. h' = [h EXCEPT ![p] = [h[p] EXCEPT !.socks[pc[p].k] = NoFd]]
    BY <1>33 DEF SocketClose
  <2>4. QED
    BY <2>2, <2>3, <1>3
<1>34. CASE RemoveNext(p)
  BY <1>34, <1>2 DEF RemoveNext, At, Goto
<1>35. CASE ReleaseInstance(p)
  <2>1. [h[p] EXCEPT !.instance = NoFd] \in HandleType
    BY <1>1, <1>2, HandleUpdates, Zenon
  <2>2. h' = [h EXCEPT ![p] = [h[p] EXCEPT !.instance = NoFd]]
    BY <1>35 DEF ReleaseInstance
  <2>3. QED
    BY <2>1, <2>2, <1>3
<1>36. QED
  BY <1>4, <1>5, <1>6, <1>7, <1>8, <1>9, <1>10, <1>11, <1>12, <1>13, <1>14,
     <1>15, <1>16, <1>17, <1>18, <1>19, <1>20, <1>21, <1>22, <1>23, <1>24,
     <1>25, <1>26, <1>27, <1>28, <1>29, <1>30, <1>31, <1>32, <1>33, <1>34,
     <1>35 DEF Step

\* A process is at a step that exists, and drives lines by number.
LEMMA TypesStep ==
    ASSUME LaunchesAssumption, ProcTypeOK, TableInv, NEW p \in Procs, Step(p)
    PROVE  ProcTypeOK'
<1> DEFINE Rest ==
             /\ pc' \in [Procs -> [at : StepNames, k : Nat]]
             /\ opt' \in [Procs -> Launches \union {CHOOSE l \in Launches : TRUE}]
             /\ path' \in [Procs -> {"none", "startup", "shutdown"}]
             /\ bus' \in [Procs -> BOOLEAN]
             /\ node' = [x \in Ids \X Socks |-> node'[x]]
           InStep(s, k) == /\ s \in {"unlink", "bind", "close", "remove"} => k \in Socks
                           /\ s = "cleanup" => k \in 1..7
                           /\ s = "pins" => k >= 1
           Places ==
             \A q \in Procs : /\ ~At(q, "off")' => opt'[q] \in Launches
                              /\ InStep(pc'[q].at, pc'[q].k)
<1>1. /\ pc \in [Procs -> [at : StepNames, k : Nat]]
      /\ opt \in [Procs -> Launches \union {CHOOSE l \in Launches : TRUE}]
      /\ \A q \in Procs : /\ ~At(q, "off") => opt[q] \in Launches
                          /\ InStep(pc[q].at, pc[q].k)
  BY DEF ProcTypeOK, At
<1>2. ASSUME NEW s \in StepNames, NEW k \in Nat, Goto(p, s, k), InStep(s, k),
             ~At(p, "off"), opt' = opt
      PROVE  pc' \in [Procs -> [at : StepNames, k : Nat]] /\ Places
  BY <1>1, <1>2 DEF Goto, At
<1>3. ASSUME Bind(p) \/ RemoveNext(p)
      PROVE  pc' \in [Procs -> [at : StepNames, k : Nat]] /\ Places
  <2>1. pc[p].k \in 1..3 /\ ~At(p, "off")
    BY <1>3 DEF Bind, RemoveNext, At, ProcTypeOK, Socks
  <2>2. CASE Bind(p)
    <3>1. \/ pc[p].k + 1 \in Socks /\ Goto(p, "unlink", pc[p].k + 1)
          \/ Goto(p, "radio", 0)
      BY <2>2 DEF Bind
    <3>2. opt' = opt
      BY <2>2 DEF Bind
    <3>3. "unlink" \in StepNames /\ "radio" \in StepNames /\ pc[p].k + 1 \in Nat
      BY <2>1 DEF StepNames, Serving
    <3>4. QED
      BY <2>1, <3>1, <3>2, <3>3, <1>2
  <2>3. CASE RemoveNext(p)
    <3>1. \/ pc[p].k + 1 \in Socks /\ Goto(p, "close", pc[p].k + 1)
          \/ Goto(p, "cleanup", 7)
      BY <2>1, <2>3 DEF RemoveNext, Socks
    <3>2. opt' = opt
      BY <2>3 DEF RemoveNext
    <3>3. "close" \in StepNames /\ "cleanup" \in StepNames /\ pc[p].k + 1 \in Nat
      BY <2>1 DEF StepNames, Serving
    <3>4. QED
      BY <2>1, <3>1, <3>2, <3>3, <1>2
  <2>4. QED
    BY <1>3, <2>2, <2>3
<1>4. Rest
  <2> USE DEF ProcTypeOK, StepNames, Serving
  <2>1. CASE Ends(p)
    BY <2>1 DEF Ends, At, Goto
  <2>2. ASSUME NEW l \in Launches, Launch(p, l) PROVE Rest
    BY <2>2 DEF Launch, At, Goto
  <2>3. CASE ParseArgs(p)
    BY <2>3 DEF ParseArgs, RflogStart, At, Goto
  <2>4. CASE EnterBackground(p)
    BY <2>4 DEF EnterBackground, At, Goto
  <2>5. CASE StampInstall(p)
    BY <2>5 DEF StampInstall, At, Goto
  <2>6. CASE InstanceLockAcquire(p)
    BY <2>6 DEF InstanceLockAcquire, At, Goto
  <2>7. CASE PinLock(p)
    BY <2>7 DEF PinLock, At, Goto
  <2>8. CASE LedInit(p)
    BY <2>8 DEF LedInit, PinsDone, At, Goto
  <2>9. CASE NoPins(p)
    BY <2>9 DEF NoPins, PinsDone, At, Goto
  <2>10. CASE PinsFail(p)
    BY <2>10 DEF PinsFail, At, Goto
  <2>11. CASE PreparePath(p)
    BY <2>11 DEF PreparePath, At, Goto
  <2>12. CASE Bind(p)
    <3>1. node' = [x \in Ids \X Socks |-> node'[x]]
      BY <2>12 DEF Bind
    <3>2. QED
      BY <2>12, <3>1, <1>3 DEF Bind
  <2>13. CASE BindFails(p)
    BY <2>13 DEF BindFails, Cleanup, At, Goto
  <2>14. CASE UsbOpens(p)
    BY <2>14 DEF UsbOpens, At, Goto
  <2>15. CASE PiOpens(p)
    BY <2>15 DEF PiOpens, At, Goto
  <2>16. CASE RadioReady(p)
    BY <2>16 DEF RadioReady, At, Goto
  <2>17. CASE RadioFails(p)
    BY <2>17 DEF RadioFails, Cleanup, At, Goto
  <2>18. CASE SpiBegin(p)
    BY <2>18 DEF SpiBegin, Touches, At, Goto
  <2>19. CASE SpiEnd(p)
    BY <2>19 DEF SpiEnd, At, Goto
  <2>20. CASE EpollInit(p)
    BY <2>20 DEF EpollInit, At, Goto
  <2>21. CASE EpollFails(p)
    BY <2>21 DEF EpollFails, Cleanup, At, Goto
  <2>22. CASE Stop(p)
    BY <2>22 DEF Stop, Cleanup, At, Goto
  <2>23. CASE CleanRadio(p)
    BY <2>23 DEF CleanRadio, At, Goto
  <2>24. CASE CleanLed(p)
    BY <2>24 DEF CleanLed, At, Goto
  <2>25. CASE CleanPins(p)
    BY <2>25 DEF CleanPins, At, Goto
  <2>26. CASE CleanRflog(p)
    BY <2>26 DEF CleanRflog, At, Goto
  <2>27. CASE CleanEpoll(p)
    BY <2>27 DEF CleanEpoll, At, Goto
  <2>28. CASE CleanSockets(p)
    BY <2>28 DEF CleanSockets, At, Goto
  <2>29. CASE CleanInstance(p)
    BY <2>29 DEF CleanInstance, At, Goto
  <2>30. CASE SocketClose(p)
    BY <2>30 DEF SocketClose, At, Goto
  <2>31. CASE RemoveNext(p)
    <3>1. node' = [x \in Ids \X Socks |-> node'[x]]
      BY <2>31 DEF RemoveNext
    <3>2. QED
      BY <2>31, <3>1, <1>3 DEF RemoveNext
  <2>32. CASE ReleaseInstance(p)
    BY <2>32 DEF ReleaseInstance, At, Goto
  <2>33. QED
    BY <2>1, <2>2, <2>3, <2>4, <2>5, <2>6, <2>7, <2>8, <2>9, <2>10, <2>11,
       <2>12, <2>13, <2>14, <2>15, <2>16, <2>17, <2>18, <2>19, <2>20, <2>21,
       <2>22, <2>23, <2>24, <2>25, <2>26, <2>27, <2>28, <2>29, <2>30, <2>31,
       <2>32 DEF Step
<1>5. Places
  <2> USE <1>1 DEF Socks
  <2>1. CASE Ends(p)
    BY <2>1 DEF Ends, At, Goto
  <2>2. ASSUME NEW l \in Launches, Launch(p, l) PROVE Places
    BY <2>2 DEF Launch, At, Goto
  <2>3. CASE ParseArgs(p)
    BY <2>3 DEF ParseArgs, RflogStart, At, Goto
  <2>4. CASE EnterBackground(p)
    BY <2>4 DEF EnterBackground, At, Goto
  <2>5. CASE StampInstall(p)
    BY <2>5 DEF StampInstall, At, Goto
  <2>6. CASE InstanceLockAcquire(p)
    BY <2>6 DEF InstanceLockAcquire, At, Goto
  <2>7. CASE PinLock(p)
    BY <2>7 DEF PinLock, At, Goto
  <2>8. CASE LedInit(p)
    BY <2>8 DEF LedInit, PinsDone, At, Goto
  <2>9. CASE NoPins(p)
    BY <2>9 DEF NoPins, PinsDone, At, Goto
  <2>10. CASE PinsFail(p)
    BY <2>10 DEF PinsFail, At, Goto
  <2>11. CASE PreparePath(p)
    BY <2>11 DEF PreparePath, At, Goto
  <2>12. CASE Bind(p)
    BY <2>12, <1>3
  <2>13. CASE BindFails(p)
    BY <2>13 DEF BindFails, Cleanup, At, Goto
  <2>14. CASE UsbOpens(p)
    BY <2>14 DEF UsbOpens, At, Goto
  <2>15. CASE PiOpens(p)
    BY <2>15 DEF PiOpens, At, Goto
  <2>16. CASE RadioReady(p)
    BY <2>16 DEF RadioReady, At, Goto
  <2>17. CASE RadioFails(p)
    BY <2>17 DEF RadioFails, Cleanup, At, Goto
  <2>18. CASE SpiBegin(p)
    BY <2>18 DEF SpiBegin, Touches, At, Goto
  <2>19. CASE SpiEnd(p)
    BY <2>19 DEF SpiEnd, At, Goto
  <2>20. CASE EpollInit(p)
    BY <2>20 DEF EpollInit, At, Goto
  <2>21. CASE EpollFails(p)
    BY <2>21 DEF EpollFails, Cleanup, At, Goto
  <2>22. CASE Stop(p)
    BY <2>22 DEF Stop, Cleanup, At, Goto
  <2>23. CASE CleanRadio(p)
    BY <2>23 DEF CleanRadio, At, Goto
  <2>24. CASE CleanLed(p)
    BY <2>24 DEF CleanLed, At, Goto
  <2>25. CASE CleanPins(p)
    BY <2>25 DEF CleanPins, At, Goto
  <2>26. CASE CleanRflog(p)
    BY <2>26 DEF CleanRflog, At, Goto
  <2>27. CASE CleanEpoll(p)
    BY <2>27 DEF CleanEpoll, At, Goto
  <2>28. CASE CleanSockets(p)
    BY <2>28 DEF CleanSockets, At, Goto
  <2>29. CASE CleanInstance(p)
    BY <2>29 DEF CleanInstance, At, Goto
  <2>30. CASE SocketClose(p)
    BY <2>30 DEF SocketClose, At, Goto
  <2>31. CASE RemoveNext(p)
    BY <2>31, <1>3
  <2>32. CASE ReleaseInstance(p)
    BY <2>32 DEF ReleaseInstance, At, Goto
  <2>33. QED
    BY <2>1, <2>2, <2>3, <2>4, <2>5, <2>6, <2>7, <2>8, <2>9, <2>10, <2>11,
       <2>12, <2>13, <2>14, <2>15, <2>16, <2>17, <2>18, <2>19, <2>20, <2>21,
       <2>22, <2>23, <2>24, <2>25, <2>26, <2>27, <2>28, <2>29, <2>30, <2>31,
       <2>32 DEF Step
<1>6. drives' = [q \in Procs |-> drives'[q]]
  <2>1. drives = [q \in Procs |-> drives[q]]
    BY DEF ProcTypeOK
  <2>2. CASE Ends(p)
    BY <2>2, <2>1 DEF Ends, At, Goto
  <2>3. ASSUME NEW l \in Launches, Launch(p, l) PROVE drives' = [q \in Procs |-> drives'[q]]
    BY <2>3, <2>1 DEF Launch, At, Goto
  <2>4. CASE ParseArgs(p)
    BY <2>4, <2>1 DEF ParseArgs, RflogStart, At, Goto
  <2>5. CASE EnterBackground(p)
    BY <2>5, <2>1 DEF EnterBackground, At, Goto
  <2>6. CASE StampInstall(p)
    BY <2>6, <2>1 DEF StampInstall, At, Goto
  <2>7. CASE InstanceLockAcquire(p)
    BY <2>7, <2>1 DEF InstanceLockAcquire, At, Goto
  <2>8. CASE PinLock(p)
    BY <2>8, <2>1 DEF PinLock, At, Goto
  <2>9. CASE LedInit(p)
    BY <2>9, <2>1 DEF LedInit, PinsDone, At, Goto
  <2>10. CASE NoPins(p)
    BY <2>10, <2>1 DEF NoPins, PinsDone, At, Goto
  <2>11. CASE PinsFail(p)
    BY <2>11, <2>1 DEF PinsFail, At, Goto
  <2>12. CASE PreparePath(p)
    BY <2>12, <2>1 DEF PreparePath, At, Goto
  <2>13. CASE Bind(p)
    BY <2>13, <2>1 DEF Bind, At, Goto
  <2>14. CASE BindFails(p)
    BY <2>14, <2>1 DEF BindFails, Cleanup, At, Goto
  <2>15. CASE UsbOpens(p)
    BY <2>15, <2>1 DEF UsbOpens, At, Goto
  <2>16. CASE PiOpens(p)
    BY <2>16, <2>1 DEF PiOpens, At, Goto
  <2>17. CASE RadioReady(p)
    BY <2>17, <2>1 DEF RadioReady, At, Goto
  <2>18. CASE RadioFails(p)
    BY <2>18, <2>1 DEF RadioFails, Cleanup, At, Goto
  <2>19. CASE SpiBegin(p)
    BY <2>19, <2>1 DEF SpiBegin, Touches, At, Goto
  <2>20. CASE SpiEnd(p)
    BY <2>20, <2>1 DEF SpiEnd, At, Goto
  <2>21. CASE EpollInit(p)
    BY <2>21, <2>1 DEF EpollInit, At, Goto
  <2>22. CASE EpollFails(p)
    BY <2>22, <2>1 DEF EpollFails, Cleanup, At, Goto
  <2>23. CASE Stop(p)
    BY <2>23, <2>1 DEF Stop, Cleanup, At, Goto
  <2>24. CASE CleanRadio(p)
    BY <2>24, <2>1 DEF CleanRadio, At, Goto
  <2>25. CASE CleanLed(p)
    BY <2>25, <2>1 DEF CleanLed, At, Goto
  <2>26. CASE CleanPins(p)
    BY <2>26, <2>1 DEF CleanPins, At, Goto
  <2>27. CASE CleanRflog(p)
    BY <2>27, <2>1 DEF CleanRflog, At, Goto
  <2>28. CASE CleanEpoll(p)
    BY <2>28, <2>1 DEF CleanEpoll, At, Goto
  <2>29. CASE CleanSockets(p)
    BY <2>29, <2>1 DEF CleanSockets, At, Goto
  <2>30. CASE CleanInstance(p)
    BY <2>30, <2>1 DEF CleanInstance, At, Goto
  <2>31. CASE SocketClose(p)
    BY <2>31, <2>1 DEF SocketClose, At, Goto
  <2>32. CASE RemoveNext(p)
    BY <2>32, <2>1 DEF RemoveNext, At, Goto
  <2>33. CASE ReleaseInstance(p)
    BY <2>33, <2>1 DEF ReleaseInstance, At, Goto
  <2>34. QED
    BY <2>2, <2>3, <2>4, <2>5, <2>6, <2>7, <2>8, <2>9, <2>10, <2>11, <2>12,
       <2>13, <2>14, <2>15, <2>16, <2>17, <2>18, <2>19, <2>20, <2>21, <2>22,
       <2>23, <2>24, <2>25, <2>26, <2>27, <2>28, <2>29, <2>30, <2>31, <2>32,
       <2>33 DEF Step
<1>7. QED
  BY <1>4, <1>5, <1>6, HandleTypes DEF ProcTypeOK, At


\* What a step does to the process's own table: it opens, closes, or takes
\* and drops the lock of a description it has.
LEMMA OwnTable ==
    ASSUME ProcTypeOK, TableInv, NEW p \in Procs, NEW u,
           fdt' = [fdt EXCEPT ![p] = u], IsTable(u)
    PROVE  TableInv'
  BY DEF TableInv

\* An open leaves a table.
LEMMA OpenTable ==
    ASSUME NEW t, NEW d \in Descs, IsTable(t)
    PROVE  IsTable(Opened(t, d))
  BY OpenedAdds, AddsTable

\* The files of a command line are files.
LEMMA FileDescs ==
    ASSUME LaunchesAssumption, ProcTypeOK, NEW p \in Procs, ~At(p, "off")
    PROVE  /\ RfLog(p) \in Descs
           /\ InstanceFile(p) \in Descs /\ Locked(InstanceFile(p)) \in Descs
           /\ \A k \in Socks : Socket(p, k) \in Descs
           /\ \A i \in 1..Len(opt[p].pins) : /\ PinFile(opt[p].pins[i]) \in Descs
                                             /\ Locked(PinFile(opt[p].pins[i])) \in Descs
<1>1. opt[p] \in Launches /\ opt[p].id \in Ids /\ opt[p].pins \in Seq(Nat)
  BY DEF ProcTypeOK, LaunchesAssumption, Ids
<1>2. \A i \in 1..Len(opt[p].pins) : opt[p].pins[i] \in Nat
  BY <1>1
<1> USE DEF Desc, Descs, Kinds
<1>3. \A n \in Nat : PinFile(n) \in Descs /\ Locked(PinFile(n)) \in Descs
  BY DEF PinFile, Locked
<1>4. \A id \in Ids, k \in Nat :
         /\ Desc("rflog", id, 0) \in Descs /\ Desc("socket", id, k) \in Descs
         /\ Desc("instance", id, 0) \in Descs
  OBVIOUS
<1>5. \A d \in Descs : Locked(d) \in Descs
  BY DEF Locked
<1> HIDE DEF Desc, Descs, Kinds
<1>6. \A k \in Socks : k \in Nat
  BY DEF Socks
<1>7. QED
  BY <1>1, <1>2, <1>3, <1>4, <1>5, <1>6 DEF RfLog, InstanceFile, Socket

\* Tables stay tables.
LEMMA TablesStep ==
    ASSUME LaunchesAssumption, ProcTypeOK, TableInv, NEW p \in Procs, Step(p)
    PROVE  TableInv'
<1>1. IsTable(fdt[p]) /\ fdt = [q \in Procs |-> fdt[q]]
  BY DEF TableInv
<1>2. \A N : IsTable(Closed(fdt[p], N))
  BY <1>1, ClosedTable
<1>3. IsTable(<<>>)
  BY FS_EmptySet DEF IsTable
<1>4. \A k \in Kinds : IsTable(Opened(fdt[p], Other(k)))
  BY <1>1, OpenTable, OtherIsDesc
<1>5. CASE Ends(p)
  <2>1. IsTable(<<>>)
    BY <1>3
  <2>2. fdt' = [fdt EXCEPT ![p] = <<>>]
    BY <1>5 DEF Ends
  <2>3. QED
    BY <2>1, <2>2, OwnTable
<1>6. ASSUME NEW l \in Launches, Launch(p, l) PROVE TableInv'
  <2> DEFINE u == [n \in 3..(2 + l.inherited) |-> Other("parent")]
  <2>1. IsTable(u)
    <3>1. l.inherited \in Nat
      BY DEF LaunchesAssumption
    <3>2. IsFiniteSet(3..(2 + l.inherited))
      BY <3>1, FS_Interval
    <3>3. Other("parent") \in Descs
      BY OtherIsDesc DEF Kinds
    <3>4. QED
      BY <3>1, <3>2, <3>3 DEF IsTable
  <2>2. fdt' = [fdt EXCEPT ![p] = u]
    BY <1>6 DEF Launch
  <2> HIDE DEF u
  <2>3. QED
    BY <2>1, <2>2, OwnTable
<1>7. CASE ParseArgs(p)
  <2>1. IsTable(Opened(fdt[p], RfLog(p)))
    BY <1>7, <1>1, OpenTable, FileDescs DEF ParseArgs, At
  <2>2. \/ fdt' = [fdt EXCEPT ![p] = Opened(fdt[p], RfLog(p))]
        \/ fdt' = [fdt EXCEPT ![p] = fdt[p]]
    BY <1>7 DEF ParseArgs, RflogStart
  <2>3. QED
    BY <1>1, <2>1, <2>2, OwnTable
<1>8. CASE EnterBackground(p)
  <2>1. \/ fdt' = [fdt EXCEPT ![p] = <<>>] \/ fdt' = [fdt EXCEPT ![p] = fdt[p]]
    BY <1>8 DEF EnterBackground
  <2>2. QED
    BY <1>1, <1>3, <2>1, OwnTable
<1>9. CASE StampInstall(p)
  <2>1. IsTable(Opened(Opened(fdt[p], Other("stdout")), Other("stderr")))
    BY <1>4, OpenTable, OtherIsDesc DEF Kinds
  <2>2. fdt' = [fdt EXCEPT ![p] = Opened(Opened(fdt[p], Other("stdout")), Other("stderr"))]
    BY <1>9 DEF StampInstall
  <2>3. QED
    BY <2>1, <2>2, OwnTable
<1>10. CASE InstanceLockAcquire(p)
  <2>1. IsTable(WithLock(fdt[p], InstanceFile(p)))
    <3>1. Locked(InstanceFile(p)) \in Descs
      BY <1>10, FileDescs DEF InstanceLockAcquire, At
    <3>2. QED
      BY <1>1, <3>1, LockAdds, AddsTable
  <2>2. fdt' = [fdt EXCEPT ![p] = WithLock(fdt[p], InstanceFile(p))]
    BY <1>10 DEF InstanceLockAcquire
  <2>3. QED
    BY <2>1, <2>2, OwnTable
<1>11. CASE PinLock(p)
  <2> DEFINE d == PinFile(opt[p].pins[pc[p].k])
  <2>1. pc[p].k \in 1..Len(opt[p].pins) /\ ~At(p, "off")
    BY <1>11 DEF PinLock, At, ProcTypeOK
  <2>2. Locked(d) \in Descs
    BY <2>1, FileDescs
  <2>3. fdt' = [fdt EXCEPT ![p] = WithLock(fdt[p], d)]
    BY <1>11 DEF PinLock
  <2> HIDE DEF d
  <2>4. IsTable(WithLock(fdt[p], d))
    BY <2>2, <1>1, LockAdds, AddsTable
  <2>5. QED
    BY <2>3, <2>4, OwnTable
<1>12. CASE LedInit(p)
  <2>1. IsTable(Opened(fdt[p], Other("gpiochip")))
    BY <1>4 DEF Kinds
  <2>2. fdt' = [fdt EXCEPT ![p] = Opened(fdt[p], Other("gpiochip"))]
    BY <1>12 DEF LedInit
  <2>3. QED
    BY <2>1, <2>2, OwnTable
<1>13. CASE NoPins(p)
  BY <1>13 DEF NoPins, TableInv
<1>14. CASE PinsFail(p)
  <2>1. IsTable(Closed(fdt[p], Range(h[p].pins)))
    BY <1>2
  <2>2. fdt' = [fdt EXCEPT ![p] = Closed(fdt[p], Range(h[p].pins))]
    BY <1>14 DEF PinsFail
  <2>3. QED
    BY <2>1, <2>2, OwnTable
<1>15. CASE PreparePath(p)
  BY <1>15 DEF PreparePath, TableInv
<1>16. CASE Bind(p)
  <2>1. IsTable(Opened(fdt[p], Socket(p, pc[p].k)))
    BY <1>16, <1>1, OpenTable, FileDescs DEF Bind, At, ProcTypeOK
  <2>2. fdt' = [fdt EXCEPT ![p] = Opened(fdt[p], Socket(p, pc[p].k))]
    BY <1>16 DEF Bind
  <2>3. QED
    BY <2>1, <2>2, OwnTable
<1>17. CASE BindFails(p)
  <2>1. IsTable(Closed(fdt[p], {h[p].socks[j] : j \in {i \in Socks : i < pc[p].k}}))
    BY <1>2
  <2>2. fdt' = [fdt EXCEPT ![p] = Closed(fdt[p], {h[p].socks[j] : j \in {i \in Socks : i < pc[p].k}})]
    BY <1>17 DEF BindFails
  <2>3. QED
    BY <2>1, <2>2, OwnTable
<1>18. CASE UsbOpens(p)
  <2>1. IsTable(Opened(fdt[p], Other("usb")))
    BY <1>4 DEF Kinds
  <2>2. fdt' = [fdt EXCEPT ![p] = Opened(fdt[p], Other("usb"))]
    BY <1>18 DEF UsbOpens
  <2>3. QED
    BY <2>1, <2>2, OwnTable
<1>19. CASE PiOpens(p)
  <2>1. IsTable(With(fdt[p], LockFd(fdt[p]), SpiFile))
    BY <1>1, LockAdds, AddsTable, OtherIsDesc
  <2>2. IsTable(Opened(Opened(With(fdt[p], LockFd(fdt[p]), SpiFile),
                              Other("gpiochip")), Other("spidev")))
    BY <2>1, OpenTable, OtherIsDesc DEF Kinds
  <2>3. fdt' = [fdt EXCEPT ![p] =
                   Opened(Opened(With(fdt[p], LockFd(fdt[p]), SpiFile),
                                 Other("gpiochip")), Other("spidev"))]
    BY <1>19 DEF PiOpens
  <2>4. QED
    BY <2>2, <2>3, OwnTable
<1>20. CASE RadioReady(p)
  BY <1>20 DEF RadioReady, TableInv
<1>21. CASE RadioFails(p)
  BY <1>21 DEF RadioFails, TableInv
<1>22. CASE SpiBegin(p)
  <2> DEFINE u == [fdt[p] EXCEPT ![h[p].spi].locked = TRUE]
  <2>1. IsTable(u)
    BY <1>1, Zenon DEF IsTable, Descs
  <2>2. fdt' = [fdt EXCEPT ![p] = u]
    BY <1>22 DEF SpiBegin
  <2> HIDE DEF u
  <2>3. QED
    BY <2>1, <2>2, OwnTable
<1>23. CASE SpiEnd(p)
  <2> DEFINE u == [fdt[p] EXCEPT ![h[p].spi].locked = FALSE]
  <2>1. IsTable(u)
    BY <1>1, Zenon DEF IsTable, Descs
  <2>2. fdt' = [fdt EXCEPT ![p] = u]
    BY <1>23 DEF SpiEnd
  <2> HIDE DEF u
  <2>3. QED
    BY <2>1, <2>2, OwnTable
<1>24. CASE EpollInit(p)
  <2>1. IsTable(Opened(fdt[p], Other("epoll")))
    BY <1>4 DEF Kinds
  <2>2. fdt' = [fdt EXCEPT ![p] = Opened(fdt[p], Other("epoll"))]
    BY <1>24 DEF EpollInit
  <2>3. QED
    BY <2>1, <2>2, OwnTable
<1>25. CASE EpollFails(p)
  BY <1>25 DEF EpollFails, TableInv
<1>26. CASE Stop(p)
  BY <1>26 DEF Stop, TableInv
<1>27. CASE CleanRadio(p)
  <2>1. IsTable(Closed(fdt[p], {h[p].spi, h[p].usb}))
    BY <1>2
  <2>2. fdt' = [fdt EXCEPT ![p] = Closed(fdt[p], {h[p].spi, h[p].usb})]
    BY <1>27 DEF CleanRadio
  <2>3. QED
    BY <2>1, <2>2, OwnTable
<1>28. CASE CleanLed(p)
  <2>1. IsTable(Closed(fdt[p], {h[p].chip}))
    BY <1>2
  <2>2. fdt' = [fdt EXCEPT ![p] = Closed(fdt[p], {h[p].chip})]
    BY <1>28 DEF CleanLed
  <2>3. QED
    BY <2>1, <2>2, OwnTable
<1>29. CASE CleanPins(p)
  <2>1. IsTable(Closed(fdt[p], Range(h[p].pins)))
    BY <1>2
  <2>2. fdt' = [fdt EXCEPT ![p] = Closed(fdt[p], Range(h[p].pins))]
    BY <1>29 DEF CleanPins
  <2>3. QED
    BY <2>1, <2>2, OwnTable
<1>30. CASE CleanRflog(p)
  <2>1. \/ fdt' = [fdt EXCEPT ![p] = Closed(fdt[p], {})]
        \/ fdt' = [fdt EXCEPT ![p] = Closed(fdt[p], {h[p].rflog})]
    BY <1>30 DEF CleanRflog
  <2>2. QED
    BY <1>2, <2>1, OwnTable
<1>31. CASE CleanEpoll(p)
  <2>1. IsTable(Closed(fdt[p], {h[p].epoll}))
    BY <1>2
  <2>2. fdt' = [fdt EXCEPT ![p] = Closed(fdt[p], {h[p].epoll})]
    BY <1>31 DEF CleanEpoll
  <2>3. QED
    BY <2>1, <2>2, OwnTable
<1>32. CASE CleanSockets(p)
  <2>1. IsTable(Closed(fdt[p], {}))
    BY <1>2
  <2>2. fdt' = [fdt EXCEPT ![p] = Closed(fdt[p], {})]
    BY <1>32 DEF CleanSockets
  <2>3. QED
    BY <2>1, <2>2, OwnTable
<1>33. CASE CleanInstance(p)
  <2>1. IsTable(Closed(fdt[p], {h[p].instance}))
    BY <1>2
  <2>2. fdt' = [fdt EXCEPT ![p] = Closed(fdt[p], {h[p].instance})]
    BY <1>33 DEF CleanInstance
  <2>3. QED
    BY <2>1, <2>2, OwnTable
<1>34. CASE SocketClose(p)
  <2>1. IsTable(Closed(fdt[p], {h[p].socks[pc[p].k]}))
    BY <1>2
  <2>2. fdt' = [fdt EXCEPT ![p] = Closed(fdt[p], {h[p].socks[pc[p].k]})]
    BY <1>34 DEF SocketClose
  <2>3. QED
    BY <2>1, <2>2, OwnTable
<1>35. CASE RemoveNext(p)
  BY <1>35 DEF RemoveNext, TableInv
<1>36. CASE ReleaseInstance(p)
  <2>1. IsTable(Closed(fdt[p], {h[p].instance}))
    BY <1>2
  <2>2. fdt' = [fdt EXCEPT ![p] = Closed(fdt[p], {h[p].instance})]
    BY <1>36 DEF ReleaseInstance
  <2>3. QED
    BY <2>1, <2>2, OwnTable
<1>37. QED
  BY <1>5, <1>6, <1>7, <1>8, <1>9, <1>10, <1>11, <1>12, <1>13, <1>14, <1>15,
     <1>16, <1>17, <1>18, <1>19, <1>20, <1>21, <1>22, <1>23, <1>24, <1>25,
     <1>26, <1>27, <1>28, <1>29, <1>30, <1>31, <1>32, <1>33, <1>34, <1>35,
     <1>36 DEF Step

-----------------------------------------------------------------------------
(* Locks.                                                                  *)

\* u holds no lock that t does not hold, except at the number n.
Takes(t, u, n) ==
    \A m \in DOMAIN u \ {n} : u[m].locked => m \in DOMAIN t /\ u[m] = t[m]
NoMore(t, u) ==
    \A m \in DOMAIN u : u[m].locked => m \in DOMAIN t /\ u[m] = t[m]

\* A step that takes no lock keeps the locks exclusive.
LEMMA LocksKept ==
    ASSUME TableInv, LocksExclusive, NEW p \in Procs, NEW u,
           fdt' = [fdt EXCEPT ![p] = u], NoMore(fdt[p], u)
    PROVE  LocksExclusive'
  BY DEF TableInv, LocksExclusive, NoMore

\* flock() succeeds only where no description holds the lock.
LEMMA LockTaken ==
    ASSUME TableInv, LocksExclusive, NEW p \in Procs, NEW u, NEW n,
           NEW d \in Descs, ~HeldElsewhere(d),
           fdt' = [fdt EXCEPT ![p] = u], n \in DOMAIN u, u[n].file = d.file,
           Takes(fdt[p], u, n)
    PROVE  LocksExclusive'
<1>1. \A q \in Procs : \A m \in DOMAIN fdt[q] :
          fdt[q][m].locked => fdt[q][m].file # d.file
  <2> SUFFICES ASSUME NEW q \in Procs, NEW m \in DOMAIN fdt[q],
                      fdt[q][m].locked, fdt[q][m].file = d.file
               PROVE  FALSE
    OBVIOUS
  <2>1. fdt[q][m] \in Descs
    BY DEF TableInv, IsTable
  <2>2. fdt[q][m] = [d EXCEPT !.locked = TRUE]
    BY <2>1 DEF Descs
  <2>3. QED
    BY <2>2 DEF HeldElsewhere
<1>2. /\ \A q \in Procs \ {p} : fdt'[q] = fdt[q]
      /\ fdt'[p] = u
  BY DEF TableInv
<1>3. QED
  BY <1>1, <1>2 DEF LocksExclusive, Takes

\* Opening a file takes no lock.
LEMMA OpenTakesNone ==
    ASSUME NEW t, NEW kind, NEW name, NEW k, IsTable(t)
    PROVE  NoMore(t, Opened(t, Desc(kind, name, k)))
<1>1. Adds(t, Opened(t, Desc(kind, name, k)), Lowest(t), Desc(kind, name, k))
  BY OpenedAdds
<1>2. ~Desc(kind, name, k).locked
  BY DEF Desc
<1>3. QED
  BY <1>1, <1>2 DEF Adds, NoMore

\* The locks exclude each other, whatever a process does.
LEMMA LocksStep ==
    ASSUME LaunchesAssumption, ProcTypeOK, TableInv, LocksExclusive,
           HandleInv, NEW p \in Procs, Step(p)
    PROVE  LocksExclusive'
<1>1. IsTable(fdt[p]) /\ fdt = [q \in Procs |-> fdt[q]]
  BY DEF TableInv
<1>2. \A N : NoMore(fdt[p], Closed(fdt[p], N))
  BY DEF Closed, NoMore
<1>3. NoMore(fdt[p], <<>>) /\ NoMore(fdt[p], fdt[p])
  BY DEF NoMore
<1>4. \A k : NoMore(fdt[p], Opened(fdt[p], Other(k)))
  BY <1>1, OpenTakesNone, Zenon DEF Other
<1>5. \A t, u, v : NoMore(t, u) /\ NoMore(u, v) => NoMore(t, v)
  BY DEF NoMore
<1>6. CASE Ends(p)
  <2>1. NoMore(fdt[p], <<>>)
    BY <1>3
  <2>2. fdt' = [fdt EXCEPT ![p] = <<>>]
    BY <1>6 DEF Ends
  <2>3. QED
    BY <2>1, <2>2, LocksKept
<1>7. ASSUME NEW l \in Launches, Launch(p, l) PROVE LocksExclusive'
  <2> DEFINE u == [n \in 3..(2 + l.inherited) |-> Other("parent")]
  <2>1. NoMore(fdt[p], u)
    BY Zenon DEF NoMore, Other, Desc
  <2>2. fdt' = [fdt EXCEPT ![p] = u]
    BY <1>7 DEF Launch
  <2> HIDE DEF u
  <2>3. QED
    BY <2>1, <2>2, LocksKept
<1>8. CASE ParseArgs(p)
  <2>1. NoMore(fdt[p], Opened(fdt[p], RfLog(p)))
    BY <1>1, OpenTakesNone DEF RfLog
  <2>2. \/ fdt' = [fdt EXCEPT ![p] = Opened(fdt[p], RfLog(p))]
        \/ fdt' = [fdt EXCEPT ![p] = fdt[p]]
    BY <1>8 DEF ParseArgs, RflogStart
  <2>3. QED
    BY <1>3, <2>1, <2>2, LocksKept
<1>9. CASE EnterBackground(p)
  <2>1. \/ fdt' = [fdt EXCEPT ![p] = <<>>] \/ fdt' = [fdt EXCEPT ![p] = fdt[p]]
    BY <1>9 DEF EnterBackground
  <2>2. QED
    BY <1>3, <2>1, LocksKept
<1>10. CASE StampInstall(p)
  <2> DEFINE v == Opened(fdt[p], Other("stdout"))
  <2>1. IsTable(v) /\ NoMore(fdt[p], v)
    BY <1>1, <1>4, OpenTable, OtherIsDesc DEF Kinds
  <2>2. NoMore(v, Opened(v, Other("stderr")))
    BY <2>1, OpenTakesNone, Zenon DEF Other
  <2>3. fdt' = [fdt EXCEPT ![p] = Opened(v, Other("stderr"))]
    BY <1>10 DEF StampInstall
  <2> HIDE DEF v
  <2>4. QED
    BY <2>1, <2>2, <2>3, <1>5, LocksKept
<1>11. CASE InstanceLockAcquire(p)
  <2> DEFINE d == InstanceFile(p)
             u == WithLock(fdt[p], d)
  <2>1. d \in Descs /\ ~HeldElsewhere(d)
    BY <1>11, FileDescs DEF InstanceLockAcquire, At
  <2>2. fdt' = [fdt EXCEPT ![p] = u]
    BY <1>11 DEF InstanceLockAcquire
  <2>3. Adds(fdt[p], u, LockFd(fdt[p]), Locked(d))
    BY <1>1, LockAdds
  <2>4. Locked(d).file = d.file
    BY <2>1, Zenon DEF Locked, Descs
  <2> HIDE DEF d, u
  <2>5. /\ LockFd(fdt[p]) \in DOMAIN u /\ u[LockFd(fdt[p])].file = d.file
        /\ Takes(fdt[p], u, LockFd(fdt[p]))
    BY <2>3, <2>4 DEF Adds, Takes
  <2>6. QED
    BY <2>1, <2>2, <2>5, LockTaken
<1>12. CASE PinLock(p)
  <2> DEFINE d == PinFile(opt[p].pins[pc[p].k])
             u == WithLock(fdt[p], d)
  <2>1. d \in Descs /\ ~HeldElsewhere(d)
    BY <1>12, FileDescs DEF PinLock, At, ProcTypeOK
  <2>2. fdt' = [fdt EXCEPT ![p] = u]
    BY <1>12 DEF PinLock
  <2>3. Adds(fdt[p], u, LockFd(fdt[p]), Locked(d))
    BY <1>1, LockAdds
  <2>4. Locked(d).file = d.file
    BY <2>1, Zenon DEF Locked, Descs
  <2> HIDE DEF d, u
  <2>5. /\ LockFd(fdt[p]) \in DOMAIN u /\ u[LockFd(fdt[p])].file = d.file
        /\ Takes(fdt[p], u, LockFd(fdt[p]))
    BY <2>3, <2>4 DEF Adds, Takes
  <2>6. QED
    BY <2>1, <2>2, <2>5, LockTaken
<1>13. CASE LedInit(p)
  <2>1. NoMore(fdt[p], Opened(fdt[p], Other("gpiochip")))
    BY <1>4
  <2>2. fdt' = [fdt EXCEPT ![p] = Opened(fdt[p], Other("gpiochip"))]
    BY <1>13 DEF LedInit
  <2>3. QED
    BY <2>1, <2>2, LocksKept
<1>14. CASE NoPins(p)
  BY <1>14 DEF NoPins, LocksExclusive
<1>15. CASE PinsFail(p)
  <2>1. NoMore(fdt[p], Closed(fdt[p], Range(h[p].pins)))
    BY <1>2
  <2>2. fdt' = [fdt EXCEPT ![p] = Closed(fdt[p], Range(h[p].pins))]
    BY <1>15 DEF PinsFail
  <2>3. QED
    BY <2>1, <2>2, LocksKept
<1>16. CASE PreparePath(p)
  BY <1>16 DEF PreparePath, LocksExclusive
<1>17. CASE Bind(p)
  <2>1. NoMore(fdt[p], Opened(fdt[p], Socket(p, pc[p].k)))
    BY <1>1, OpenTakesNone DEF Socket
  <2>2. fdt' = [fdt EXCEPT ![p] = Opened(fdt[p], Socket(p, pc[p].k))]
    BY <1>17 DEF Bind
  <2>3. QED
    BY <2>1, <2>2, LocksKept
<1>18. CASE BindFails(p)
  <2>1. NoMore(fdt[p], Closed(fdt[p], {h[p].socks[j] : j \in {i \in Socks : i < pc[p].k}}))
    BY <1>2
  <2>2. fdt' = [fdt EXCEPT ![p] = Closed(fdt[p], {h[p].socks[j] : j \in {i \in Socks : i < pc[p].k}})]
    BY <1>18 DEF BindFails
  <2>3. QED
    BY <2>1, <2>2, LocksKept
<1>19. CASE UsbOpens(p)
  <2>1. NoMore(fdt[p], Opened(fdt[p], Other("usb")))
    BY <1>4
  <2>2. fdt' = [fdt EXCEPT ![p] = Opened(fdt[p], Other("usb"))]
    BY <1>19 DEF UsbOpens
  <2>3. QED
    BY <2>1, <2>2, LocksKept
<1>20. CASE PiOpens(p)
  <2> DEFINE u == With(fdt[p], LockFd(fdt[p]), SpiFile)
             v == Opened(u, Other("gpiochip"))
  <2>1. IsTable(u) /\ NoMore(fdt[p], u)
    <3>1. Adds(fdt[p], u, LockFd(fdt[p]), SpiFile)
      BY <1>1, LockAdds
    <3>2. IsTable(u)
      BY <1>1, <3>1, AddsTable, OtherIsDesc
    <3>3. ~SpiFile.locked
      BY DEF SpiFile, Desc
    <3>4. QED
      BY <3>1, <3>2, <3>3 DEF Adds, NoMore
  <2> HIDE DEF u
  <2>2. IsTable(v) /\ NoMore(u, v)
    BY <2>1, OpenTable, OpenTakesNone, OtherIsDesc, Zenon DEF Other, Kinds
  <2>3. fdt' = [fdt EXCEPT ![p] = Opened(v, Other("spidev"))]
    BY <1>20 DEF PiOpens, u
  <2> HIDE DEF v
  <2>4. NoMore(v, Opened(v, Other("spidev")))
    BY <2>2, OpenTakesNone, Zenon DEF Other
  <2>5. QED
    BY <2>1, <2>2, <2>3, <2>4, <1>5, LocksKept
<1>21. CASE RadioReady(p)
  BY <1>21 DEF RadioReady, LocksExclusive
<1>22. CASE RadioFails(p)
  BY <1>22 DEF RadioFails, LocksExclusive
<1>23. CASE SpiBegin(p)
  <2> DEFINE u == [fdt[p] EXCEPT ![h[p].spi].locked = TRUE]
  <2>1. h[p].spi \in DOMAIN fdt[p] /\ fdt[p][h[p].spi].file = SpiFile.file
    <3>1. h[p].spi # NoFd /\ Sound(p)
      BY <1>23 DEF SpiBegin, Touches, Sound, Late, At
    <3>2. Has(p, h[p].spi, [SpiFile EXCEPT !.locked = bus[p]])
      BY <3>1 DEF HandleInv, Contents
    <3>3. QED
      BY <3>2, Zenon DEF Has, SpiFile, Desc
  <2>2. fdt[p][h[p].spi] \in Descs
    BY <1>1, <2>1 DEF IsTable
  <2>3. /\ h[p].spi \in DOMAIN u /\ u[h[p].spi].file = SpiFile.file
        /\ Takes(fdt[p], u, h[p].spi)
    BY <2>1, <2>2, Zenon DEF Descs, Takes
  <2>4. SpiFile \in Descs /\ ~HeldElsewhere(SpiFile)
    BY <1>23, OtherIsDesc DEF SpiBegin
  <2>5. fdt' = [fdt EXCEPT ![p] = u]
    BY <1>23 DEF SpiBegin
  <2> HIDE DEF u
  <2>6. QED
    BY <2>3, <2>4, <2>5, LockTaken
<1>24. CASE SpiEnd(p)
  <2> DEFINE u == [fdt[p] EXCEPT ![h[p].spi].locked = FALSE]
  <2>1. NoMore(fdt[p], u)
    BY <1>1, Zenon DEF IsTable, Descs, NoMore
  <2>2. fdt' = [fdt EXCEPT ![p] = u]
    BY <1>24 DEF SpiEnd
  <2> HIDE DEF u
  <2>3. QED
    BY <2>1, <2>2, LocksKept
<1>25. CASE EpollInit(p)
  <2>1. NoMore(fdt[p], Opened(fdt[p], Other("epoll")))
    BY <1>4
  <2>2. fdt' = [fdt EXCEPT ![p] = Opened(fdt[p], Other("epoll"))]
    BY <1>25 DEF EpollInit
  <2>3. QED
    BY <2>1, <2>2, LocksKept
<1>26. CASE EpollFails(p)
  BY <1>26 DEF EpollFails, LocksExclusive
<1>27. CASE Stop(p)
  BY <1>27 DEF Stop, LocksExclusive
<1>28. CASE CleanRadio(p)
  <2>1. NoMore(fdt[p], Closed(fdt[p], {h[p].spi, h[p].usb}))
    BY <1>2
  <2>2. fdt' = [fdt EXCEPT ![p] = Closed(fdt[p], {h[p].spi, h[p].usb})]
    BY <1>28 DEF CleanRadio
  <2>3. QED
    BY <2>1, <2>2, LocksKept
<1>29. CASE CleanLed(p)
  <2>1. NoMore(fdt[p], Closed(fdt[p], {h[p].chip}))
    BY <1>2
  <2>2. fdt' = [fdt EXCEPT ![p] = Closed(fdt[p], {h[p].chip})]
    BY <1>29 DEF CleanLed
  <2>3. QED
    BY <2>1, <2>2, LocksKept
<1>30. CASE CleanPins(p)
  <2>1. NoMore(fdt[p], Closed(fdt[p], Range(h[p].pins)))
    BY <1>2
  <2>2. fdt' = [fdt EXCEPT ![p] = Closed(fdt[p], Range(h[p].pins))]
    BY <1>30 DEF CleanPins
  <2>3. QED
    BY <2>1, <2>2, LocksKept
<1>31. CASE CleanRflog(p)
  <2>1. \/ fdt' = [fdt EXCEPT ![p] = Closed(fdt[p], {})]
        \/ fdt' = [fdt EXCEPT ![p] = Closed(fdt[p], {h[p].rflog})]
    BY <1>31 DEF CleanRflog
  <2>2. QED
    BY <1>2, <2>1, LocksKept
<1>32. CASE CleanEpoll(p)
  <2>1. NoMore(fdt[p], Closed(fdt[p], {h[p].epoll}))
    BY <1>2
  <2>2. fdt' = [fdt EXCEPT ![p] = Closed(fdt[p], {h[p].epoll})]
    BY <1>32 DEF CleanEpoll
  <2>3. QED
    BY <2>1, <2>2, LocksKept
<1>33. CASE CleanSockets(p)
  <2>1. NoMore(fdt[p], Closed(fdt[p], {}))
    BY <1>2
  <2>2. fdt' = [fdt EXCEPT ![p] = Closed(fdt[p], {})]
    BY <1>33 DEF CleanSockets
  <2>3. QED
    BY <2>1, <2>2, LocksKept
<1>34. CASE CleanInstance(p)
  <2>1. NoMore(fdt[p], Closed(fdt[p], {h[p].instance}))
    BY <1>2
  <2>2. fdt' = [fdt EXCEPT ![p] = Closed(fdt[p], {h[p].instance})]
    BY <1>34 DEF CleanInstance
  <2>3. QED
    BY <2>1, <2>2, LocksKept
<1>35. CASE SocketClose(p)
  <2>1. NoMore(fdt[p], Closed(fdt[p], {h[p].socks[pc[p].k]}))
    BY <1>2
  <2>2. fdt' = [fdt EXCEPT ![p] = Closed(fdt[p], {h[p].socks[pc[p].k]})]
    BY <1>35 DEF SocketClose
  <2>3. QED
    BY <2>1, <2>2, LocksKept
<1>36. CASE RemoveNext(p)
  BY <1>36 DEF RemoveNext, LocksExclusive
<1>37. CASE ReleaseInstance(p)
  <2>1. NoMore(fdt[p], Closed(fdt[p], {h[p].instance}))
    BY <1>2
  <2>2. fdt' = [fdt EXCEPT ![p] = Closed(fdt[p], {h[p].instance})]
    BY <1>37 DEF ReleaseInstance
  <2>3. QED
    BY <2>1, <2>2, LocksKept
<1>38. QED
  BY <1>6, <1>7, <1>8, <1>9, <1>10, <1>11, <1>12, <1>13, <1>14, <1>15, <1>16,
     <1>17, <1>18, <1>19, <1>20, <1>21, <1>22, <1>23, <1>24, <1>25, <1>26,
     <1>27, <1>28, <1>29, <1>30, <1>31, <1>32, <1>33, <1>34, <1>35, <1>36,
     <1>37 DEF Step

-----------------------------------------------------------------------------
(* What a process owns at which step.                                      *)

\* A step changes nothing of another process.
Own(q) == <<pc[q], opt[q], fdt[q], h[q], path[q], drives[q], bus[q]>>

\* A step of one process is no step of another.
LEMMA OthersKept ==
    ASSUME ProcTypeOK, TableInv, NEW p \in Procs, Step(p),
           NEW q \in Procs, q # p
    PROVE  UNCHANGED Own(q)
<1> USE DEF ProcTypeOK, TableInv, Own
<1>1. CASE Ends(p)
  BY <1>1 DEF Ends, At, Goto
<1>2. ASSUME NEW l \in Launches, Launch(p, l) PROVE UNCHANGED Own(q)
  BY <1>2 DEF Launch, At, Goto
<1>3. CASE ParseArgs(p)
  BY <1>3 DEF ParseArgs, RflogStart, At, Goto
<1>4. CASE EnterBackground(p)
  BY <1>4 DEF EnterBackground, At, Goto
<1>5. CASE StampInstall(p)
  BY <1>5 DEF StampInstall, At, Goto
<1>6. CASE InstanceLockAcquire(p)
  BY <1>6 DEF InstanceLockAcquire, At, Goto
<1>7. CASE PinLock(p)
  BY <1>7 DEF PinLock, At, Goto
<1>8. CASE LedInit(p)
  BY <1>8 DEF LedInit, PinsDone, At, Goto
<1>9. CASE NoPins(p)
  BY <1>9 DEF NoPins, PinsDone, At, Goto
<1>10. CASE PinsFail(p)
  BY <1>10 DEF PinsFail, At, Goto
<1>11. CASE PreparePath(p)
  BY <1>11 DEF PreparePath, At, Goto
<1>12. CASE Bind(p)
  BY <1>12 DEF Bind, At, Goto
<1>13. CASE BindFails(p)
  BY <1>13 DEF BindFails, Cleanup, At, Goto
<1>14. CASE UsbOpens(p)
  BY <1>14 DEF UsbOpens, At, Goto
<1>15. CASE PiOpens(p)
  BY <1>15 DEF PiOpens, At, Goto
<1>16. CASE RadioReady(p)
  BY <1>16 DEF RadioReady, At, Goto
<1>17. CASE RadioFails(p)
  BY <1>17 DEF RadioFails, Cleanup, At, Goto
<1>18. CASE SpiBegin(p)
  BY <1>18 DEF SpiBegin, Touches, At, Goto
<1>19. CASE SpiEnd(p)
  BY <1>19 DEF SpiEnd, At, Goto
<1>20. CASE EpollInit(p)
  BY <1>20 DEF EpollInit, At, Goto
<1>21. CASE EpollFails(p)
  BY <1>21 DEF EpollFails, Cleanup, At, Goto
<1>22. CASE Stop(p)
  BY <1>22 DEF Stop, Cleanup, At, Goto
<1>23. CASE CleanRadio(p)
  BY <1>23 DEF CleanRadio, At, Goto
<1>24. CASE CleanLed(p)
  BY <1>24 DEF CleanLed, At, Goto
<1>25. CASE CleanPins(p)
  BY <1>25 DEF CleanPins, At, Goto
<1>26. CASE CleanRflog(p)
  BY <1>26 DEF CleanRflog, At, Goto
<1>27. CASE CleanEpoll(p)
  BY <1>27 DEF CleanEpoll, At, Goto
<1>28. CASE CleanSockets(p)
  BY <1>28 DEF CleanSockets, At, Goto
<1>29. CASE CleanInstance(p)
  BY <1>29 DEF CleanInstance, At, Goto
<1>30. CASE SocketClose(p)
  BY <1>30 DEF SocketClose, At, Goto
<1>31. CASE RemoveNext(p)
  BY <1>31 DEF RemoveNext, At, Goto
<1>32. CASE ReleaseInstance(p)
  BY <1>32 DEF ReleaseInstance, At, Goto
<1>33. QED
  BY <1>1, <1>2, <1>3, <1>4, <1>5, <1>6, <1>7, <1>8, <1>9, <1>10, <1>11, <1>12,
     <1>13, <1>14, <1>15, <1>16, <1>17, <1>18, <1>19, <1>20, <1>21, <1>22,
     <1>23, <1>24, <1>25, <1>26, <1>27, <1>28, <1>29, <1>30, <1>31, <1>32 DEF
     Step

\* What holds of a process holds as long as nothing of it changes.
LEMMA OthersOwn ==
    ASSUME NEW q \in Procs, UNCHANGED Own(q)
    PROVE  /\ Owned(q) => Owned(q)'
           /\ Contents(q) => Contents(q)'
           /\ Sound(q)' = Sound(q)
<1> USE DEF Own, At
<1>1. Owned(q) => Owned(q)'
  BY DEF Owned, RadioOwned, PinsOwned, SocksOwned, InstanceOwned, SocksClosed
<1>2. Contents(q) => Contents(q)'
  BY DEF Contents, Has, InstanceFile, Socket, RfLog
<1>3. Sound(q)' = Sound(q)
  BY DEF Sound, Late
<1>4. QED
  BY <1>1, <1>2, <1>3

\* The radio's handles: none before the HAL, a transaction only with the bus
\* lock's file and only where the driver may be.
LEMMA RadioOwnedStep ==
    ASSUME LaunchesAssumption, ProcTypeOK, TableInv, NEW p \in Procs,
           Owned(p), Step(p)
    PROVE  RadioOwned(p)'
<1>1. /\ pc \in [Procs -> [at : StepNames, k : Nat]]
      /\ h \in [Procs -> HandleType] /\ NoFd = 0
      /\ opt = [q \in Procs |-> opt[q]]
      /\ drives = [q \in Procs |-> drives[q]] /\ bus \in [Procs -> BOOLEAN]
  BY DEF ProcTypeOK, NoFd
<1>2. Lowest(fdt[p]) # NoFd /\ LockFd(fdt[p]) # NoFd
  BY <1>1, LowestFree, LockFdFree DEF TableInv, IsTable
<1>3. ~At(p, "off") /\ ~opt[p].usb => opt[p].pins # <<>>
  BY DEF ProcTypeOK, LaunchesAssumption
<1> USE <1>1 DEF RadioOwned, HandleType, Early, Serving
<1>4. CASE Ends(p)
  BY <1>4, <1>2, <1>3 DEF Ends, At, Goto, Owned, NoHandles
<1>5. ASSUME NEW l \in Launches, Launch(p, l) PROVE RadioOwned(p)'
  BY <1>5, <1>2, <1>3 DEF Launch, At, Goto, Owned
<1>6. CASE ParseArgs(p)
  BY <1>6, <1>2, <1>3 DEF ParseArgs, RflogStart, At, Goto, Owned
<1>7. CASE EnterBackground(p)
  BY <1>7, <1>2, <1>3 DEF EnterBackground, At, Goto, Owned
<1>8. CASE StampInstall(p)
  BY <1>8, <1>2, <1>3 DEF StampInstall, At, Goto, Owned
<1>9. CASE InstanceLockAcquire(p)
  BY <1>9, <1>2, <1>3 DEF InstanceLockAcquire, At, Goto, Owned
<1>10. CASE PinLock(p)
  BY <1>10, <1>2, <1>3 DEF PinLock, At, Goto, Owned
<1>11. CASE LedInit(p)
  BY <1>11, <1>2, <1>3 DEF LedInit, PinsDone, At, Goto, Owned
<1>12. CASE NoPins(p)
  BY <1>12, <1>2, <1>3 DEF NoPins, PinsDone, At, Goto, Owned
<1>13. CASE PinsFail(p)
  BY <1>13, <1>2, <1>3 DEF PinsFail, At, Goto, Owned
<1>14. CASE PreparePath(p)
  BY <1>14, <1>2, <1>3 DEF PreparePath, At, Goto, Owned
<1>15. CASE Bind(p)
  BY <1>15, <1>2, <1>3 DEF Bind, At, Goto, Owned
<1>16. CASE BindFails(p)
  BY <1>16, <1>2, <1>3 DEF BindFails, Cleanup, At, Goto, Owned
<1>17. CASE UsbOpens(p)
  BY <1>17, <1>2, <1>3 DEF UsbOpens, At, Goto, Owned
<1>18. CASE PiOpens(p)
  BY <1>18, <1>2, <1>3 DEF PiOpens, At, Goto, Owned
<1>19. CASE RadioReady(p)
  BY <1>19, <1>2, <1>3 DEF RadioReady, At, Goto, Owned
<1>20. CASE RadioFails(p)
  BY <1>20, <1>2, <1>3 DEF RadioFails, Cleanup, At, Goto, Owned
<1>21. CASE SpiBegin(p)
  BY <1>21, <1>2, <1>3 DEF SpiBegin, Touches, At, Goto, Owned
<1>22. CASE SpiEnd(p)
  BY <1>22, <1>2, <1>3 DEF SpiEnd, At, Goto, Owned
<1>23. CASE EpollInit(p)
  BY <1>23, <1>2, <1>3 DEF EpollInit, At, Goto, Owned
<1>24. CASE EpollFails(p)
  BY <1>24, <1>2, <1>3 DEF EpollFails, Cleanup, At, Goto, Owned
<1>25. CASE Stop(p)
  BY <1>25, <1>2, <1>3 DEF Stop, Cleanup, At, Goto, Owned
<1>26. CASE CleanRadio(p)
  BY <1>26, <1>2, <1>3 DEF CleanRadio, At, Goto, Owned
<1>27. CASE CleanLed(p)
  BY <1>27, <1>2, <1>3 DEF CleanLed, At, Goto, Owned
<1>28. CASE CleanPins(p)
  BY <1>28, <1>2, <1>3 DEF CleanPins, At, Goto, Owned
<1>29. CASE CleanRflog(p)
  BY <1>29, <1>2, <1>3 DEF CleanRflog, At, Goto, Owned
<1>30. CASE CleanEpoll(p)
  BY <1>30, <1>2, <1>3 DEF CleanEpoll, At, Goto, Owned
<1>31. CASE CleanSockets(p)
  BY <1>31, <1>2, <1>3 DEF CleanSockets, At, Goto, Owned
<1>32. CASE CleanInstance(p)
  BY <1>32, <1>2, <1>3 DEF CleanInstance, At, Goto, Owned
<1>33. CASE SocketClose(p)
  BY <1>33, <1>2, <1>3 DEF SocketClose, At, Goto, Owned
<1>34. CASE RemoveNext(p)
  BY <1>34, <1>2, <1>3 DEF RemoveNext, At, Goto, Owned
<1>35. CASE ReleaseInstance(p)
  BY <1>35, <1>2, <1>3 DEF ReleaseInstance, At, Goto, Owned
<1>36. QED
  BY <1>4, <1>5, <1>6, <1>7, <1>8, <1>9, <1>10, <1>11, <1>12, <1>13, <1>14,
     <1>15, <1>16, <1>17, <1>18, <1>19, <1>20, <1>21, <1>22, <1>23, <1>24,
     <1>25, <1>26, <1>27, <1>28, <1>29, <1>30, <1>31, <1>32, <1>33, <1>34,
     <1>35 DEF Step

\* The instance lock: from its acquisition to the last step of every way out.
LEMMA InstanceOwnedStep ==
    ASSUME LaunchesAssumption, ProcTypeOK, TableInv, NEW p \in Procs,
           Owned(p), Step(p)
    PROVE  InstanceOwned(p)'
<1>1. /\ pc \in [Procs -> [at : StepNames, k : Nat]]
      /\ h \in [Procs -> HandleType] /\ NoFd = 0
      /\ opt = [q \in Procs |-> opt[q]]
      /\ drives = [q \in Procs |-> drives[q]] /\ bus \in [Procs -> BOOLEAN]
  BY DEF ProcTypeOK, NoFd
<1>2. Lowest(fdt[p]) # NoFd /\ LockFd(fdt[p]) # NoFd
  BY <1>1, LowestFree, LockFdFree DEF TableInv, IsTable
<1>3. TRUE
  OBVIOUS
<1> USE <1>1 DEF InstanceOwned, HandleType, Early, Serving
<1>4. CASE Ends(p)
  BY <1>4, <1>2, <1>3 DEF Ends, At, Goto, Owned, NoHandles
<1>5. ASSUME NEW l \in Launches, Launch(p, l) PROVE InstanceOwned(p)'
  BY <1>5, <1>2, <1>3 DEF Launch, At, Goto, Owned
<1>6. CASE ParseArgs(p)
  BY <1>6, <1>2, <1>3 DEF ParseArgs, RflogStart, At, Goto, Owned
<1>7. CASE EnterBackground(p)
  BY <1>7, <1>2, <1>3 DEF EnterBackground, At, Goto, Owned
<1>8. CASE StampInstall(p)
  BY <1>8, <1>2, <1>3 DEF StampInstall, At, Goto, Owned
<1>9. CASE InstanceLockAcquire(p)
  BY <1>9, <1>2, <1>3 DEF InstanceLockAcquire, At, Goto, Owned
<1>10. CASE PinLock(p)
  BY <1>10, <1>2, <1>3 DEF PinLock, At, Goto, Owned
<1>11. CASE LedInit(p)
  BY <1>11, <1>2, <1>3 DEF LedInit, PinsDone, At, Goto, Owned
<1>12. CASE NoPins(p)
  BY <1>12, <1>2, <1>3 DEF NoPins, PinsDone, At, Goto, Owned
<1>13. CASE PinsFail(p)
  BY <1>13, <1>2, <1>3 DEF PinsFail, At, Goto, Owned
<1>14. CASE PreparePath(p)
  BY <1>14, <1>2, <1>3 DEF PreparePath, At, Goto, Owned
<1>15. CASE Bind(p)
  BY <1>15, <1>2, <1>3 DEF Bind, At, Goto, Owned
<1>16. CASE BindFails(p)
  BY <1>16, <1>2, <1>3 DEF BindFails, Cleanup, At, Goto, Owned
<1>17. CASE UsbOpens(p)
  BY <1>17, <1>2, <1>3 DEF UsbOpens, At, Goto, Owned
<1>18. CASE PiOpens(p)
  BY <1>18, <1>2, <1>3 DEF PiOpens, At, Goto, Owned
<1>19. CASE RadioReady(p)
  BY <1>19, <1>2, <1>3 DEF RadioReady, At, Goto, Owned
<1>20. CASE RadioFails(p)
  BY <1>20, <1>2, <1>3 DEF RadioFails, Cleanup, At, Goto, Owned
<1>21. CASE SpiBegin(p)
  BY <1>21, <1>2, <1>3 DEF SpiBegin, Touches, At, Goto, Owned
<1>22. CASE SpiEnd(p)
  BY <1>22, <1>2, <1>3 DEF SpiEnd, At, Goto, Owned
<1>23. CASE EpollInit(p)
  BY <1>23, <1>2, <1>3 DEF EpollInit, At, Goto, Owned
<1>24. CASE EpollFails(p)
  BY <1>24, <1>2, <1>3 DEF EpollFails, Cleanup, At, Goto, Owned
<1>25. CASE Stop(p)
  BY <1>25, <1>2, <1>3 DEF Stop, Cleanup, At, Goto, Owned
<1>26. CASE CleanRadio(p)
  BY <1>26, <1>2, <1>3 DEF CleanRadio, At, Goto, Owned
<1>27. CASE CleanLed(p)
  BY <1>27, <1>2, <1>3 DEF CleanLed, At, Goto, Owned
<1>28. CASE CleanPins(p)
  BY <1>28, <1>2, <1>3 DEF CleanPins, At, Goto, Owned
<1>29. CASE CleanRflog(p)
  BY <1>29, <1>2, <1>3 DEF CleanRflog, At, Goto, Owned
<1>30. CASE CleanEpoll(p)
  BY <1>30, <1>2, <1>3 DEF CleanEpoll, At, Goto, Owned
<1>31. CASE CleanSockets(p)
  BY <1>31, <1>2, <1>3 DEF CleanSockets, At, Goto, Owned
<1>32. CASE CleanInstance(p)
  BY <1>32, <1>2, <1>3 DEF CleanInstance, At, Goto, Owned
<1>33. CASE SocketClose(p)
  BY <1>33, <1>2, <1>3 DEF SocketClose, At, Goto, Owned
<1>34. CASE RemoveNext(p)
  BY <1>34, <1>2, <1>3 DEF RemoveNext, At, Goto, Owned
<1>35. CASE ReleaseInstance(p)
  BY <1>35, <1>2, <1>3 DEF ReleaseInstance, At, Goto, Owned
<1>36. QED
  BY <1>4, <1>5, <1>6, <1>7, <1>8, <1>9, <1>10, <1>11, <1>12, <1>13, <1>14,
     <1>15, <1>16, <1>17, <1>18, <1>19, <1>20, <1>21, <1>22, <1>23, <1>24,
     <1>25, <1>26, <1>27, <1>28, <1>29, <1>30, <1>31, <1>32, <1>33, <1>34,
     <1>35 DEF Step

\* The listeners: bound in order, closed in order.
LEMMA SocksOwnedStep ==
    ASSUME LaunchesAssumption, ProcTypeOK, TableInv, NEW p \in Procs,
           Owned(p), Step(p)
    PROVE  SocksOwned(p)'
<1>1. /\ pc \in [Procs -> [at : StepNames, k : Nat]]
      /\ h \in [Procs -> HandleType] /\ NoFd = 0
      /\ opt = [q \in Procs |-> opt[q]]
      /\ drives = [q \in Procs |-> drives[q]] /\ bus \in [Procs -> BOOLEAN]
  BY DEF ProcTypeOK, NoFd
<1>2. Lowest(fdt[p]) # NoFd /\ LockFd(fdt[p]) # NoFd
  BY <1>1, LowestFree, LockFdFree DEF TableInv, IsTable
<1>3. pc[p].at \in {"unlink", "bind", "close", "remove"} => pc[p].k \in Socks
  BY DEF ProcTypeOK
<1> USE <1>1 DEF SocksOwned, HandleType, Early, Serving
<1>4. CASE Ends(p)
  BY <1>4, <1>2, <1>3 DEF Ends, At, Goto, Owned, SocksClosed, Socks, NoHandles
<1>5. ASSUME NEW l \in Launches, Launch(p, l) PROVE SocksOwned(p)'
  BY <1>5, <1>2, <1>3 DEF Launch, At, Goto, Owned, SocksClosed, Socks
<1>6. CASE ParseArgs(p)
  BY <1>6, <1>2, <1>3 DEF ParseArgs, RflogStart, At, Goto, Owned, SocksClosed,
     Socks
<1>7. CASE EnterBackground(p)
  BY <1>7, <1>2, <1>3 DEF EnterBackground, At, Goto, Owned, SocksClosed, Socks
<1>8. CASE StampInstall(p)
  BY <1>8, <1>2, <1>3 DEF StampInstall, At, Goto, Owned, SocksClosed, Socks
<1>9. CASE InstanceLockAcquire(p)
  BY <1>9, <1>2, <1>3 DEF InstanceLockAcquire, At, Goto, Owned, SocksClosed,
     Socks
<1>10. CASE PinLock(p)
  BY <1>10, <1>2, <1>3 DEF PinLock, At, Goto, Owned, SocksClosed, Socks
<1>11. CASE LedInit(p)
  BY <1>11, <1>2, <1>3 DEF LedInit, PinsDone, At, Goto, Owned, SocksClosed,
     Socks
<1>12. CASE NoPins(p)
  BY <1>12, <1>2, <1>3 DEF NoPins, PinsDone, At, Goto, Owned, SocksClosed,
     Socks
<1>13. CASE PinsFail(p)
  BY <1>13, <1>2, <1>3 DEF PinsFail, At, Goto, Owned, SocksClosed, Socks
<1>14. CASE PreparePath(p)
  BY <1>14, <1>2, <1>3 DEF PreparePath, At, Goto, Owned, SocksClosed, Socks
<1>15. CASE Bind(p)
  BY <1>15, <1>2, <1>3 DEF Bind, At, Goto, Owned, SocksClosed, Socks
<1>16. CASE BindFails(p)
  BY <1>16, <1>2, <1>3 DEF BindFails, Cleanup, At, Goto, Owned, SocksClosed,
     Socks
<1>17. CASE UsbOpens(p)
  BY <1>17, <1>2, <1>3 DEF UsbOpens, At, Goto, Owned, SocksClosed, Socks
<1>18. CASE PiOpens(p)
  BY <1>18, <1>2, <1>3 DEF PiOpens, At, Goto, Owned, SocksClosed, Socks
<1>19. CASE RadioReady(p)
  BY <1>19, <1>2, <1>3 DEF RadioReady, At, Goto, Owned, SocksClosed, Socks
<1>20. CASE RadioFails(p)
  BY <1>20, <1>2, <1>3 DEF RadioFails, Cleanup, At, Goto, Owned, SocksClosed,
     Socks
<1>21. CASE SpiBegin(p)
  BY <1>21, <1>2, <1>3 DEF SpiBegin, Touches, At, Goto, Owned, SocksClosed,
     Socks
<1>22. CASE SpiEnd(p)
  BY <1>22, <1>2, <1>3 DEF SpiEnd, At, Goto, Owned, SocksClosed, Socks
<1>23. CASE EpollInit(p)
  BY <1>23, <1>2, <1>3 DEF EpollInit, At, Goto, Owned, SocksClosed, Socks
<1>24. CASE EpollFails(p)
  BY <1>24, <1>2, <1>3 DEF EpollFails, Cleanup, At, Goto, Owned, SocksClosed,
     Socks
<1>25. CASE Stop(p)
  BY <1>25, <1>2, <1>3 DEF Stop, Cleanup, At, Goto, Owned, SocksClosed, Socks
<1>26. CASE CleanRadio(p)
  BY <1>26, <1>2, <1>3 DEF CleanRadio, At, Goto, Owned, SocksClosed, Socks
<1>27. CASE CleanLed(p)
  BY <1>27, <1>2, <1>3 DEF CleanLed, At, Goto, Owned, SocksClosed, Socks
<1>28. CASE CleanPins(p)
  BY <1>28, <1>2, <1>3 DEF CleanPins, At, Goto, Owned, SocksClosed, Socks
<1>29. CASE CleanRflog(p)
  BY <1>29, <1>2, <1>3 DEF CleanRflog, At, Goto, Owned, SocksClosed, Socks
<1>30. CASE CleanEpoll(p)
  BY <1>30, <1>2, <1>3 DEF CleanEpoll, At, Goto, Owned, SocksClosed, Socks
<1>31. CASE CleanSockets(p)
  BY <1>31, <1>2, <1>3 DEF CleanSockets, At, Goto, Owned, SocksClosed, Socks
<1>32. CASE CleanInstance(p)
  BY <1>32, <1>2, <1>3 DEF CleanInstance, At, Goto, Owned, SocksClosed, Socks
<1>33. CASE SocketClose(p)
  BY <1>33, <1>2, <1>3 DEF SocketClose, At, Goto, Owned, SocksClosed, Socks
<1>34. CASE RemoveNext(p)
  <2>1. /\ pc[p].k \in 1..3
        /\ \A j \in Socks : j <= pc[p].k => h[p].socks[j] = NoFd
    BY <1>34, <1>3 DEF RemoveNext, At, Owned, Socks
  <2>2. h' = h
    BY <1>34 DEF RemoveNext
  <2>3. CASE pc[p].k < 3
    <3>1. pc'[p] = [at |-> "close", k |-> pc[p].k + 1]
      BY <1>34, <2>1, <2>3 DEF RemoveNext, Goto
    <3>2. \A j \in Socks : j < pc[p].k + 1 => h'[p].socks[j] = NoFd
      BY <2>1, <2>2 DEF Socks
    <3>3. QED
      BY <3>1, <3>2 DEF At
  <2>4. CASE pc[p].k = 3
    <3>1. pc'[p] = [at |-> "cleanup", k |-> 7]
      BY <1>34, <2>4 DEF RemoveNext, Goto
    <3>2. \A j \in Socks : h'[p].socks[j] = NoFd
      BY <2>1, <2>2, <2>4 DEF Socks
    <3>3. QED
      BY <3>1, <3>2 DEF At, SocksClosed
  <2>5. QED
    BY <2>1, <2>3, <2>4
<1>35. CASE ReleaseInstance(p)
  BY <1>35, <1>2, <1>3 DEF ReleaseInstance, At, Goto, Owned, SocksClosed, Socks
<1>36. QED
  BY <1>4, <1>5, <1>6, <1>7, <1>8, <1>9, <1>10, <1>11, <1>12, <1>13, <1>14,
     <1>15, <1>16, <1>17, <1>18, <1>19, <1>20, <1>21, <1>22, <1>23, <1>24,
     <1>25, <1>26, <1>27, <1>28, <1>29, <1>30, <1>31, <1>32, <1>33, <1>34,
     <1>35 DEF Step

\* The pins: all locked before a line is driven, released after the last one.
LEMMA PinsOwnedStep ==
    ASSUME LaunchesAssumption, ProcTypeOK, TableInv, NEW p \in Procs,
           Owned(p), Step(p)
    PROVE  PinsOwned(p)'
<1>1. /\ pc \in [Procs -> [at : StepNames, k : Nat]]
      /\ h \in [Procs -> HandleType] /\ NoFd = 0
      /\ opt = [q \in Procs |-> opt[q]]
      /\ drives = [q \in Procs |-> drives[q]] /\ bus \in [Procs -> BOOLEAN]
  BY DEF ProcTypeOK, NoFd
<1>2. Lowest(fdt[p]) # NoFd /\ LockFd(fdt[p]) # NoFd
  BY <1>1, LowestFree, LockFdFree DEF TableInv, IsTable
<1>3. /\ At(p, "cleanup") => pc[p].k \in 1..7
      /\ h[p].chip # NoFd => opt[p].pins # <<>>
      /\ ~At(p, "off") /\ ~opt[p].usb => opt[p].pins # <<>>
      /\ ~At(p, "off") => opt[p].pins \in Seq(Nat)
  BY DEF ProcTypeOK, LaunchesAssumption, Owned, RadioOwned
<1>4. ASSUME opt[p].pins \in Seq(Nat)
      PROVE  /\ opt[p].pins # <<>> =>
                   \E i \in 1..Len(opt[p].pins) : Last(opt[p].pins) = opt[p].pins[i]
             /\ \A x \in Range(opt[p].pins) :
                   \E i \in 1..Len(opt[p].pins) : x = opt[p].pins[i]
  BY <1>4 DEF Last, Range
<1> USE <1>1 DEF PinsOwned, HandleType, Early, Serving
<1>5. CASE Ends(p)
  BY <1>5, <1>2, <1>3 DEF Ends, At, Goto, Owned, NoHandles
<1>6. ASSUME NEW l \in Launches, Launch(p, l) PROVE PinsOwned(p)'
  BY <1>6, <1>2, <1>3 DEF Launch, At, Goto, Owned
<1>7. CASE ParseArgs(p)
  BY <1>7, <1>2, <1>3 DEF ParseArgs, RflogStart, At, Goto, Owned
<1>8. CASE EnterBackground(p)
  BY <1>8, <1>2, <1>3 DEF EnterBackground, At, Goto, Owned
<1>9. CASE StampInstall(p)
  BY <1>9, <1>2, <1>3 DEF StampInstall, At, Goto, Owned
<1>10. CASE InstanceLockAcquire(p)
  BY <1>10, <1>2, <1>3 DEF InstanceLockAcquire, At, Goto, Owned
<1>11. CASE PinLock(p)
  BY <1>11, <1>2, <1>3 DEF PinLock, At, Goto, Owned
<1>12. CASE LedInit(p)
  <2>1. opt[p].pins \in Seq(Nat) /\ opt[p].pins # <<>>
    BY <1>12, <1>3 DEF LedInit, PinsDone, At
  <2>2. \E i \in 1..Len(opt[p].pins) : Last(opt[p].pins) = opt[p].pins[i]
    BY <1>4, <2>1
  <2>3. /\ pc'[p] = [at |-> "unlink", k |-> 1] /\ opt' = opt
        /\ h'[p].pins = h[p].pins /\ drives'[p] = {Last(opt[p].pins)}
    BY <1>12 DEF LedInit, Goto
  <2>4. Len(h[p].pins) = Len(opt[p].pins)
    BY <1>12, <2>1 DEF LedInit, PinsDone, At, Owned
  <2> HIDE DEF HandleType
  <2>5. QED
    BY <2>2, <2>3, <2>4 DEF At
<1>13. CASE NoPins(p)
  BY <1>13, <1>2, <1>3 DEF NoPins, PinsDone, At, Goto, Owned
<1>14. CASE PinsFail(p)
  BY <1>14, <1>2, <1>3 DEF PinsFail, At, Goto, Owned
<1>15. CASE PreparePath(p)
  BY <1>15, <1>2, <1>3 DEF PreparePath, At, Goto, Owned
<1>16. CASE Bind(p)
  BY <1>16, <1>2, <1>3 DEF Bind, At, Goto, Owned
<1>17. CASE BindFails(p)
  BY <1>17, <1>2, <1>3 DEF BindFails, Cleanup, At, Goto, Owned
<1>18. CASE UsbOpens(p)
  BY <1>18, <1>2, <1>3 DEF UsbOpens, At, Goto, Owned
<1>19. CASE PiOpens(p)
  BY <1>19, <1>4, <1>2, <1>3 DEF PiOpens, At, Goto, Owned
<1>20. CASE RadioReady(p)
  BY <1>20, <1>2, <1>3 DEF RadioReady, At, Goto, Owned
<1>21. CASE RadioFails(p)
  BY <1>21, <1>2, <1>3 DEF RadioFails, Cleanup, At, Goto, Owned
<1>22. CASE SpiBegin(p)
  BY <1>22, <1>2, <1>3 DEF SpiBegin, Touches, At, Goto, Owned
<1>23. CASE SpiEnd(p)
  BY <1>23, <1>2, <1>3 DEF SpiEnd, At, Goto, Owned
<1>24. CASE EpollInit(p)
  BY <1>24, <1>2, <1>3 DEF EpollInit, At, Goto, Owned
<1>25. CASE EpollFails(p)
  BY <1>25, <1>2, <1>3 DEF EpollFails, Cleanup, At, Goto, Owned
<1>26. CASE Stop(p)
  BY <1>26, <1>2, <1>3 DEF Stop, Cleanup, At, Goto, Owned
<1>27. CASE CleanRadio(p)
  <2>1. opt[p].pins \in Seq(Nat)
    BY <1>27, <1>3 DEF CleanRadio, At
  <2>2. /\ pc'[p] = [at |-> "cleanup", k |-> 2] /\ opt' = opt
        /\ h'[p].pins = h[p].pins
        /\ drives'[p] = IF h[p].chip = NoFd THEN {} ELSE {Last(opt[p].pins)}
    BY <1>27 DEF CleanRadio, Goto
  <2>3. \A x \in drives'[p] : \E i \in 1..Len(opt[p].pins) : x = opt[p].pins[i]
    BY <1>3, <1>4, <2>1, <2>2
  <2>4. Len(h[p].pins) = Len(opt[p].pins)
    BY <1>27 DEF CleanRadio, At, Owned
  <2> HIDE DEF HandleType
  <2>5. QED
    BY <2>2, <2>3, <2>4 DEF At
<1>28. CASE CleanLed(p)
  BY <1>28, <1>2, <1>3 DEF CleanLed, At, Goto, Owned
<1>29. CASE CleanPins(p)
  BY <1>29, <1>2, <1>3 DEF CleanPins, At, Goto, Owned
<1>30. CASE CleanRflog(p)
  BY <1>30, <1>2, <1>3 DEF CleanRflog, At, Goto, Owned
<1>31. CASE CleanEpoll(p)
  BY <1>31, <1>2, <1>3 DEF CleanEpoll, At, Goto, Owned
<1>32. CASE CleanSockets(p)
  BY <1>32, <1>2, <1>3 DEF CleanSockets, At, Goto, Owned
<1>33. CASE CleanInstance(p)
  BY <1>33, <1>2, <1>3 DEF CleanInstance, At, Goto, Owned
<1>34. CASE SocketClose(p)
  BY <1>34, <1>2, <1>3 DEF SocketClose, At, Goto, Owned
<1>35. CASE RemoveNext(p)
  <2>1. h[p].pins = <<>> /\ drives[p] = {}
    BY <1>35 DEF RemoveNext, At, Owned
  <2>2. pc'[p] = [at |-> "cleanup", k |-> 7] \/ pc'[p].at = "close"
    BY <1>35 DEF RemoveNext, Goto
  <2>3. QED
    BY <1>35, <2>1, <2>2 DEF RemoveNext, At
<1>36. CASE ReleaseInstance(p)
  BY <1>36, <1>2, <1>3 DEF ReleaseInstance, At, Goto, Owned
<1>37. QED
  BY <1>5, <1>6, <1>7, <1>8, <1>9, <1>10, <1>11, <1>12, <1>13, <1>14, <1>15,
     <1>16, <1>17, <1>18, <1>19, <1>20, <1>21, <1>22, <1>23, <1>24, <1>25,
     <1>26, <1>27, <1>28, <1>29, <1>30, <1>31, <1>32, <1>33, <1>34, <1>35,
     <1>36 DEF Step

-----------------------------------------------------------------------------
(* What is behind the numbers a process remembers.                         *)

\* The kind of file behind a number of p's, and that the number stays open.
KindOf(p, n) == fdt[p][n].file[1]
Kept(p, n) ==
    n \in DOMAIN fdt[p] => n \in DOMAIN fdt'[p] /\ fdt'[p][n] = fdt[p][n]

\* A process knows no descriptor before it opens one.
LEMMA NothingKnown ==
    ASSUME NEW p \in Procs, pc[p].at \in {"off", "args"}, Owned(p)
    PROVE  /\ h[p].instance = NoFd /\ h[p].pins = <<>> /\ h[p].chip = NoFd
           /\ \A k \in Socks : h[p].socks[k] = NoFd
           /\ h[p].spi = NoFd /\ h[p].usb = NoFd /\ h[p].epoll = NoFd
           /\ h[p].rflog = NoFd
  BY DEF Owned, RadioOwned, PinsOwned, SocksOwned, InstanceOwned, Early,
     SocksClosed

\* Sound is lost for good.
LEMMA SoundBefore ==
    ASSUME ProcTypeOK, NEW p \in Procs, Step(p), Sound(p)',
           ~(Ends(p) \/ \E l \in Launches : Launch(p, l))
    PROVE  Sound(p)
<1> USE DEF Sound, Late, ProcTypeOK
<1>1. CASE Ends(p)
  BY <1>1
<1>2. ASSUME NEW l \in Launches, Launch(p, l) PROVE Sound(p)
  BY <1>2
<1>3. CASE ParseArgs(p)
  BY <1>3 DEF ParseArgs, RflogStart, At, Goto
<1>4. CASE EnterBackground(p)
  BY <1>4 DEF EnterBackground, At, Goto
<1>5. CASE StampInstall(p)
  BY <1>5 DEF StampInstall, At, Goto
<1>6. CASE InstanceLockAcquire(p)
  BY <1>6 DEF InstanceLockAcquire, At, Goto
<1>7. CASE PinLock(p)
  BY <1>7 DEF PinLock, At, Goto
<1>8. CASE LedInit(p)
  BY <1>8 DEF LedInit, PinsDone, At, Goto
<1>9. CASE NoPins(p)
  BY <1>9 DEF NoPins, PinsDone, At, Goto
<1>10. CASE PinsFail(p)
  BY <1>10 DEF PinsFail, At, Goto
<1>11. CASE PreparePath(p)
  BY <1>11 DEF PreparePath, At, Goto
<1>12. CASE Bind(p)
  BY <1>12 DEF Bind, At, Goto
<1>13. CASE BindFails(p)
  BY <1>13 DEF BindFails, Cleanup, At, Goto
<1>14. CASE UsbOpens(p)
  BY <1>14 DEF UsbOpens, At, Goto
<1>15. CASE PiOpens(p)
  BY <1>15 DEF PiOpens, At, Goto
<1>16. CASE RadioReady(p)
  BY <1>16 DEF RadioReady, At, Goto
<1>17. CASE RadioFails(p)
  BY <1>17 DEF RadioFails, Cleanup, At, Goto
<1>18. CASE SpiBegin(p)
  BY <1>18 DEF SpiBegin, Touches, At, Goto
<1>19. CASE SpiEnd(p)
  BY <1>19 DEF SpiEnd, At, Goto
<1>20. CASE EpollInit(p)
  BY <1>20 DEF EpollInit, At, Goto
<1>21. CASE EpollFails(p)
  BY <1>21 DEF EpollFails, Cleanup, At, Goto
<1>22. CASE Stop(p)
  BY <1>22 DEF Stop, Cleanup, At, Goto
<1>23. CASE CleanRadio(p)
  BY <1>23 DEF CleanRadio, At, Goto
<1>24. CASE CleanLed(p)
  BY <1>24 DEF CleanLed, At, Goto
<1>25. CASE CleanPins(p)
  BY <1>25 DEF CleanPins, At, Goto
<1>26. CASE CleanRflog(p)
  BY <1>26 DEF CleanRflog, At, Goto
<1>27. CASE CleanEpoll(p)
  BY <1>27 DEF CleanEpoll, At, Goto
<1>28. CASE CleanSockets(p)
  BY <1>28 DEF CleanSockets, At, Goto
<1>29. CASE CleanInstance(p)
  BY <1>29 DEF CleanInstance, At, Goto
<1>30. CASE SocketClose(p)
  BY <1>30 DEF SocketClose, At, Goto
<1>31. CASE RemoveNext(p)
  BY <1>31 DEF RemoveNext, At, Goto
<1>32. CASE ReleaseInstance(p)
  BY <1>32 DEF ReleaseInstance, At, Goto
<1>33. QED
  BY <1>1, <1>2, <1>3, <1>4, <1>5, <1>6, <1>7, <1>8, <1>9, <1>10, <1>11, <1>12,
     <1>13, <1>14, <1>15, <1>16, <1>17, <1>18, <1>19, <1>20, <1>21, <1>22,
     <1>23, <1>24, <1>25, <1>26, <1>27, <1>28, <1>29, <1>30, <1>31, <1>32 DEF
     Step

\* The kinds of the files a process remembers numbers of.
LEMMA DescKinds ==
    ASSUME NEW p
    PROVE  /\ Locked(InstanceFile(p)).file[1] = "instance"
           /\ \A n : Locked(PinFile(n)).file[1] = "gpio"
           /\ \A kind : Other(kind).file[1] = kind
           /\ \A k : Socket(p, k).file[1] = "socket" /\ Socket(p, k).file[3] = k
           /\ \A b : [SpiFile EXCEPT !.locked = b].file[1] = "spi"
           /\ RfLog(p).file[1] = "rflog"
  BY DEF Locked, InstanceFile, PinFile, Other, Socket, SpiFile, RfLog, Desc

\* What the numbers a process remembers are, told by the kind of file.
KnownKinds(p) ==
    /\ h[p].instance # NoFd => KindOf(p, h[p].instance) = "instance"
    /\ \A i \in DOMAIN h[p].pins :
          KindOf(p, h[p].pins[i]) = "gpio" /\ h[p].pins[i] # NoFd
    /\ h[p].chip # NoFd => KindOf(p, h[p].chip) = "gpiochip"
    /\ \A k \in Socks : h[p].socks[k] # NoFd =>
          /\ KindOf(p, h[p].socks[k]) = "socket"
          /\ fdt[p][h[p].socks[k]].file[3] = k
    /\ h[p].spi # NoFd => KindOf(p, h[p].spi) = "spi"
    /\ h[p].usb # NoFd => KindOf(p, h[p].usb) = "usb"
    /\ h[p].epoll # NoFd => KindOf(p, h[p].epoll) = "epoll"
    /\ h[p].rflog # NoFd /\ ~opt[p].background =>
          KindOf(p, h[p].rflog) = "rflog"

\* Different handles are numbers of different kinds of file, so that closing
\* the one never closes the other.
LEMMA KindsKnown ==
    ASSUME NEW p \in Procs, IsTable(fdt[p]), Contents(p)
    PROVE  KnownKinds(p)
<1> USE DEF Contents, Has, KindOf
<1>1. h[p].instance # NoFd => KindOf(p, h[p].instance) = "instance"
  BY DescKinds
<1>2. \A i \in DOMAIN h[p].pins :
         KindOf(p, h[p].pins[i]) = "gpio" /\ h[p].pins[i] # NoFd
  BY DescKinds DEF IsTable, NoFd
<1>3. h[p].chip # NoFd => KindOf(p, h[p].chip) = "gpiochip"
  BY DescKinds
<1>4. \A k \in Socks : h[p].socks[k] # NoFd =>
         /\ KindOf(p, h[p].socks[k]) = "socket"
         /\ fdt[p][h[p].socks[k]].file[3] = k
  <2> TAKE k \in Socks
  <2> HAVE h[p].socks[k] # NoFd
  <2>1. fdt[p][h[p].socks[k]] = Socket(p, k)
    OBVIOUS
  <2>2. Socket(p, k).file[1] = "socket" /\ Socket(p, k).file[3] = k
    BY DescKinds
  <2>3. QED
    BY <2>1, <2>2 DEF KindOf
<1>5. h[p].spi # NoFd => KindOf(p, h[p].spi) = "spi"
  <2>1. [SpiFile EXCEPT !.locked = bus[p]].file[1] = "spi"
    BY DescKinds
  <2>2. QED
    BY <2>1
<1>6. h[p].usb # NoFd => KindOf(p, h[p].usb) = "usb"
  BY DescKinds
<1>7. h[p].epoll # NoFd => KindOf(p, h[p].epoll) = "epoll"
  BY DescKinds
<1>8. h[p].rflog # NoFd /\ ~opt[p].background => KindOf(p, h[p].rflog) = "rflog"
  BY DescKinds
<1>9. QED
  BY <1>1, <1>2, <1>3, <1>4, <1>5, <1>6, <1>7, <1>8 DEF KnownKinds

\* Locking or unlocking again.
LEMMA Relocked ==
    ASSUME NEW r, NEW b, NEW c
    PROVE  [[r EXCEPT !.locked = b] EXCEPT !.locked = c] = [r EXCEPT !.locked = c]
  OBVIOUS

\* The bus lock as it is opened: not locked.
LEMMA SpiUnlocked ==
    ASSUME NEW b, b = FALSE
    PROVE  [SpiFile EXCEPT !.locked = b] = SpiFile
<1>1. ASSUME NEW r, r = [file |-> r.file, locked |-> r.locked]
      PROVE  [r EXCEPT !.locked = r.locked] = r
  BY <1>1
<1>2. SpiFile.locked = b /\ SpiFile = [file |-> SpiFile.file, locked |-> SpiFile.locked]
  BY DEF SpiFile, Desc
<1>3. QED
  BY <1>1, <1>2

\* A handle that is kept, with its number, still stands for its file.
LEMMA ContentsKept ==
    ASSUME NEW p \in Procs, Contents(p), opt' = opt,
           \/ h'[p].instance = NoFd
           \/ h'[p].instance = h[p].instance /\ Kept(p, h[p].instance)
           \/ Has(p, h[p].instance, Locked(InstanceFile(p)))',
           \/ h'[p].pins = <<>>
           \/ /\ h'[p].pins = h[p].pins
              /\ \A i \in DOMAIN h[p].pins : Kept(p, h[p].pins[i])
           \/ \A i \in DOMAIN h'[p].pins :
                 Has(p, h[p].pins[i], Locked(PinFile(opt[p].pins[i])))',
           \/ h'[p].chip = NoFd
           \/ h'[p].chip = h[p].chip /\ Kept(p, h[p].chip)
           \/ Has(p, h[p].chip, Other("gpiochip"))',
           \A k \in Socks :
              \/ h'[p].socks[k] = NoFd
              \/ h'[p].socks[k] = h[p].socks[k] /\ Kept(p, h[p].socks[k])
              \/ Has(p, h[p].socks[k], Socket(p, k))',
           \/ h'[p].spi = NoFd
           \/ /\ h'[p].spi = h[p].spi /\ Kept(p, h[p].spi)
              /\ bus'[p] = bus[p]
           \/ Has(p, h[p].spi, [SpiFile EXCEPT !.locked = bus[p]])',
           \/ h'[p].usb = NoFd
           \/ h'[p].usb = h[p].usb /\ Kept(p, h[p].usb)
           \/ Has(p, h[p].usb, Other("usb"))',
           \/ h'[p].epoll = NoFd
           \/ h'[p].epoll = h[p].epoll /\ Kept(p, h[p].epoll)
           \/ Has(p, h[p].epoll, Other("epoll"))',
           \/ h'[p].rflog = NoFd
           \/ opt[p].background
           \/ h'[p].rflog = h[p].rflog /\ Kept(p, h[p].rflog)
           \/ Has(p, h[p].rflog, RfLog(p))'
    PROVE  Contents(p)'
<1> USE DEF Contents, Has, Kept
<1>1. (h[p].instance # NoFd => Has(p, h[p].instance, Locked(InstanceFile(p))))'
  BY Zenon DEF InstanceFile
<1>2. (\A i \in DOMAIN h[p].pins :
          Has(p, h[p].pins[i], Locked(PinFile(opt[p].pins[i]))))'
  BY SMTT(20)
<1>3. (h[p].chip # NoFd => Has(p, h[p].chip, Other("gpiochip")))'
  BY Zenon
<1>4. (\A k \in Socks :
          h[p].socks[k] # NoFd => Has(p, h[p].socks[k], Socket(p, k)))'
  BY Zenon DEF Socket
<1>5. (h[p].spi # NoFd => Has(p, h[p].spi, [SpiFile EXCEPT !.locked = bus[p]]))'
  BY Zenon
<1>6. (h[p].usb # NoFd => Has(p, h[p].usb, Other("usb")))'
  BY Zenon
<1>7. (h[p].epoll # NoFd => Has(p, h[p].epoll, Other("epoll")))'
  BY Zenon
<1>8. (h[p].rflog # NoFd /\ ~opt[p].background => Has(p, h[p].rflog, RfLog(p)))'
  BY Zenon DEF RfLog
<1> HIDE DEF Has
<1>9. QED
  BY <1>1, <1>2, <1>3, <1>4, <1>5, <1>6, <1>7, <1>8

\* Every number a process remembers stands for the file it was opened as.
LEMMA ContentsStep ==
    ASSUME LaunchesAssumption, ProcTypeOK, TableInv, NEW p \in Procs, Owned(p),
           Contents(p), Step(p), Sound(p)'
    PROVE  Contents(p)'
<1>1. /\ h \in [Procs -> HandleType] /\ pc \in [Procs -> [at : StepNames, k : Nat]]
      /\ opt = [q \in Procs |-> opt[q]] /\ bus \in [Procs -> BOOLEAN]
      /\ fdt = [q \in Procs |-> fdt[q]] /\ IsTable(fdt[p])
  BY DEF ProcTypeOK, TableInv
<1>2. \A kind, name, n : Adds(fdt[p], Opened(fdt[p], Desc(kind, name, n)),
                              Lowest(fdt[p]), Desc(kind, name, n))
  BY <1>1, OpenedAdds
<1>3. \A d : Adds(fdt[p], With(fdt[p], LockFd(fdt[p]), d), LockFd(fdt[p]), d)
  BY <1>1, LockAdds
<1>4. \A N, n : fdt'[p] = Closed(fdt[p], N) /\ n \notin N => Kept(p, n)
  BY DEF Closed, Kept
<1>5. KnownKinds(p)
  BY <1>1, KindsKnown
<1>6. \A n, d : Adds(fdt[p], fdt'[p], n, d) =>
          /\ n \in DOMAIN fdt'[p] /\ fdt'[p][n] = d
          /\ \A m : Kept(p, m)
  BY DEF Adds, Kept
<1>7. CASE Ends(p)
  <2>1. h'[p] = NoHandles
    BY <1>7, <1>1 DEF Ends
  <2>2. QED
    BY <2>1 DEF Contents, NoHandles
<1>8. ASSUME NEW l \in Launches, Launch(p, l) PROVE Contents(p)'
  <2>1. h'[p] = h[p]
    BY <1>8 DEF Launch
  <2>2. QED
    BY <1>8, <2>1, NothingKnown DEF Launch, At, Contents
<1>9. CASE ParseArgs(p)
  <2>1. CASE opt[p].rflog
    <3>1. Adds(fdt[p], fdt'[p], Lowest(fdt[p]), RfLog(p))
      BY <1>9, <2>1, <1>1, <1>2 DEF ParseArgs, RflogStart, RfLog
    <3>2. /\ h'[p].instance = h[p].instance
          /\ h'[p].pins = h[p].pins
          /\ h'[p].chip = h[p].chip
          /\ h'[p].socks = h[p].socks
          /\ h'[p].spi = h[p].spi
          /\ h'[p].usb = h[p].usb
          /\ h'[p].epoll = h[p].epoll
          /\ h'[p].rflog = Lowest(fdt[p]) /\ opt' = opt /\ bus' = bus
      BY <1>9, <2>1, <1>1 DEF ParseArgs, RflogStart, HandleType
    <3>3. Has(p, h[p].rflog, RfLog(p))'
      BY <1>6, <3>1, <3>2 DEF Has, RfLog
    <3>4. \A n : Kept(p, n)
      BY <1>6, <3>1
    <3>5. QED
      BY <3>2, <3>3, <3>4, ContentsKept
  <2>2. CASE ~opt[p].rflog
    <3>1. UNCHANGED fdt /\ h'[p] = h[p] /\ opt' = opt /\ bus' = bus
      BY <1>9, <2>2, <1>1 DEF ParseArgs, RflogStart, HandleType
    <3>2. \A n : Kept(p, n)
      BY <3>1 DEF Kept
    <3>3. QED
      BY <3>1, <3>2, ContentsKept
  <2>3. QED
    BY <2>1, <2>2
<1>10. CASE EnterBackground(p)
  <2>1. h' = h /\ opt' = opt /\ bus' = bus
    BY <1>10 DEF EnterBackground
  <2>2. /\ h[p].instance = NoFd /\ h[p].pins = <<>> /\ h[p].chip = NoFd
        /\ \A k \in Socks : h[p].socks[k] = NoFd
        /\ h[p].spi = NoFd /\ h[p].usb = NoFd /\ h[p].epoll = NoFd
    BY <1>10 DEF EnterBackground, At, Owned, RadioOwned, PinsOwned, SocksOwned,
       InstanceOwned, Early, SocksClosed
  <2>3. opt[p].background \/ \A n : Kept(p, n)
    BY <1>10, <1>1 DEF EnterBackground, Kept
  <2>4. QED
    BY <2>1, <2>2, <2>3, ContentsKept
<1>11. CASE StampInstall(p)
  <2> DEFINE v == Opened(fdt[p], Other("stdout"))
  <2>1. IsTable(v) /\ Adds(fdt[p], v, Lowest(fdt[p]), Other("stdout"))
    BY <1>1, OpenTable, OpenedAdds, OtherIsDesc DEF Kinds
  <2>2. Adds(v, Opened(v, Other("stderr")), Lowest(v), Other("stderr"))
    BY <2>1, OpenedAdds
  <2>3. fdt'[p] = Opened(v, Other("stderr")) /\ UNCHANGED <<h, opt, bus>>
    BY <1>11, <1>1 DEF StampInstall
  <2> HIDE DEF v
  <2>4. \A n : Kept(p, n)
    BY <2>1, <2>2, <2>3 DEF Adds, Kept
  <2>5. QED
    BY <2>3, <2>4, ContentsKept
<1>12. CASE InstanceLockAcquire(p)
  <2>1. Adds(fdt[p], fdt'[p], LockFd(fdt[p]), Locked(InstanceFile(p)))
    BY <1>12, <1>1, <1>2, <1>3 DEF InstanceLockAcquire, WithLock, Locked
  <2>2. /\ h'[p].pins = h[p].pins
        /\ h'[p].chip = h[p].chip
        /\ h'[p].socks = h[p].socks
        /\ h'[p].spi = h[p].spi
        /\ h'[p].usb = h[p].usb
        /\ h'[p].epoll = h[p].epoll
        /\ h'[p].rflog = h[p].rflog
        /\ h'[p].instance = LockFd(fdt[p]) /\ opt' = opt /\ bus' = bus
    BY <1>12, <1>1 DEF InstanceLockAcquire, HandleType
  <2>3. Has(p, h[p].instance, Locked(InstanceFile(p)))'
    BY <1>6, <2>1, <2>2 DEF Has, InstanceFile
  <2>4. \A n : Kept(p, n)
    BY <1>6, <2>1
  <2>5. QED
    BY <2>2, <2>3, <2>4, ContentsKept
<1>13. CASE PinLock(p)
  <2> DEFINE d == Locked(PinFile(opt[p].pins[pc[p].k]))
  <2>1. Adds(fdt[p], fdt'[p], LockFd(fdt[p]), d)
    BY <1>13, <1>1, <1>3 DEF PinLock, WithLock, Locked
  <2>2. /\ h'[p].instance = h[p].instance
        /\ h'[p].chip = h[p].chip
        /\ h'[p].socks = h[p].socks
        /\ h'[p].spi = h[p].spi
        /\ h'[p].usb = h[p].usb
        /\ h'[p].epoll = h[p].epoll
        /\ h'[p].rflog = h[p].rflog
        /\ opt' = opt /\ bus' = bus
    BY <1>13, <1>1 DEF PinLock, HandleType
  <2>3. /\ h[p].pins \in Seq(Nat) /\ pc[p].k = Len(h[p].pins) + 1
        /\ h'[p].pins = Append(h[p].pins, LockFd(fdt[p]))
    BY <1>13, <1>1 DEF PinLock, HandleType, Owned, PinsOwned, At
  <2>4. \A n : Kept(p, n)
    BY <1>6, <2>1
  <2>5. \A i \in DOMAIN h'[p].pins :
           Has(p, h[p].pins[i], Locked(PinFile(opt[p].pins[i])))'
    <3> TAKE i \in DOMAIN h'[p].pins
    <3>1. CASE i \in DOMAIN h[p].pins
      <4>1. h'[p].pins[i] = h[p].pins[i]
        BY <2>3, <3>1
      <4>2. Has(p, h[p].pins[i], Locked(PinFile(opt[p].pins[i])))
        BY <3>1 DEF Contents
      <4>3. QED
        BY <2>2, <2>4, <4>1, <4>2 DEF Has, Kept
    <3>2. CASE i = Len(h[p].pins) + 1
      <4>1. h'[p].pins[i] = LockFd(fdt[p]) /\ i = pc[p].k
        BY <2>3, <3>2
      <4>2. QED
        BY <1>6, <2>1, <2>2, <4>1 DEF Has
    <3>3. QED
      BY <2>3, <3>1, <3>2
  <2>6. QED
    BY <2>2, <2>4, <2>5, ContentsKept
<1>14. CASE LedInit(p)
  <2>1. Adds(fdt[p], fdt'[p], Lowest(fdt[p]), Other("gpiochip"))
    BY <1>14, <1>1, <1>2, <1>3, Zenon DEF LedInit, Other
  <2>2. /\ h'[p].instance = h[p].instance
        /\ h'[p].pins = h[p].pins
        /\ h'[p].socks = h[p].socks
        /\ h'[p].spi = h[p].spi
        /\ h'[p].usb = h[p].usb
        /\ h'[p].epoll = h[p].epoll
        /\ h'[p].rflog = h[p].rflog
        /\ h'[p].chip = Lowest(fdt[p]) /\ opt' = opt /\ bus' = bus
    BY <1>14, <1>1 DEF LedInit, HandleType
  <2>3. Has(p, h[p].chip, Other("gpiochip"))'
    BY <1>6, <2>1, <2>2 DEF Has
  <2>4. \A n : Kept(p, n)
    BY <1>6, <2>1
  <2>5. QED
    BY <2>2, <2>3, <2>4, ContentsKept
<1>15. CASE NoPins(p)
  <2>1. UNCHANGED <<h, fdt, opt, bus>> /\ \A n : Kept(p, n)
    BY <1>15 DEF NoPins, Kept
  <2>2. QED
    BY <2>1, ContentsKept
<1>16. CASE PinsFail(p)
  <2>1. fdt'[p] = Closed(fdt[p], Range(h[p].pins))
    BY <1>16, <1>1 DEF PinsFail
  <2>2. /\ h'[p].instance = h[p].instance
        /\ h'[p].chip = h[p].chip
        /\ h'[p].socks = h[p].socks
        /\ h'[p].spi = h[p].spi
        /\ h'[p].usb = h[p].usb
        /\ h'[p].epoll = h[p].epoll
        /\ h'[p].rflog = h[p].rflog
        /\ opt' = opt /\ bus' = bus
        /\ h'[p].pins = <<>>
    BY <1>16, <1>1 DEF PinsFail, HandleType
  <2>3. /\ h[p].instance # NoFd => Kept(p, h[p].instance)
        /\ h[p].chip # NoFd => Kept(p, h[p].chip)
        /\ \A k \in Socks : h[p].socks[k] # NoFd => Kept(p, h[p].socks[k])
        /\ h[p].spi # NoFd => Kept(p, h[p].spi)
        /\ h[p].usb # NoFd => Kept(p, h[p].usb)
        /\ h[p].epoll # NoFd => Kept(p, h[p].epoll)
        /\ h[p].rflog # NoFd /\ ~opt[p].background => Kept(p, h[p].rflog)
    <3> DEFINE N == Range(h[p].pins)
    <3>1. \A n : n \notin N => Kept(p, n)
      BY <1>4, <2>1
    <3>2. \A n \in N : n = NoFd \/ KindOf(p, n) \in {"gpio"}
      BY <1>5 DEF KnownKinds, Range
    <3> HIDE DEF N
    <3>3. QED
      BY <1>5, <3>1, <3>2 DEF KnownKinds
  <2>4. QED
    BY <2>2, <2>3, ContentsKept
<1>17. CASE PreparePath(p)
  <2>1. UNCHANGED <<h, fdt, opt, bus>> /\ \A n : Kept(p, n)
    BY <1>17 DEF PreparePath, Kept
  <2>2. QED
    BY <2>1, ContentsKept
<1>18. CASE Bind(p)
  <2> DEFINE k == pc[p].k
  <2>1. k \in Socks /\ Adds(fdt[p], fdt'[p], Lowest(fdt[p]), Socket(p, k))
    BY <1>18, <1>1, <1>2 DEF Bind, At, ProcTypeOK, Socket
  <2>2. /\ h'[p].instance = h[p].instance
        /\ h'[p].pins = h[p].pins
        /\ h'[p].chip = h[p].chip
        /\ h'[p].spi = h[p].spi
        /\ h'[p].usb = h[p].usb
        /\ h'[p].epoll = h[p].epoll
        /\ h'[p].rflog = h[p].rflog
        /\ opt' = opt /\ bus' = bus
    BY <1>18, <1>1 DEF Bind, HandleType
  <2>3. /\ h'[p].socks[k] = Lowest(fdt[p])
        /\ \A j \in Socks : j # k => h'[p].socks[j] = h[p].socks[j]
    BY <1>18, <1>1, <2>1 DEF Bind, HandleType
  <2> HIDE DEF k
  <2>4. \A j \in Socks : j = k => Has(p, h[p].socks[j], Socket(p, j))'
    BY <1>6, <2>1, <2>2, <2>3 DEF Has, Socket
  <2>5. \A n : Kept(p, n)
    BY <1>6, <2>1
  <2>6. QED
    BY <2>2, <2>3, <2>4, <2>5, ContentsKept
<1>19. CASE BindFails(p)
  <2>1. fdt'[p] = Closed(fdt[p], {h[p].socks[j] : j \in {i \in Socks : i < pc[p].k}})
    BY <1>19, <1>1 DEF BindFails
  <2>2. /\ h'[p].instance = h[p].instance
        /\ h'[p].pins = h[p].pins
        /\ h'[p].chip = h[p].chip
        /\ h'[p].spi = h[p].spi
        /\ h'[p].usb = h[p].usb
        /\ h'[p].epoll = h[p].epoll
        /\ h'[p].rflog = h[p].rflog
        /\ opt' = opt /\ bus' = bus
        /\ \A k \in Socks : h'[p].socks[k] = NoFd
    BY <1>19, <1>1 DEF BindFails, HandleType
  <2>3. /\ h[p].instance # NoFd => Kept(p, h[p].instance)
        /\ \A i \in DOMAIN h[p].pins : Kept(p, h[p].pins[i])
        /\ h[p].chip # NoFd => Kept(p, h[p].chip)
        /\ h[p].spi # NoFd => Kept(p, h[p].spi)
        /\ h[p].usb # NoFd => Kept(p, h[p].usb)
        /\ h[p].epoll # NoFd => Kept(p, h[p].epoll)
        /\ h[p].rflog # NoFd /\ ~opt[p].background => Kept(p, h[p].rflog)
    <3> DEFINE N == {h[p].socks[j] : j \in {i \in Socks : i < pc[p].k}}
    <3>1. \A n : n \notin N => Kept(p, n)
      BY <1>4, <2>1
    <3>2. \A n \in N : n = NoFd \/ KindOf(p, n) \in {"socket"}
      BY <1>5 DEF KnownKinds
    <3> HIDE DEF N
    <3>3. QED
      BY <1>5, <3>1, <3>2 DEF KnownKinds
  <2>4. QED
    BY <2>2, <2>3, ContentsKept
<1>20. CASE UsbOpens(p)
  <2>1. Adds(fdt[p], fdt'[p], Lowest(fdt[p]), Other("usb"))
    BY <1>20, <1>1, <1>2, <1>3, Zenon DEF UsbOpens, Other
  <2>2. /\ h'[p].instance = h[p].instance
        /\ h'[p].pins = h[p].pins
        /\ h'[p].chip = h[p].chip
        /\ h'[p].socks = h[p].socks
        /\ h'[p].spi = h[p].spi
        /\ h'[p].epoll = h[p].epoll
        /\ h'[p].rflog = h[p].rflog
        /\ h'[p].usb = Lowest(fdt[p]) /\ opt' = opt /\ bus' = bus
    BY <1>20, <1>1 DEF UsbOpens, HandleType
  <2>3. Has(p, h[p].usb, Other("usb"))'
    BY <1>6, <2>1, <2>2 DEF Has
  <2>4. \A n : Kept(p, n)
    BY <1>6, <2>1
  <2>5. QED
    BY <2>2, <2>3, <2>4, ContentsKept
<1>21. CASE PiOpens(p)
  <2> DEFINE u == With(fdt[p], LockFd(fdt[p]), SpiFile)
             v == Opened(u, Other("gpiochip"))
  <2>1. IsTable(u) /\ Adds(fdt[p], u, LockFd(fdt[p]), SpiFile)
    BY <1>1, <1>3, AddsTable, OtherIsDesc
  <2>2. fdt'[p] = Opened(v, Other("spidev"))
    BY <1>21, <1>1 DEF PiOpens
  <2> HIDE DEF u
  <2>3. IsTable(v) /\ Adds(u, v, Lowest(u), Other("gpiochip"))
    BY <2>1, OpenTable, OpenedAdds, OtherIsDesc DEF Kinds
  <2> HIDE DEF v
  <2>4. Adds(v, fdt'[p], Lowest(v), Other("spidev"))
    BY <2>2, <2>3, OpenedAdds
  <2>5. /\ \A n : Kept(p, n)
        /\ LockFd(fdt[p]) \in DOMAIN fdt'[p] /\ fdt'[p][LockFd(fdt[p])] = SpiFile
    BY <2>1, <2>3, <2>4 DEF Adds, Kept
  <2>6. /\ h'[p].instance = h[p].instance
        /\ h'[p].pins = h[p].pins
        /\ h'[p].chip = h[p].chip
        /\ h'[p].socks = h[p].socks
        /\ h'[p].usb = h[p].usb
        /\ h'[p].epoll = h[p].epoll
        /\ h'[p].rflog = h[p].rflog
        /\ h'[p].spi = LockFd(fdt[p]) /\ opt' = opt /\ bus' = bus
    BY <1>21, <1>1 DEF PiOpens, HandleType
  <2>7. ~bus[p]
    BY <1>21 DEF PiOpens, At, Owned, RadioOwned
  <2>8. [SpiFile EXCEPT !.locked = bus'[p]] = SpiFile
    <3>1. bus'[p] = FALSE
      BY <1>1, <2>6, <2>7
    <3>2. QED
      BY <3>1, SpiUnlocked
  <2>9. Has(p, h[p].spi, [SpiFile EXCEPT !.locked = bus[p]])'
    BY <2>5, <2>6, <2>8 DEF Has
  <2>10. QED
    BY <2>5, <2>6, <2>9, ContentsKept
<1>22. CASE RadioReady(p)
  <2>1. UNCHANGED <<h, fdt, opt, bus>> /\ \A n : Kept(p, n)
    BY <1>22 DEF RadioReady, Kept
  <2>2. QED
    BY <2>1, ContentsKept
<1>23. CASE RadioFails(p)
  <2>1. UNCHANGED <<h, fdt, opt, bus>> /\ \A n : Kept(p, n)
    BY <1>23 DEF RadioFails, Kept
  <2>2. QED
    BY <2>1, ContentsKept
<1>24. CASE SpiBegin(p)
  <2>1. h' = h /\ opt' = opt /\ bus'[p] = TRUE /\ h[p].spi # NoFd
    BY <1>24, <1>1 DEF SpiBegin, Owned, RadioOwned
  <2>2. h[p].spi \in DOMAIN fdt[p] /\ fdt[p][h[p].spi] = [SpiFile EXCEPT !.locked = bus[p]]
    BY <2>1 DEF Contents, Has
  <2>3. fdt'[p] = [fdt[p] EXCEPT ![h[p].spi] = [fdt[p][h[p].spi] EXCEPT !.locked = TRUE]]
    BY <1>24, <1>1 DEF SpiBegin
  <2>4. Has(p, h[p].spi, [SpiFile EXCEPT !.locked = bus[p]])'
    <3>1. fdt'[p][h[p].spi] = [SpiFile EXCEPT !.locked = bus'[p]]
      <4>1. fdt'[p][h[p].spi] = [fdt[p][h[p].spi] EXCEPT !.locked = bus'[p]]
        BY <2>1, <2>2, <2>3
      <4>2. QED
        BY <2>2, <4>1, Relocked, Zenon
    <3>2. h[p].spi \in DOMAIN fdt'[p]
      BY <2>2, <2>3
    <3>3. QED
      BY <2>1, <3>1, <3>2 DEF Has
  <2>5. \A n : n # h[p].spi => Kept(p, n)
    BY <2>3 DEF Kept
  <2>6. /\ h[p].instance # NoFd => Kept(p, h[p].instance)
        /\ \A i \in DOMAIN h[p].pins : Kept(p, h[p].pins[i])
        /\ h[p].chip # NoFd => Kept(p, h[p].chip)
        /\ \A k \in Socks : h[p].socks[k] # NoFd => Kept(p, h[p].socks[k])
        /\ h[p].usb # NoFd => Kept(p, h[p].usb)
        /\ h[p].epoll # NoFd => Kept(p, h[p].epoll)
        /\ h[p].rflog # NoFd /\ ~opt[p].background => Kept(p, h[p].rflog)
    BY <1>5, <2>1, <2>5 DEF KnownKinds
  <2>7. QED
    BY <2>1, <2>4, <2>6, ContentsKept
<1>25. CASE SpiEnd(p)
  <2>1. h' = h /\ opt' = opt /\ bus'[p] = FALSE /\ h[p].spi # NoFd
    BY <1>25, <1>1 DEF SpiEnd, Owned, RadioOwned
  <2>2. h[p].spi \in DOMAIN fdt[p] /\ fdt[p][h[p].spi] = [SpiFile EXCEPT !.locked = bus[p]]
    BY <2>1 DEF Contents, Has
  <2>3. fdt'[p] = [fdt[p] EXCEPT ![h[p].spi] = [fdt[p][h[p].spi] EXCEPT !.locked = FALSE]]
    BY <1>25, <1>1 DEF SpiEnd
  <2>4. Has(p, h[p].spi, [SpiFile EXCEPT !.locked = bus[p]])'
    <3>1. fdt'[p][h[p].spi] = [SpiFile EXCEPT !.locked = bus'[p]]
      <4>1. fdt'[p][h[p].spi] = [fdt[p][h[p].spi] EXCEPT !.locked = bus'[p]]
        BY <2>1, <2>2, <2>3
      <4>2. QED
        BY <2>2, <4>1, Relocked, Zenon
    <3>2. h[p].spi \in DOMAIN fdt'[p]
      BY <2>2, <2>3
    <3>3. QED
      BY <2>1, <3>1, <3>2 DEF Has
  <2>5. \A n : n # h[p].spi => Kept(p, n)
    BY <2>3 DEF Kept
  <2>6. /\ h[p].instance # NoFd => Kept(p, h[p].instance)
        /\ \A i \in DOMAIN h[p].pins : Kept(p, h[p].pins[i])
        /\ h[p].chip # NoFd => Kept(p, h[p].chip)
        /\ \A k \in Socks : h[p].socks[k] # NoFd => Kept(p, h[p].socks[k])
        /\ h[p].usb # NoFd => Kept(p, h[p].usb)
        /\ h[p].epoll # NoFd => Kept(p, h[p].epoll)
        /\ h[p].rflog # NoFd /\ ~opt[p].background => Kept(p, h[p].rflog)
    BY <1>5, <2>1, <2>5 DEF KnownKinds
  <2>7. QED
    BY <2>1, <2>4, <2>6, ContentsKept
<1>26. CASE EpollInit(p)
  <2>1. Adds(fdt[p], fdt'[p], Lowest(fdt[p]), Other("epoll"))
    BY <1>26, <1>1, <1>2, <1>3, Zenon DEF EpollInit, Other
  <2>2. /\ h'[p].instance = h[p].instance
        /\ h'[p].pins = h[p].pins
        /\ h'[p].chip = h[p].chip
        /\ h'[p].socks = h[p].socks
        /\ h'[p].spi = h[p].spi
        /\ h'[p].usb = h[p].usb
        /\ h'[p].rflog = h[p].rflog
        /\ h'[p].epoll = Lowest(fdt[p]) /\ opt' = opt /\ bus' = bus
    BY <1>26, <1>1 DEF EpollInit, HandleType
  <2>3. Has(p, h[p].epoll, Other("epoll"))'
    BY <1>6, <2>1, <2>2 DEF Has
  <2>4. \A n : Kept(p, n)
    BY <1>6, <2>1
  <2>5. QED
    BY <2>2, <2>3, <2>4, ContentsKept
<1>27. CASE EpollFails(p)
  <2>1. UNCHANGED <<h, fdt, opt, bus>> /\ \A n : Kept(p, n)
    BY <1>27 DEF EpollFails, Kept
  <2>2. QED
    BY <2>1, ContentsKept
<1>28. CASE Stop(p)
  <2>1. UNCHANGED <<h, fdt, opt, bus>> /\ \A n : Kept(p, n)
    BY <1>28 DEF Stop, Kept
  <2>2. QED
    BY <2>1, ContentsKept
<1>29. CASE CleanRadio(p)
  <2>1. fdt'[p] = Closed(fdt[p], {h[p].spi, h[p].usb})
    BY <1>29, <1>1 DEF CleanRadio
  <2>2. /\ h'[p].instance = h[p].instance
        /\ h'[p].pins = h[p].pins
        /\ h'[p].chip = h[p].chip
        /\ h'[p].socks = h[p].socks
        /\ h'[p].epoll = h[p].epoll
        /\ h'[p].rflog = h[p].rflog
        /\ opt' = opt /\ bus' = bus
        /\ h'[p].spi = NoFd /\ h'[p].usb = NoFd
    BY <1>29, <1>1 DEF CleanRadio, HandleType
  <2>3. /\ h[p].instance # NoFd => Kept(p, h[p].instance)
        /\ \A i \in DOMAIN h[p].pins : Kept(p, h[p].pins[i])
        /\ h[p].chip # NoFd => Kept(p, h[p].chip)
        /\ \A k \in Socks : h[p].socks[k] # NoFd => Kept(p, h[p].socks[k])
        /\ h[p].epoll # NoFd => Kept(p, h[p].epoll)
        /\ h[p].rflog # NoFd /\ ~opt[p].background => Kept(p, h[p].rflog)
    <3> DEFINE N == {h[p].spi, h[p].usb}
    <3>1. \A n : n \notin N => Kept(p, n)
      BY <1>4, <2>1
    <3>2. \A n \in N : n = NoFd \/ KindOf(p, n) \in {"spi", "usb"}
      BY <1>5 DEF KnownKinds
    <3> HIDE DEF N
    <3>3. QED
      BY <1>5, <3>1, <3>2 DEF KnownKinds
  <2>4. QED
    BY <2>2, <2>3, ContentsKept
<1>30. CASE CleanLed(p)
  <2>1. fdt'[p] = Closed(fdt[p], {h[p].chip})
    BY <1>30, <1>1 DEF CleanLed
  <2>2. /\ h'[p].instance = h[p].instance
        /\ h'[p].pins = h[p].pins
        /\ h'[p].socks = h[p].socks
        /\ h'[p].spi = h[p].spi
        /\ h'[p].usb = h[p].usb
        /\ h'[p].epoll = h[p].epoll
        /\ h'[p].rflog = h[p].rflog
        /\ opt' = opt /\ bus' = bus
        /\ h'[p].chip = NoFd
    BY <1>30, <1>1 DEF CleanLed, HandleType
  <2>3. /\ h[p].instance # NoFd => Kept(p, h[p].instance)
        /\ \A i \in DOMAIN h[p].pins : Kept(p, h[p].pins[i])
        /\ \A k \in Socks : h[p].socks[k] # NoFd => Kept(p, h[p].socks[k])
        /\ h[p].spi # NoFd => Kept(p, h[p].spi)
        /\ h[p].usb # NoFd => Kept(p, h[p].usb)
        /\ h[p].epoll # NoFd => Kept(p, h[p].epoll)
        /\ h[p].rflog # NoFd /\ ~opt[p].background => Kept(p, h[p].rflog)
    <3> DEFINE N == {h[p].chip}
    <3>1. \A n : n \notin N => Kept(p, n)
      BY <1>4, <2>1
    <3>2. \A n \in N : n = NoFd \/ KindOf(p, n) \in {"gpiochip"}
      BY <1>5 DEF KnownKinds
    <3> HIDE DEF N
    <3>3. QED
      BY <1>5, <3>1, <3>2 DEF KnownKinds
  <2>4. QED
    BY <2>2, <2>3, ContentsKept
<1>31. CASE CleanPins(p)
  <2>1. fdt'[p] = Closed(fdt[p], Range(h[p].pins))
    BY <1>31, <1>1 DEF CleanPins
  <2>2. /\ h'[p].instance = h[p].instance
        /\ h'[p].chip = h[p].chip
        /\ h'[p].socks = h[p].socks
        /\ h'[p].spi = h[p].spi
        /\ h'[p].usb = h[p].usb
        /\ h'[p].epoll = h[p].epoll
        /\ h'[p].rflog = h[p].rflog
        /\ opt' = opt /\ bus' = bus
        /\ h'[p].pins = <<>>
    BY <1>31, <1>1 DEF CleanPins, HandleType
  <2>3. /\ h[p].instance # NoFd => Kept(p, h[p].instance)
        /\ h[p].chip # NoFd => Kept(p, h[p].chip)
        /\ \A k \in Socks : h[p].socks[k] # NoFd => Kept(p, h[p].socks[k])
        /\ h[p].spi # NoFd => Kept(p, h[p].spi)
        /\ h[p].usb # NoFd => Kept(p, h[p].usb)
        /\ h[p].epoll # NoFd => Kept(p, h[p].epoll)
        /\ h[p].rflog # NoFd /\ ~opt[p].background => Kept(p, h[p].rflog)
    <3> DEFINE N == Range(h[p].pins)
    <3>1. \A n : n \notin N => Kept(p, n)
      BY <1>4, <2>1
    <3>2. \A n \in N : n = NoFd \/ KindOf(p, n) \in {"gpio"}
      BY <1>5 DEF KnownKinds, Range
    <3> HIDE DEF N
    <3>3. QED
      BY <1>5, <3>1, <3>2 DEF KnownKinds
  <2>4. QED
    BY <2>2, <2>3, ContentsKept
<1>32. CASE CleanRflog(p)
  <2>1. CASE fdt'[p] = Closed(fdt[p], {}) /\ h' = h
    <3>1. \A n : Kept(p, n)
      BY <1>4, <2>1
    <3>2. QED
      BY <1>32, <2>1, <3>1, ContentsKept DEF CleanRflog
  <2>2. CASE /\ fdt'[p] = Closed(fdt[p], {h[p].rflog})
             /\ h' = [h EXCEPT ![p] = [@ EXCEPT !.rflog = NoFd]]
    <3>1. /\ h'[p].instance = h[p].instance
          /\ h'[p].pins = h[p].pins
          /\ h'[p].chip = h[p].chip
          /\ h'[p].socks = h[p].socks
          /\ h'[p].spi = h[p].spi
          /\ h'[p].usb = h[p].usb
          /\ h'[p].epoll = h[p].epoll
          /\ opt' = opt /\ bus' = bus /\ h'[p].rflog = NoFd
      BY <1>32, <2>2, <1>1 DEF CleanRflog, HandleType
    <3>2. h[p].rflog # NoFd => ~opt[p].background
      <4>1. pc'[p] = [at |-> "cleanup", k |-> 5]
        BY <1>32, <1>1 DEF CleanRflog, Goto
      <4>2. ~(opt[p].background /\ opt[p].rflog)
        BY <3>1, <4>1 DEF Sound, Late, At
      <4>3. QED
        BY <4>2 DEF Owned, InstanceOwned
    <3>3. /\ h[p].instance # NoFd => Kept(p, h[p].instance)
          /\ \A i \in DOMAIN h[p].pins : Kept(p, h[p].pins[i])
          /\ h[p].chip # NoFd => Kept(p, h[p].chip)
          /\ \A k \in Socks : h[p].socks[k] # NoFd => Kept(p, h[p].socks[k])
          /\ h[p].spi # NoFd => Kept(p, h[p].spi)
          /\ h[p].usb # NoFd => Kept(p, h[p].usb)
          /\ h[p].epoll # NoFd => Kept(p, h[p].epoll)
      <4>1. \A n : n # h[p].rflog => Kept(p, n)
        BY <1>4, <2>2
      <4>2. QED
        BY <1>5, <3>2, <4>1 DEF KnownKinds
    <3>4. QED
      BY <3>1, <3>3, ContentsKept
  <2>3. QED
    BY <1>32, <2>1, <2>2, <1>1 DEF CleanRflog
<1>33. CASE CleanEpoll(p)
  <2>1. fdt'[p] = Closed(fdt[p], {h[p].epoll})
    BY <1>33, <1>1 DEF CleanEpoll
  <2>2. /\ h'[p].instance = h[p].instance
        /\ h'[p].pins = h[p].pins
        /\ h'[p].chip = h[p].chip
        /\ h'[p].socks = h[p].socks
        /\ h'[p].spi = h[p].spi
        /\ h'[p].usb = h[p].usb
        /\ h'[p].rflog = h[p].rflog
        /\ opt' = opt /\ bus' = bus
        /\ h'[p].epoll = NoFd
    BY <1>33, <1>1 DEF CleanEpoll, HandleType
  <2>3. /\ h[p].instance # NoFd => Kept(p, h[p].instance)
        /\ \A i \in DOMAIN h[p].pins : Kept(p, h[p].pins[i])
        /\ h[p].chip # NoFd => Kept(p, h[p].chip)
        /\ \A k \in Socks : h[p].socks[k] # NoFd => Kept(p, h[p].socks[k])
        /\ h[p].spi # NoFd => Kept(p, h[p].spi)
        /\ h[p].usb # NoFd => Kept(p, h[p].usb)
        /\ h[p].rflog # NoFd /\ ~opt[p].background => Kept(p, h[p].rflog)
    <3> DEFINE N == {h[p].epoll}
    <3>1. \A n : n \notin N => Kept(p, n)
      BY <1>4, <2>1
    <3>2. \A n \in N : n = NoFd \/ KindOf(p, n) \in {"epoll"}
      BY <1>5 DEF KnownKinds
    <3> HIDE DEF N
    <3>3. QED
      BY <1>5, <3>1, <3>2 DEF KnownKinds
  <2>4. QED
    BY <2>2, <2>3, ContentsKept
<1>34. CASE CleanSockets(p)
  <2>1. fdt'[p] = Closed(fdt[p], {}) /\ h' = h /\ opt' = opt /\ bus' = bus
    BY <1>34, <1>1 DEF CleanSockets
  <2>2. \A n : Kept(p, n)
    BY <1>4, <2>1
  <2>3. QED
    BY <2>1, <2>2, ContentsKept
<1>35. CASE CleanInstance(p)
  <2>1. fdt'[p] = Closed(fdt[p], {h[p].instance})
    BY <1>35, <1>1 DEF CleanInstance
  <2>2. /\ h'[p].pins = h[p].pins
        /\ h'[p].chip = h[p].chip
        /\ h'[p].socks = h[p].socks
        /\ h'[p].spi = h[p].spi
        /\ h'[p].usb = h[p].usb
        /\ h'[p].epoll = h[p].epoll
        /\ h'[p].rflog = h[p].rflog
        /\ opt' = opt /\ bus' = bus
        /\ h'[p].instance = NoFd
    BY <1>35, <1>1 DEF CleanInstance, HandleType
  <2>3. /\ \A i \in DOMAIN h[p].pins : Kept(p, h[p].pins[i])
        /\ h[p].chip # NoFd => Kept(p, h[p].chip)
        /\ \A k \in Socks : h[p].socks[k] # NoFd => Kept(p, h[p].socks[k])
        /\ h[p].spi # NoFd => Kept(p, h[p].spi)
        /\ h[p].usb # NoFd => Kept(p, h[p].usb)
        /\ h[p].epoll # NoFd => Kept(p, h[p].epoll)
        /\ h[p].rflog # NoFd /\ ~opt[p].background => Kept(p, h[p].rflog)
    <3> DEFINE N == {h[p].instance}
    <3>1. \A n : n \notin N => Kept(p, n)
      BY <1>4, <2>1
    <3>2. \A n \in N : n = NoFd \/ KindOf(p, n) \in {"instance"}
      BY <1>5 DEF KnownKinds
    <3> HIDE DEF N
    <3>3. QED
      BY <1>5, <3>1, <3>2 DEF KnownKinds
  <2>4. QED
    BY <2>2, <2>3, ContentsKept
<1>36. CASE SocketClose(p)
  <2> DEFINE k == pc[p].k
  <2>1. k \in Socks /\ fdt'[p] = Closed(fdt[p], {h[p].socks[k]})
    BY <1>36, <1>1 DEF SocketClose, At, ProcTypeOK
  <2>2. /\ h'[p].instance = h[p].instance
        /\ h'[p].pins = h[p].pins
        /\ h'[p].chip = h[p].chip
        /\ h'[p].spi = h[p].spi
        /\ h'[p].usb = h[p].usb
        /\ h'[p].epoll = h[p].epoll
        /\ h'[p].rflog = h[p].rflog
        /\ opt' = opt /\ bus' = bus
    BY <1>36, <1>1 DEF SocketClose, HandleType
  <2>3. /\ h'[p].socks[k] = NoFd
        /\ \A j \in Socks : j # k => h'[p].socks[j] = h[p].socks[j]
    BY <1>36, <1>1, <2>1 DEF SocketClose, HandleType
  <2> HIDE DEF k
  <2>4. /\ h[p].instance # NoFd => Kept(p, h[p].instance)
        /\ \A i \in DOMAIN h[p].pins : Kept(p, h[p].pins[i])
        /\ h[p].chip # NoFd => Kept(p, h[p].chip)
        /\ \A j \in Socks : h[p].socks[j] # NoFd /\ j # k => Kept(p, h[p].socks[j])
        /\ h[p].spi # NoFd => Kept(p, h[p].spi)
        /\ h[p].usb # NoFd => Kept(p, h[p].usb)
        /\ h[p].epoll # NoFd => Kept(p, h[p].epoll)
        /\ h[p].rflog # NoFd /\ ~opt[p].background => Kept(p, h[p].rflog)
    <3>1. \A n : n # h[p].socks[k] => Kept(p, n)
      BY <1>4, <2>1
    <3>2. QED
      BY <1>5, <2>1, <3>1 DEF KnownKinds
  <2>5. QED
    BY <2>2, <2>3, <2>4, ContentsKept
<1>37. CASE RemoveNext(p)
  <2>1. UNCHANGED <<h, fdt, opt, bus>> /\ \A n : Kept(p, n)
    BY <1>37 DEF RemoveNext, Kept
  <2>2. QED
    BY <2>1, ContentsKept
<1>38. CASE ReleaseInstance(p)
  <2>1. fdt'[p] = Closed(fdt[p], {h[p].instance})
    BY <1>38, <1>1 DEF ReleaseInstance
  <2>2. /\ h'[p].pins = h[p].pins
        /\ h'[p].chip = h[p].chip
        /\ h'[p].socks = h[p].socks
        /\ h'[p].spi = h[p].spi
        /\ h'[p].usb = h[p].usb
        /\ h'[p].epoll = h[p].epoll
        /\ h'[p].rflog = h[p].rflog
        /\ opt' = opt /\ bus' = bus
        /\ h'[p].instance = NoFd
    BY <1>38, <1>1 DEF ReleaseInstance, HandleType
  <2>3. /\ \A i \in DOMAIN h[p].pins : Kept(p, h[p].pins[i])
        /\ h[p].chip # NoFd => Kept(p, h[p].chip)
        /\ \A k \in Socks : h[p].socks[k] # NoFd => Kept(p, h[p].socks[k])
        /\ h[p].spi # NoFd => Kept(p, h[p].spi)
        /\ h[p].usb # NoFd => Kept(p, h[p].usb)
        /\ h[p].epoll # NoFd => Kept(p, h[p].epoll)
        /\ h[p].rflog # NoFd /\ ~opt[p].background => Kept(p, h[p].rflog)
    <3> DEFINE N == {h[p].instance}
    <3>1. \A n : n \notin N => Kept(p, n)
      BY <1>4, <2>1
    <3>2. \A n \in N : n = NoFd \/ KindOf(p, n) \in {"instance"}
      BY <1>5 DEF KnownKinds
    <3> HIDE DEF N
    <3>3. QED
      BY <1>5, <3>1, <3>2 DEF KnownKinds
  <2>4. QED
    BY <2>2, <2>3, ContentsKept
<1>39. QED
  BY <1>7, <1>8, <1>9, <1>10, <1>11, <1>12, <1>13, <1>14, <1>15, <1>16, <1>17,
     <1>18, <1>19, <1>20, <1>21, <1>22, <1>23, <1>24, <1>25, <1>26, <1>27,
     <1>28, <1>29, <1>30, <1>31, <1>32, <1>33, <1>34, <1>35, <1>36, <1>37,
     <1>38 DEF Step

-----------------------------------------------------------------------------
(* The theorems.                                                           *)

Inv == ProcTypeOK /\ TableInv /\ LocksExclusive /\ HandleInv

\* The inductive invariant holds when nothing runs.
LEMMA InvStart ==
    ASSUME Init
    PROVE  Inv
<1>1. ProcTypeOK
  <2>1. NoHandles \in HandleType
    <3>1. <<>> \in Seq(Nat) /\ [k \in Socks |-> NoFd] \in [Socks -> Nat]
      BY DEF NoFd
    <3>2. QED
      BY <3>1 DEF NoHandles, HandleType, NoFd
  <2>2. QED
    BY <2>1 DEF Init, ProcTypeOK, StepNames, At
<1>2. TableInv /\ LocksExclusive
  BY FS_EmptySet DEF Init, TableInv, IsTable, LocksExclusive
<1>3. HandleInv
  <2> SUFFICES ASSUME NEW p \in Procs PROVE Owned(p) /\ Contents(p)
    BY DEF HandleInv
  <2>1. /\ h[p] = NoHandles /\ pc[p] = [at |-> "off", k |-> 0]
        /\ drives[p] = {} /\ bus[p] = FALSE
    BY DEF Init
  <2>2. RadioOwned(p)
    BY <2>1 DEF RadioOwned, NoHandles, At, Early
  <2>3. PinsOwned(p)
    BY <2>1 DEF PinsOwned, NoHandles, At, Early, Serving
  <2>4. SocksOwned(p) /\ InstanceOwned(p)
    BY <2>1 DEF SocksOwned, InstanceOwned, SocksClosed, NoHandles, At, Early
  <2>5. Contents(p)
    BY <2>1 DEF Contents, NoHandles
  <2>6. QED
    BY <2>2, <2>3, <2>4, <2>5 DEF Owned
<1>4. QED
  BY <1>1, <1>2, <1>3 DEF Inv

\* The handles of every process, across any step.
LEMMA HandlesStep ==
    ASSUME LaunchesAssumption, ProcTypeOK, TableInv, HandleInv,
           NEW p \in Procs, Step(p)
    PROVE  HandleInv'
<1> SUFFICES ASSUME NEW q \in Procs
             PROVE  (Owned(q) /\ (Sound(q) => Contents(q)))'
  BY DEF HandleInv
<1>1. Owned(q) /\ (Sound(q) => Contents(q))
  BY DEF HandleInv
<1>2. CASE q # p
  <2>1. UNCHANGED Own(q)
    BY <1>2, OthersKept
  <2>2. QED
    BY <1>1, <2>1, OthersOwn
<1>3. CASE q = p
  <2>1. Owned(p)'
    BY <1>1, <1>3, RadioOwnedStep, PinsOwnedStep, SocksOwnedStep,
       InstanceOwnedStep DEF Owned
  <2>2. ASSUME Sound(p)' PROVE Contents(p)'
    <3>1. CASE Ends(p)
      <4>1. h'[p] = NoHandles
        BY <3>1 DEF Ends, ProcTypeOK
      <4>2. QED
        BY <4>1 DEF Contents, NoHandles
    <3>2. CASE \E l \in Launches : Launch(p, l)
      <4>1. h'[p] = h[p] /\ At(p, "off")
        BY <3>2 DEF Launch
      <4>2. QED
        BY <1>1, <1>3, <4>1, NothingKnown DEF At, Contents
    <3>3. CASE ~(Ends(p) \/ \E l \in Launches : Launch(p, l))
      BY <1>1, <1>3, <2>2, <3>3, SoundBefore, ContentsStep
    <3>4. QED
      BY <3>1, <3>2, <3>3
  <2>3. QED
    BY <1>3, <2>1, <2>2
<1>4. QED
  BY <1>2, <1>3

\* The inductive invariant, across any step.
LEMMA InvStep ==
    ASSUME LaunchesAssumption, Inv, [Next]_vars
    PROVE  Inv'
<1>1. CASE UNCHANGED vars
  <2>1. ProcTypeOK' /\ TableInv' /\ LocksExclusive'
    BY <1>1 DEF Inv, vars, ProcTypeOK, TableInv, LocksExclusive, At
  <2>2. HandleInv'
    BY <1>1, OthersOwn DEF Inv, vars, HandleInv, Own
  <2>3. QED
    BY <2>1, <2>2 DEF Inv
<1>2. ASSUME NEW p \in Procs, Step(p) PROVE Inv'
  BY <1>2, TypesStep, TablesStep, LocksStep, HandlesStep DEF Inv
<1>3. QED
  BY <1>1, <1>2, Steps DEF Inv

\* A process that drives a line holds its pin lock, one on the bus the bus
\* lock.
LEMMA DriverHasLock ==
    ASSUME ProcTypeOK, HandleInv, NEW p \in Procs
    PROVE  /\ \A x \in drives[p] : \E n \in DOMAIN fdt[p] :
                 fdt[p][n] = Locked(PinFile(x))
           /\ bus[p] => \E n \in DOMAIN fdt[p] :
                 fdt[p][n] = [SpiFile EXCEPT !.locked = TRUE]
<1>1. ASSUME NEW x \in drives[p]
      PROVE  \E n \in DOMAIN fdt[p] : fdt[p][n] = Locked(PinFile(x))
  <2>1. PinsOwned(p) /\ drives[p] # {} /\ pc[p].at \in StepNames /\ pc[p].k \in Nat
    BY <1>1 DEF HandleInv, Owned, ProcTypeOK
  <2>2. /\ Len(h[p].pins) = Len(opt[p].pins) /\ Sound(p)
        /\ \E i \in 1..Len(opt[p].pins) : x = opt[p].pins[i]
    <3>1. \/ pc[p].at \in Serving \union {"unlink", "bind"}
          \/ At(p, "cleanup") /\ pc[p].k <= 3
      BY <2>1 DEF PinsOwned, StepNames, Early, At
    <3>2. Len(h[p].pins) = Len(opt[p].pins)
      BY <2>1, <3>1 DEF PinsOwned
    <3>3. Sound(p)
      BY <2>1, <3>1 DEF Sound, Late, Serving, At
    <3>4. QED
      BY <1>1, <2>1, <3>2, <3>3 DEF PinsOwned
  <2>3. h[p].pins \in Seq(Nat)
    BY DEF ProcTypeOK, HandleType
  <2>4. PICK i \in DOMAIN h[p].pins : x = opt[p].pins[i]
    BY <2>2, <2>3
  <2>5. Has(p, h[p].pins[i], Locked(PinFile(x)))
    BY <2>2, <2>4 DEF HandleInv, Contents
  <2>6. QED
    BY <2>5 DEF Has
<1>2. ASSUME bus[p]
      PROVE  \E n \in DOMAIN fdt[p] : fdt[p][n] = [SpiFile EXCEPT !.locked = TRUE]
  <2>1. h[p].spi # NoFd /\ Sound(p) /\ bus[p] = TRUE
    <3>1. RadioOwned(p) /\ bus[p] \in BOOLEAN
      BY DEF HandleInv, Owned, ProcTypeOK
    <3>2. QED
      BY <1>2, <3>1 DEF RadioOwned, Sound, Late, At
  <2>2. Has(p, h[p].spi, [SpiFile EXCEPT !.locked = bus[p]])
    BY <2>1 DEF HandleInv, Contents
  <2>3. QED
    BY <2>1, <2>2 DEF Has
<1>3. QED
  BY <1>1, <1>2

\* Whatever is started, stopped and killed, in whatever order: two processes
\* never drive the same GPIO line and are never on the SPI bus at once,
\* because the descriptor numbers the cleanup closes are still the ones it
\* means.
THEOREM OneDriverPerLine == Spec => []HardwareExclusive
<1>1. Inv => HardwareExclusive
  <2> SUFFICES ASSUME Inv, NEW p \in Procs, NEW q \in Procs, p # q
               PROVE  /\ drives[p] \intersect drives[q] = {}
                      /\ ~(bus[p] /\ bus[q])
    BY DEF HardwareExclusive
  <2>1. ASSUME NEW x \in drives[p], x \in drives[q] PROVE FALSE
    <3>1. PICK n \in DOMAIN fdt[p] : fdt[p][n] = Locked(PinFile(x))
      BY DriverHasLock DEF Inv
    <3>2. PICK m \in DOMAIN fdt[q] : fdt[q][m] = Locked(PinFile(x))
      BY <2>1, DriverHasLock DEF Inv
    <3>3. Locked(PinFile(x)).locked
      BY DEF Locked, PinFile, Desc
    <3>4. QED
      BY <3>1, <3>2, <3>3 DEF Inv, LocksExclusive
  <2>2. ASSUME bus[p], bus[q] PROVE FALSE
    <3>1. PICK n \in DOMAIN fdt[p] : fdt[p][n] = [SpiFile EXCEPT !.locked = TRUE]
      BY <2>2, DriverHasLock DEF Inv
    <3>2. PICK m \in DOMAIN fdt[q] : fdt[q][m] = [SpiFile EXCEPT !.locked = TRUE]
      BY <2>2, DriverHasLock DEF Inv
    <3>3. [SpiFile EXCEPT !.locked = TRUE].locked
      BY DEF SpiFile, Desc
    <3>4. QED
      BY <3>1, <3>2, <3>3 DEF Inv, LocksExclusive
  <2>3. QED
    BY <2>1, <2>2
<1>2. Init => Inv
  BY InvStart
<1>3. Inv /\ [Next]_vars => Inv'
  BY InvStep, LaunchesAssumption
<1>4. QED
  BY <1>1, <1>2, <1>3, PTL DEF Spec

\* A flock is held through one description of one process, across exits,
\* crashes and numbers handed out again.
THEOREM OneHolderPerLock == Spec => []LocksExclusive
<1>1. Init => Inv
  BY InvStart
<1>2. Inv /\ [Next]_vars => Inv'
  BY InvStep, LaunchesAssumption
<1>3. Inv => LocksExclusive
  BY DEF Inv
<1>4. QED
  BY <1>1, <1>2, <1>3, PTL DEF Spec

-----------------------------------------------------------------------------
(* The socket names.                                                       *)

\* No command line asks for the background and for an RF log: a process that
\* does both forgets that its RF log is closed (module Startup,
\* RflogGoesToItsFile), and may close the instance lock in its place.
RflogSurvives == \A l \in Launches : ~(l.background /\ l.rflog)

\* Two processes past the instance lock are two instances.
LEMMA InstancesApart ==
    ASSUME RflogSurvives, ProcTypeOK, HandleInv, LocksExclusive,
           NEW p \in Procs, NEW q \in Procs, p # q,
           h[p].instance # NoFd, h[q].instance # NoFd
    PROVE  opt[p].id # opt[q].id
<1>1. ASSUME NEW r \in Procs, h[r].instance # NoFd
      PROVE  Has(r, h[r].instance, Locked(InstanceFile(r)))
  <2>1. opt[r] \in Launches
    BY <1>1 DEF HandleInv, Owned, InstanceOwned, Early, ProcTypeOK, At
  <2>2. Sound(r)
    BY <2>1 DEF Sound, RflogSurvives
  <2>3. QED
    BY <1>1, <2>2 DEF HandleInv, Contents
<1>2. \A r : /\ Locked(InstanceFile(r)).locked
             /\ Locked(InstanceFile(r)).file = <<"instance", opt[r].id, 0>>
  BY DEF Locked, InstanceFile, Desc
<1>3. Has(p, h[p].instance, Locked(InstanceFile(p)))
  BY <1>1
<1>4. Has(q, h[q].instance, Locked(InstanceFile(q)))
  BY <1>1
<1>5. QED
  BY <1>2, <1>3, <1>4 DEF LocksExclusive, Has

\* A name that leads to a listener is left alone by everyone else.
LEMMA OtherNamesKept ==
    ASSUME RflogSurvives, ProcTypeOK, TableInv, HandleInv, LocksExclusive,
           NEW p \in Procs, Step(p), NEW q \in Procs, q # p, NEW k \in Socks,
           h[q].socks[k] # NoFd, node[<<opt[q].id, k>>] = q
    PROVE  node'[<<opt[q].id, k>>] = q
<1>1. h[q].instance # NoFd /\ ~At(q, "off")
  BY DEF HandleInv, Owned, InstanceOwned, SocksOwned, SocksClosed, Early, At
<1>2. pc[p].at \in {"unlink", "bind", "close", "remove"} =>
          h[p].instance # NoFd /\ opt[p].id # opt[q].id
  <2>1. pc[p].at \in {"unlink", "bind", "close", "remove"} => h[p].instance # NoFd
    BY DEF HandleInv, Owned, InstanceOwned, Early
  <2>2. QED
    BY <1>1, <2>1, InstancesApart
<1>3. node = [x \in Ids \X Socks |-> node[x]] /\ <<opt[q].id, k>> \in Ids \X Socks
  BY <1>1 DEF ProcTypeOK, Ids
<1>4. CASE Ends(p)
  BY <1>4, <1>2, <1>3 DEF Ends, At, Goto
<1>5. ASSUME NEW l \in Launches, Launch(p, l) PROVE node'[<<opt[q].id, k>>] = q
  BY <1>5, <1>2, <1>3 DEF Launch, At, Goto
<1>6. CASE ParseArgs(p)
  BY <1>6, <1>2, <1>3 DEF ParseArgs, RflogStart, At, Goto
<1>7. CASE EnterBackground(p)
  BY <1>7, <1>2, <1>3 DEF EnterBackground, At, Goto
<1>8. CASE StampInstall(p)
  BY <1>8, <1>2, <1>3 DEF StampInstall, At, Goto
<1>9. CASE InstanceLockAcquire(p)
  BY <1>9, <1>2, <1>3 DEF InstanceLockAcquire, At, Goto
<1>10. CASE PinLock(p)
  BY <1>10, <1>2, <1>3 DEF PinLock, At, Goto
<1>11. CASE LedInit(p)
  BY <1>11, <1>2, <1>3 DEF LedInit, PinsDone, At, Goto
<1>12. CASE NoPins(p)
  BY <1>12, <1>2, <1>3 DEF NoPins, PinsDone, At, Goto
<1>13. CASE PinsFail(p)
  BY <1>13, <1>2, <1>3 DEF PinsFail, At, Goto
<1>14. CASE PreparePath(p)
  BY <1>14, <1>2, <1>3 DEF PreparePath, At, Goto
<1>15. CASE Bind(p)
  BY <1>15, <1>2, <1>3 DEF Bind, At, Goto
<1>16. CASE BindFails(p)
  BY <1>16, <1>2, <1>3 DEF BindFails, Cleanup, At, Goto
<1>17. CASE UsbOpens(p)
  BY <1>17, <1>2, <1>3 DEF UsbOpens, At, Goto
<1>18. CASE PiOpens(p)
  BY <1>18, <1>2, <1>3 DEF PiOpens, At, Goto
<1>19. CASE RadioReady(p)
  BY <1>19, <1>2, <1>3 DEF RadioReady, At, Goto
<1>20. CASE RadioFails(p)
  BY <1>20, <1>2, <1>3 DEF RadioFails, Cleanup, At, Goto
<1>21. CASE SpiBegin(p)
  BY <1>21, <1>2, <1>3 DEF SpiBegin, Touches, At, Goto
<1>22. CASE SpiEnd(p)
  BY <1>22, <1>2, <1>3 DEF SpiEnd, At, Goto
<1>23. CASE EpollInit(p)
  BY <1>23, <1>2, <1>3 DEF EpollInit, At, Goto
<1>24. CASE EpollFails(p)
  BY <1>24, <1>2, <1>3 DEF EpollFails, Cleanup, At, Goto
<1>25. CASE Stop(p)
  BY <1>25, <1>2, <1>3 DEF Stop, Cleanup, At, Goto
<1>26. CASE CleanRadio(p)
  BY <1>26, <1>2, <1>3 DEF CleanRadio, At, Goto
<1>27. CASE CleanLed(p)
  BY <1>27, <1>2, <1>3 DEF CleanLed, At, Goto
<1>28. CASE CleanPins(p)
  BY <1>28, <1>2, <1>3 DEF CleanPins, At, Goto
<1>29. CASE CleanRflog(p)
  BY <1>29, <1>2, <1>3 DEF CleanRflog, At, Goto
<1>30. CASE CleanEpoll(p)
  BY <1>30, <1>2, <1>3 DEF CleanEpoll, At, Goto
<1>31. CASE CleanSockets(p)
  BY <1>31, <1>2, <1>3 DEF CleanSockets, At, Goto
<1>32. CASE CleanInstance(p)
  BY <1>32, <1>2, <1>3 DEF CleanInstance, At, Goto
<1>33. CASE SocketClose(p)
  BY <1>33, <1>2, <1>3 DEF SocketClose, At, Goto
<1>34. CASE RemoveNext(p)
  BY <1>34, <1>2, <1>3 DEF RemoveNext, At, Goto
<1>35. CASE ReleaseInstance(p)
  BY <1>35, <1>2, <1>3 DEF ReleaseInstance, At, Goto
<1>36. QED
  BY <1>4, <1>5, <1>6, <1>7, <1>8, <1>9, <1>10, <1>11, <1>12, <1>13, <1>14,
     <1>15, <1>16, <1>17, <1>18, <1>19, <1>20, <1>21, <1>22, <1>23, <1>24,
     <1>25, <1>26, <1>27, <1>28, <1>29, <1>30, <1>31, <1>32, <1>33, <1>34,
     <1>35 DEF Step

\* A listener's own name.
LEMMA OwnNameKept ==
    ASSUME ProcTypeOK, HandleInv, SocketNamesHold, NEW p \in Procs, Step(p),
           NEW k \in Socks, h'[p].socks[k] # NoFd
    PROVE  node'[<<opt'[p].id, k>>] = p
<1>1. /\ h \in [Procs -> HandleType] /\ node = [x \in Ids \X Socks |-> node[x]]
      /\ opt = [q \in Procs |-> opt[q]]
      /\ ~At(p, "off") => opt[p].id \in Ids
  BY DEF ProcTypeOK, Ids
<1>2. h[p].socks[k] # NoFd => node[<<opt[p].id, k>>] = p
  BY DEF SocketNamesHold
<1>3. /\ At(p, "off") => h[p].socks[k] = NoFd
      /\ At(p, "unlink") /\ k = pc[p].k => h[p].socks[k] = NoFd
      /\ At(p, "remove") /\ k = pc[p].k => h[p].socks[k] = NoFd
      /\ pc[p].at \in {"unlink", "bind", "close", "remove"} => pc[p].k \in Socks
  BY DEF HandleInv, Owned, SocksOwned, SocksClosed, Early, At, ProcTypeOK,
     Socks
<1>4. CASE Ends(p)
  BY <1>4, <1>1, <1>2, <1>3 DEF Ends, At, Goto, HandleType, NoHandles
<1>5. ASSUME NEW l \in Launches, Launch(p, l) PROVE node'[<<opt'[p].id, k>>] = p
  BY <1>5, <1>1, <1>2, <1>3 DEF Launch, At, Goto, HandleType
<1>6. CASE ParseArgs(p)
  BY <1>6, <1>1, <1>2, <1>3 DEF ParseArgs, RflogStart, At, Goto, HandleType
<1>7. CASE EnterBackground(p)
  BY <1>7, <1>1, <1>2, <1>3 DEF EnterBackground, At, Goto, HandleType
<1>8. CASE StampInstall(p)
  BY <1>8, <1>1, <1>2, <1>3 DEF StampInstall, At, Goto, HandleType
<1>9. CASE InstanceLockAcquire(p)
  BY <1>9, <1>1, <1>2, <1>3 DEF InstanceLockAcquire, At, Goto, HandleType
<1>10. CASE PinLock(p)
  BY <1>10, <1>1, <1>2, <1>3 DEF PinLock, At, Goto, HandleType
<1>11. CASE LedInit(p)
  BY <1>11, <1>1, <1>2, <1>3 DEF LedInit, PinsDone, At, Goto, HandleType
<1>12. CASE NoPins(p)
  BY <1>12, <1>1, <1>2, <1>3 DEF NoPins, PinsDone, At, Goto, HandleType
<1>13. CASE PinsFail(p)
  BY <1>13, <1>1, <1>2, <1>3 DEF PinsFail, At, Goto, HandleType
<1>14. CASE PreparePath(p)
  BY <1>14, <1>1, <1>2, <1>3 DEF PreparePath, At, Goto, HandleType
<1>15. CASE Bind(p)
  BY <1>15, <1>1, <1>2, <1>3 DEF Bind, At, Goto, HandleType
<1>16. CASE BindFails(p)
  BY <1>16, <1>1, <1>2, <1>3 DEF BindFails, Cleanup, At, Goto, HandleType
<1>17. CASE UsbOpens(p)
  BY <1>17, <1>1, <1>2, <1>3 DEF UsbOpens, At, Goto, HandleType
<1>18. CASE PiOpens(p)
  BY <1>18, <1>1, <1>2, <1>3 DEF PiOpens, At, Goto, HandleType
<1>19. CASE RadioReady(p)
  BY <1>19, <1>1, <1>2, <1>3 DEF RadioReady, At, Goto, HandleType
<1>20. CASE RadioFails(p)
  BY <1>20, <1>1, <1>2, <1>3 DEF RadioFails, Cleanup, At, Goto, HandleType
<1>21. CASE SpiBegin(p)
  BY <1>21, <1>1, <1>2, <1>3 DEF SpiBegin, Touches, At, Goto, HandleType
<1>22. CASE SpiEnd(p)
  BY <1>22, <1>1, <1>2, <1>3 DEF SpiEnd, At, Goto, HandleType
<1>23. CASE EpollInit(p)
  BY <1>23, <1>1, <1>2, <1>3 DEF EpollInit, At, Goto, HandleType
<1>24. CASE EpollFails(p)
  BY <1>24, <1>1, <1>2, <1>3 DEF EpollFails, Cleanup, At, Goto, HandleType
<1>25. CASE Stop(p)
  BY <1>25, <1>1, <1>2, <1>3 DEF Stop, Cleanup, At, Goto, HandleType
<1>26. CASE CleanRadio(p)
  BY <1>26, <1>1, <1>2, <1>3 DEF CleanRadio, At, Goto, HandleType
<1>27. CASE CleanLed(p)
  BY <1>27, <1>1, <1>2, <1>3 DEF CleanLed, At, Goto, HandleType
<1>28. CASE CleanPins(p)
  BY <1>28, <1>1, <1>2, <1>3 DEF CleanPins, At, Goto, HandleType
<1>29. CASE CleanRflog(p)
  <2>1. h'[p].socks = h[p].socks /\ opt' = opt /\ node' = node
    BY <1>29, <1>1 DEF CleanRflog, HandleType
  <2>2. QED
    BY <1>2, <2>1
<1>30. CASE CleanEpoll(p)
  BY <1>30, <1>1, <1>2, <1>3 DEF CleanEpoll, At, Goto, HandleType
<1>31. CASE CleanSockets(p)
  BY <1>31, <1>1, <1>2, <1>3 DEF CleanSockets, At, Goto, HandleType
<1>32. CASE CleanInstance(p)
  BY <1>32, <1>1, <1>2, <1>3 DEF CleanInstance, At, Goto, HandleType
<1>33. CASE SocketClose(p)
  BY <1>33, <1>1, <1>2, <1>3 DEF SocketClose, At, Goto, HandleType
<1>34. CASE RemoveNext(p)
  BY <1>34, <1>1, <1>2, <1>3 DEF RemoveNext, At, Goto, HandleType
<1>35. CASE ReleaseInstance(p)
  BY <1>35, <1>1, <1>2, <1>3 DEF ReleaseInstance, At, Goto, HandleType
<1>36. QED
  BY <1>4, <1>5, <1>6, <1>7, <1>8, <1>9, <1>10, <1>11, <1>12, <1>13, <1>14,
     <1>15, <1>16, <1>17, <1>18, <1>19, <1>20, <1>21, <1>22, <1>23, <1>24,
     <1>25, <1>26, <1>27, <1>28, <1>29, <1>30, <1>31, <1>32, <1>33, <1>34,
     <1>35 DEF Step

\* Without a background process that keeps an RF log, the name of every
\* listener leads to it, from its bind to its close, whatever other processes
\* are started, stopped or killed.
THEOREM NamesLeadToListeners ==
    ASSUME RflogSurvives
    PROVE  Spec => []SocketNamesHold
<1>1. Init => Inv
  BY InvStart
<1>2. Inv /\ [Next]_vars => Inv'
  BY InvStep, LaunchesAssumption
<1>3. Init => SocketNamesHold
  BY DEF Init, SocketNamesHold, NoHandles
<1>4. Inv /\ SocketNamesHold /\ [Next]_vars => SocketNamesHold'
  <2> SUFFICES ASSUME Inv, SocketNamesHold, [Next]_vars,
                      NEW q \in Procs, NEW k \in Socks, h'[q].socks[k] # NoFd
               PROVE  node'[<<opt'[q].id, k>>] = q
    BY DEF SocketNamesHold
  <2>1. CASE UNCHANGED vars
    BY <2>1 DEF vars, SocketNamesHold
  <2>2. ASSUME NEW p \in Procs, Step(p) PROVE node'[<<opt'[q].id, k>>] = q
    <3>1. CASE q = p
      BY <2>2, <3>1, OwnNameKept DEF Inv
    <3>2. CASE q # p
      <4>1. h'[q] = h[q] /\ opt'[q] = opt[q]
        BY <2>2, <3>2, OthersKept DEF Inv, Own
      <4>2. node[<<opt[q].id, k>>] = q
        BY <4>1 DEF SocketNamesHold
      <4>3. QED
        BY <2>2, <3>2, <4>1, <4>2, OtherNamesKept DEF Inv
    <3>3. QED
      BY <3>1, <3>2
  <2>3. QED
    BY <2>1, <2>2, Steps DEF Inv
<1>5. QED
  BY <1>1, <1>2, <1>3, <1>4, PTL DEF Spec
==============================================================================
