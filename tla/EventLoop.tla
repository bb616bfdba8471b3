----------------------------- MODULE EventLoop -----------------------------
(***************************************************************************)
(* The main loop's descriptors: listeners, client slots and the Meshstick  *)
(* monitor's pollfds, the registration table that follows them, and the    *)
(* kernel's side of it (descriptor numbers, which are reused lowest first, *)
(* the epoll interest list, the ready set of one wait).                    *)
(*                                                                         *)
(* One pass is: wait, USB tick, accept (one per listener), the reads slot  *)
(* by slot, flush, RX and monitoring broadcasts, reconcile.  What a read   *)
(* means is left to the other modules; here it takes what the peer sent    *)
(* and may leave output queued or close the slot.  The TX worker's thread  *)
(* appears as the one thing it does to descriptors: the RF log's rollover  *)
(* opens <path>.1, a regular file, for a moment.                           *)
(***************************************************************************)
EXTENDS Naturals, FiniteSets, Sequences

CONSTANTS
    Listeners,       \* number of listening sockets (3: DATA, DATAF, CONF)
    MaxClients,      \* MAX_CLIENTS per listener (10)
    MaxConns,        \* bound: connections made
    MaxUsb,          \* bound: the monitor's pollfds (16)
    MaxRegistered,   \* EVENT_LOOP_EPOLL_MAX_REGISTERED_FDS (128)
    FdLimit          \* descriptor numbers (RLIMIT_NOFILE)

\* The table holds the descriptors of one pass and those of the pass before
\* that have since been closed.
ASSUME SizesAssumption ==
    /\ {Listeners, MaxClients, MaxUsb, FdLimit} \subseteq Nat \ {0}
    /\ {MaxConns, MaxRegistered} \subseteq Nat
    /\ MaxRegistered >= 2 * Listeners + Listeners * MaxClients + 2 * MaxUsb
    /\ FdLimit > Listeners * (MaxClients + 1) + MaxUsb

VARIABLES
    fdt,        \* the process's descriptors: number -> open file
    interest,   \* the epoll set: number -> [file, events]
    regs,       \* the registration table
    slots,      \* client slots: [fd, generation, pending output]
    inbox,      \* per connection: what its peer has sent
    backlog,    \* per listener: connections not yet accepted
    usb,        \* descriptors of the monitor's libusb handles
    rolling,    \* the descriptor of <rflog>.1, or NoFd
    ready,      \* the ready set of this pass
    stuck,      \* registration_errno: "none" or why
    pc, cursor  \* phase of the pass; listener or slot it is at

vars == <<fdt, interest, regs, slots, inbox, backlog, usb, rolling, ready,
          stuck, pc, cursor>>
kernelVars == <<fdt, interest>>
peerVars == <<inbox, backlog>>

Fds == 1..FdLimit
NoFd == 0
Conns == 1..MaxConns
Ls == 1..Listeners
Slots == 1..(Listeners * MaxClients)
SlotsOf(l) == ((l - 1) * MaxClients + 1)..(l * MaxClients)

\* Open files: listener l, connection c, a libusb handle, a regular file.
Listening(l) == [kind |-> "listen", id |-> l]
Client(c) == [kind |-> "client", id |-> c]
Handle == [kind |-> "usb", id |-> 0]
Regular == [kind |-> "file", id |-> 0]
Closed == [kind |-> "none", id |-> 0]
NoInterest == [file |-> Closed, events |-> {}]

\* The libusb context's own descriptor, open as long as the monitor is.
MonFd == Listeners + 1

Free == [fd |-> NoFd, generation |-> 1, pending |-> FALSE]

Init ==
    /\ usb \in {{}, {MonFd}}                  \* a Pi radio, or a Meshstick
    /\ fdt = [n \in Fds |-> IF n \in Ls THEN Listening(n)
                            ELSE IF n \in usb THEN Handle ELSE Closed]
    /\ interest = [n \in Fds |-> NoInterest]
    /\ regs = {}
    /\ slots = [i \in Slots |-> Free]
    /\ inbox = [c \in Conns |-> "unmade"]
    /\ backlog = [l \in Ls |-> <<>>]
    /\ rolling = NoFd /\ ready = {} /\ stuck = "none"
    /\ pc = "sync" /\ cursor = 1

-----------------------------------------------------------------------------
(* The kernel.                                                             *)

FreeFds == {n \in Fds : fdt[n] = Closed}
Lowest(S) == CHOOSE n \in S : \A m \in S : n <= m

Opened(n, f) == [fdt EXCEPT ![n] = f]

\* close(): the number is free and the file leaves the interest list.
AfterClose(S) == [n \in Fds |-> IF n \in S THEN Closed ELSE fdt[n]]
InterestAfterClose(S) ==
    [n \in Fds |-> IF n \in S THEN NoInterest ELSE interest[n]]

\* Read readiness of a watched file.
Readable(n) ==
    LET f == interest[n].file IN
    /\ "read" \in interest[n].events
    /\ \/ f.kind = "listen" /\ backlog[f.id] # <<>>
       \/ f.kind = "client" /\ inbox[f.id] \in {"data", "eof"}

-----------------------------------------------------------------------------
(* Peers, libusb and the RF log.                                           *)

Connect(c, l) ==
    /\ inbox[c] = "unmade" /\ \A d \in Conns : d < c => inbox[d] # "unmade"
    /\ inbox' = [inbox EXCEPT ![c] = "quiet"]
    /\ backlog' = [backlog EXCEPT ![l] = Append(@, c)]
    /\ UNCHANGED <<kernelVars, regs, slots, usb, rolling, ready, stuck, pc,
                   cursor>>

PeerSends(c, what) ==
    /\ inbox[c] = "quiet"
    /\ inbox' = [inbox EXCEPT ![c] = what]
    /\ UNCHANGED <<kernelVars, regs, slots, backlog, usb, rolling, ready,
                   stuck, pc, cursor>>

\* rflog_copy_to_previous on the TX worker's thread: open and close of a
\* regular file at any moment of the pass.
RollBegins ==
    /\ rolling = NoFd /\ FreeFds # {}
    /\ LET n == Lowest(FreeFds) IN
         /\ rolling' = n
         /\ fdt' = Opened(n, Regular)
    /\ UNCHANGED <<interest, regs, slots, peerVars, usb, ready, stuck, pc,
                   cursor>>

RollEnds ==
    /\ rolling # NoFd
    /\ fdt' = AfterClose({rolling})
    /\ rolling' = NoFd
    /\ UNCHANGED <<interest, regs, slots, peerVars, usb, ready, stuck, pc,
                   cursor>>

-----------------------------------------------------------------------------
(* One pass of daemon_process_loop_iteration.                              *)

\* event_loop_wait: at most MaxRegistered events (EVENT_LOOP_EPOLL_MAX_EVENTS
\* is as large), so nothing that is ready is left out.  Write readiness is
\* the peer's to give; the handle of an unplugged stick reports EPOLLHUP,
\* which event_loop_epoll_ready_fd_read takes for input.  (The context's own
\* descriptor only ends the wait: nothing asks for its readiness.)
Wait ==
    /\ pc = "wait" /\ stuck = "none"
    /\ \E writable \in SUBSET {n \in Fds : "write" \in interest[n].events},
          hungUp \in SUBSET {n \in usb \ {MonFd} : interest[n].file = Handle} :
          ready' = {[fd |-> n, event |-> "read"] :
                       n \in hungUp \union {m \in Fds : Readable(m)}}
                   \union {[fd |-> n, event |-> "write"] : n \in writable}
    /\ pc' = "usb" /\ cursor' = 1
    /\ UNCHANGED <<kernelVars, regs, slots, peerVars, usb, rolling, stuck>>

\* event_loop_wait returns -1 with EINTR: the pass ends (the stop flag is
\* looked at by the caller; shutting down is module Startup's).
WaitInterrupted ==
    /\ pc = "wait" /\ stuck = "none"
    /\ ready' = {}
    /\ UNCHANGED <<kernelVars, regs, slots, peerVars, usb, rolling, stuck, pc,
                   cursor>>

\* A registration error is terminal: perror and request_stop.
WaitRefuses ==
    /\ pc = "wait" /\ stuck # "none"
    /\ pc' = "stopped"
    /\ UNCHANGED <<kernelVars, regs, slots, peerVars, usb, rolling, ready,
                   stuck, cursor>>

\* daemon_usb_wait_tick: the scan and the selection open and close device
\* handles on the monitor's context.
UsbTick ==
    /\ pc = "usb"
    /\ \/ UNCHANGED <<fdt, interest, usb>>
       \/ /\ usb # {} /\ Cardinality(usb) < MaxUsb /\ FreeFds # {}
          /\ fdt' = Opened(Lowest(FreeFds), Handle)
          /\ usb' = usb \union {Lowest(FreeFds)}
          /\ UNCHANGED interest
       \/ \E n \in usb \ {MonFd} :
            /\ fdt' = AfterClose({n})
            /\ interest' = InterestAfterClose({n})
            /\ usb' = usb \ {n}
       \/ \E n \in usb \ {MonFd} :      \* closed, and the next one gets its number
            /\ n = Lowest(FreeFds \union {n})
            /\ interest' = InterestAfterClose({n})
            /\ UNCHANGED <<fdt, usb>>
    /\ pc' = "accept"
    /\ UNCHANGED <<regs, slots, peerVars, rolling, ready, stuck, cursor>>

ReadyFor(n, e) == [fd |-> n, event |-> e] \in ready
HasClient(i) == slots[i].fd # NoFd

\* radio_channel_accept_ready, one listener at a time: one accept() each.
\* The connection may be gone (EAGAIN), the descriptors used up (EMFILE), or
\* every slot taken: then it is closed again.
AcceptStep ==
    /\ pc = "accept" /\ cursor <= Listeners
    /\ LET l == cursor
           vacant == {i \in SlotsOf(l) : ~HasClient(i)}
       IN  \/ /\ \/ ~ReadyFor(l, "read")
                 \/ backlog[l] = <<>>
                 \/ FreeFds = {}
              /\ UNCHANGED <<fdt, slots, peerVars>>
           \/ /\ ReadyFor(l, "read") /\ backlog[l] # <<>> /\ FreeFds # {}
              /\ backlog' = [backlog EXCEPT ![l] = Tail(@)]
              /\ IF vacant = {}
                 THEN /\ inbox' = [inbox EXCEPT ![Head(backlog[l])] = "gone"]
                      /\ UNCHANGED <<fdt, slots>>
                 ELSE LET n == Lowest(FreeFds)
                          i == Lowest(vacant)
                      IN  /\ fdt' = Opened(n, Client(Head(backlog[l])))
                          /\ slots' = [slots EXCEPT ![i] =
                                [fd |-> n, generation |-> @.generation + 1,
                                 pending |-> FALSE]]
                          /\ UNCHANGED inbox
    /\ IF cursor = Listeners THEN pc' = "read" /\ cursor' = 1
                             ELSE pc' = pc /\ cursor' = cursor + 1
    /\ UNCHANGED <<interest, regs, usb, rolling, ready, stuck>>

ConnOf(i) == fdt[slots[i].fd].id

\* client_slot_close on slot i (and the peer's end with it).
CloseSlot(i) ==
    /\ fdt' = AfterClose({slots[i].fd})
    /\ interest' = InterestAfterClose({slots[i].fd})
    /\ slots' = [slots EXCEPT ![i] =
          [fd |-> NoFd, generation |-> @.generation + 1, pending |-> FALSE]]
    /\ inbox' = [inbox EXCEPT ![ConnOf(i)] = "gone"]

KeepSlot(i, pending) ==
    /\ slots' = [slots EXCEPT ![i].pending = pending]
    /\ UNCHANGED kernelVars

\* The peer reads late enough: an append finds the queue full, a send fails.
Overrun(i) == slots[i].pending

NextSlot(done) ==
    IF cursor = Listeners * MaxClients THEN pc' = done /\ cursor' = 1
                                       ELSE pc' = pc /\ cursor' = cursor + 1

\* The read returns 0, or -1 with other than EAGAIN and EINTR.
ReadNothingFails(i) == inbox[ConnOf(i)] # "data"
ReadFails(i) == inbox[ConnOf(i)] = "eof"

NotReadable(i) == ~(HasClient(i) /\ ReadyFor(slots[i].fd, "read"))

\* The slots' reads: raw DATA, framed DATA, CONF.  EAGAIN leaves the slot
\* alone; EOF and errors close it; what was read may queue output, and a
\* queue that overflows closes the slot.
ReadStep ==
    /\ pc = "read"
    /\ LET i == cursor IN
         \/ /\ NotReadable(i)
            /\ UNCHANGED <<kernelVars, slots, inbox>>
         \/ /\ ~NotReadable(i) /\ inbox[ConnOf(i)] = "quiet" /\ ~ReadFails(i)
            /\ UNCHANGED <<kernelVars, slots, inbox>>
         \/ /\ ~NotReadable(i) /\ ReadFails(i)
            /\ CloseSlot(i)
         \/ /\ ~NotReadable(i) /\ inbox[ConnOf(i)] = "data"
            /\ \/ /\ \E p \in BOOLEAN : (slots[i].pending => p) /\ KeepSlot(i, p)
                  /\ inbox' = [inbox EXCEPT ![ConnOf(i)] = "quiet"]
               \/ Overrun(i) /\ CloseSlot(i)
    /\ NextSlot("flush")
    /\ UNCHANGED <<regs, backlog, usb, rolling, ready, stuck>>

\* radio_channel_flush_ready: send() takes the rest, or EAGAIN.
FlushStep ==
    /\ pc = "flush"
    /\ LET i == cursor IN
         IF HasClient(i) /\ slots[i].pending /\ ReadyFor(slots[i].fd, "write")
         THEN \E p \in BOOLEAN : KeepSlot(i, p)
         ELSE UNCHANGED <<kernelVars, slots>>
    /\ NextSlot("poll")
    /\ ready' = IF pc' = "flush" THEN ready ELSE {}    \* a local of the pass
    /\ UNCHANGED <<regs, peerVars, usb, rolling, stuck>>

\* RX packets and monitoring lines to the clients of one slot after another
\* (client_slot_broadcast_bytes_queued).
BroadcastStep ==
    /\ pc = "poll"
    /\ LET i == cursor IN
         \/ UNCHANGED <<kernelVars, slots, inbox>>
         \/ HasClient(i) /\ KeepSlot(i, TRUE) /\ UNCHANGED inbox
         \/ HasClient(i) /\ Overrun(i) /\ CloseSlot(i)
    /\ NextSlot("sync")
    /\ UNCHANGED <<regs, backlog, usb, rolling, ready, stuck>>

-----------------------------------------------------------------------------
(* daemon_io_sync_event_fds.                                               *)

\* The notifier's generation goes up with every open and close; the code
\* uses the descriptor's number.
NotifierGeneration(n) == Cardinality(usb)
UsbGeneration(n) == n

\* What has to be registered now: owner, generation, descriptor, events.
SlotEvents(i) == {"read"} \union (IF slots[i].pending THEN {"write"} ELSE {})
Wanted ==
    {[owner |-> <<"listen", l>>, generation |-> 1, fd |-> l,
      events |-> {"read"}] : l \in Ls}
    \union {[owner |-> <<"slot", i>>, generation |-> slots[i].generation,
             fd |-> slots[i].fd, events |-> SlotEvents(i)] :
               i \in {j \in Slots : HasClient(j)}}
    \union {[owner |-> <<"usb", 0>>, generation |-> UsbGeneration(n), fd |-> n,
             events |-> IF n = MonFd THEN {"read"} ELSE {"write"}] :
               n \in usb}

SameOwner(r, w) == r.owner = w.owner /\ r.generation = w.generation

\* event_loop_epoll_reconcile_fd for one wanted descriptor: found, with the
\* same events; found, with others (EPOLL_CTL_MOD, which needs the number in
\* the interest list); not found (EPOLL_CTL_ADD, which needs it not there).
Found(w) == \E r \in regs : SameOwner(r, w)
Same(w) == \E r \in regs : SameOwner(r, w) /\ r.events = w.events
ModFails(w) == Found(w) /\ ~Same(w) /\ interest[w.fd] = NoInterest
AddFails(w) == ~Found(w) /\ interest[w.fd] # NoInterest
NoRoom == Cardinality({w \in Wanted : ~Found(w)}) + Cardinality(regs)
             > MaxRegistered

Failure == IF NoRoom THEN "ENOSPC"
           ELSE IF \E w \in Wanted : AddFails(w) THEN "EEXIST"
           ELSE IF \E w \in Wanted : ModFails(w) THEN "ENOENT"
           ELSE "none"

\* The MODs and ADDs that go through.  The main thread alone closes what is
\* registered, so the order among them does not matter.
Applied(w) == ~Same(w) /\ ~ModFails(w) /\ ~AddFails(w)

SyncBegin ==
    /\ pc = "sync" /\ stuck = "none"
    /\ stuck' = Failure
    /\ interest' = [n \in Fds |->
          IF \E w \in Wanted : w.fd = n /\ Applied(w)
          THEN [file |-> fdt[n],
                events |-> (CHOOSE w \in Wanted : w.fd = n).events]
          ELSE interest[n]]
    /\ regs' = {r \in regs : \A w \in Wanted : ~SameOwner(r, w)}
               \union {w \in Wanted : ~AddFails(w)}
    /\ pc' = "forget"
    /\ UNCHANGED <<fdt, slots, peerVars, usb, rolling, ready, cursor>>

\* event_loop_epoll_reconcile_end: what was not seen in this epoch is
\* forgotten, and taken out of the interest list unless a registration that
\* was seen has its number.  EBADF and ENOENT are expected of a closed
\* number; a file that cannot be polled answers EPERM.
Forgotten == {r \in regs : r \notin Wanted}
NeverSeen(n) == FALSE
FdSeenCurrent(n) == \E w \in Wanted : w.fd = n
ToDelete == {r.fd : r \in {q \in Forgotten : ~FdSeenCurrent(q.fd)}}

SyncEnd ==
    /\ pc = "forget"
    /\ interest' = [n \in Fds |->
          IF n \in ToDelete THEN NoInterest ELSE interest[n]]
    /\ stuck' = IF stuck = "none" /\ \E n \in ToDelete : fdt[n].kind = "file"
                THEN "EPERM" ELSE stuck
    /\ regs' = regs \ Forgotten
    /\ pc' = "wait"
    /\ UNCHANGED <<fdt, slots, peerVars, usb, rolling, ready, cursor>>

-----------------------------------------------------------------------------
Pass == Wait \/ WaitInterrupted \/ WaitRefuses \/ UsbTick \/ AcceptStep
        \/ ReadStep \/ FlushStep \/ BroadcastStep \/ SyncBegin \/ SyncEnd

Stopped == pc = "stopped" /\ UNCHANGED vars

Next == \/ Pass
        \/ \E c \in Conns, l \in Ls : Connect(c, l)
        \/ \E c \in Conns, what \in {"data", "eof"} : PeerSends(c, what)
        \/ RollBegins \/ RollEnds
        \/ Stopped

Spec == Init /\ [][Next]_vars

-----------------------------------------------------------------------------
(* Properties.                                                             *)

\* Descriptor reuse (event_loop_epoll_reconcile_end, fd_seen_current): when
\* the loop goes to wait, the epoll set watches every listener and every
\* client, the client's own file and not a predecessor's, for input and,
\* exactly while output is queued, for output.
ClientsWatched ==
    (pc = "wait" /\ stuck = "none") =>
        /\ \A l \in Ls : interest[l] = [file |-> Listening(l),
                                        events |-> {"read"}]
        /\ \A i \in Slots : HasClient(i) =>
              interest[slots[i].fd] = [file |-> fdt[slots[i].fd],
                                       events |-> SlotEvents(i)]

\* A stale ready event (its number has gone from a libusb handle to a client
\* accepted in the same pass) costs no client its connection: a slot is
\* closed only on its own peer's EOF or with output it did not take.
NoSpuriousClose ==
    [][\A i \in Slots :
          (HasClient(i) /\ slots'[i].fd = NoFd) =>
              inbox[ConnOf(i)] = "eof" \/ Overrun(i)]_vars

\* The registration table never makes the loop stop by itself: an ADD of a
\* number still registered, a MOD of one the kernel has dropped or a full
\* table do not happen.  What remains is EPERM: the number of a client or a
\* handle closed in this pass went to the RF log's <path>.1 in time for
\* reconcile_end to find a regular file there.
OnlyForeignFileStops == stuck \in {"none", "EPERM"}
=============================================================================
