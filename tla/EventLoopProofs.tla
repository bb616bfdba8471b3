-------------------------- MODULE EventLoopProofs --------------------------
(***************************************************************************)
(* Proofs about EventLoop, for any number of listeners, slots, libusb      *)
(* handles and connections: the registration table and the kernel's epoll  *)
(* set agree about every listener and client when the loop goes to wait,   *)
(* although descriptor numbers are reused within a pass and a closed       *)
(* number leaves the epoll set without the table being told.               *)
(***************************************************************************)
EXTENDS EventLoop, FiniteSetTheorems, FunctionTheorems, WellFoundedInduction, TLAPS

SlotRecords == [fd : Fds \union {NoFd}, generation : Nat, pending : BOOLEAN]
Phases == {"sync", "forget", "wait", "usb", "accept", "read", "flush", "poll",
           "stopped"}

\* The state the proofs speak of.
TypeOK ==
    /\ fdt = [n \in Fds |-> fdt[n]]
    /\ interest = [n \in Fds |-> interest[n]]
    /\ slots \in [Slots -> SlotRecords]
    /\ rolling \in Fds \union {NoFd}

\* How far the pass has come.
PlaceInv ==
    /\ pc \in Phases
    /\ cursor \in (CASE pc = "accept" -> Ls
                     [] pc \in {"read", "flush", "poll"} -> Slots
                     [] OTHER -> {1})

\* A registration error ends the loop at the next wait.
StuckInv == stuck \in {"none", "EPERM"} /\ (stuck # "none" => pc \in {"wait", "stopped"})

-----------------------------------------------------------------------------
(* Who has which descriptor.                                               *)

ListenersInv == \A l \in Ls : fdt[l] = Listening(l)

UsbInv ==
    /\ usb \subseteq Fds /\ Cardinality(usb) <= MaxUsb
    /\ usb # {} => MonFd \in usb
    /\ \A n \in usb : fdt[n] = Handle

\* A client's descriptor is its own.
SlotsInv ==
    /\ \A i \in Slots : HasClient(i) => fdt[slots[i].fd].kind = "client"
    /\ \A i, j \in Slots :
          HasClient(i) /\ slots[i].fd = slots[j].fd => i = j

RollInv == rolling # NoFd => fdt[rolling] = Regular

\* Closing a file ends the kernel's interest in it, and nobody registers the
\* RF log's.
ClosedInv == \A n \in Fds : fdt[n] \in {Closed, Regular} => interest[n] = NoInterest

OwnersInv == ListenersInv /\ UsbInv /\ SlotsInv /\ RollInv /\ ClosedInv

-----------------------------------------------------------------------------
(* The table and the epoll set.                                            *)

ListenerReg(r) == \E l \in Ls :
    r = [owner |-> <<"listen", l>>, generation |-> 1, fd |-> l,
         events |-> {"read"}]
OfSlot(r, i) == r.owner = <<"slot", i>>
UsbReg(r) == \E n \in Fds :
    r = [owner |-> <<"usb", 0>>, generation |-> n, fd |-> n,
         events |-> IF n = MonFd THEN {"read"} ELSE {"write"}]

\* What a registration is, by its owner.
KindsInv ==
    \A r \in regs : ListenerReg(r) \/ UsbReg(r) \/ \E i \in Slots : OfSlot(r, i)

\* The table knows one registration per slot; while the slot has its client
\* it is the client's, and the kernel watches what it says.
SlotRegsInv ==
    /\ \A i \in Slots : \A r, q \in regs : OfSlot(r, i) /\ OfSlot(q, i) => r = q
    /\ \A i \in Slots : \A r \in regs : OfSlot(r, i) /\ HasClient(i) =>
          /\ r.generation = slots[i].generation /\ r.fd = slots[i].fd
          /\ interest[r.fd] = [file |-> fdt[r.fd], events |-> r.events]

ListenerRegsInv ==
    \A r \in regs : \A l \in Ls : r.owner = <<"listen", l>> =>
       interest[l] = [file |-> Listening(l), events |-> {"read"}]

\* The kernel watches no number the table does not know of under its
\* present owner.
Registered(n) ==
    \/ n \in Ls /\ \E r \in regs : r.owner = <<"listen", n>>
    \/ n \in usb /\ \E r \in regs : r.owner = <<"usb", 0>> /\ r.generation = n
    \/ \E i \in Slots : HasClient(i) /\ slots[i].fd = n /\ \E r \in regs : OfSlot(r, i)

WatchedInv == \A n \in Fds : interest[n] # NoInterest => Registered(n)

\* Where the table stands within the pass.
PassInv ==
    /\ pc = "forget" => Wanted \subseteq regs
    /\ pc = "wait" => regs = Wanted
    /\ pc \in {"wait", "usb", "accept"} =>
          \A i \in Slots : ~HasClient(i) => \A r \in regs : ~OfSlot(r, i)

TableInv == KindsInv /\ SlotRegsInv /\ ListenerRegsInv /\ WatchedInv /\ PassInv

\* The table's libusb registrations are those of the pass before.
OldUsb == {r \in regs : r.owner[1] = "usb"}
SizeInv == IsFiniteSet(OldUsb) /\ (pc # "forget" => Cardinality(OldUsb) <= MaxUsb)

Inv == TypeOK /\ PlaceInv /\ StuckInv /\ OwnersInv /\ TableInv /\ SizeInv

-----------------------------------------------------------------------------
(* Numbers.                                                                *)

\* The numbers of listeners and slots fit together.
LEMMA Sizes ==
    /\ Listeners \in Nat \ {0} /\ MaxClients \in Nat \ {0}
    /\ FdLimit \in Nat /\ MaxUsb \in Nat \ {0} /\ MaxRegistered \in Nat
    /\ Listeners * MaxClients \in Nat \ {0}
    /\ Ls \subseteq Fds /\ MonFd \in Fds \ Ls
    /\ MaxRegistered >= Listeners + Listeners * MaxClients + 2 * MaxUsb
<1>1. /\ Listeners \in Nat \ {0} /\ MaxClients \in Nat \ {0}
      /\ FdLimit \in Nat /\ MaxUsb \in Nat \ {0} /\ MaxRegistered \in Nat
  BY SizesAssumption
<1>2. Listeners * MaxClients \in Nat \ {0}
  BY <1>1
<1>3. Listeners * (MaxClients + 1) = Listeners * MaxClients + Listeners
  BY <1>1
<1>4. FdLimit > Listeners + 1
  BY <1>1, <1>2, <1>3, SizesAssumption
<1>5. Ls \subseteq Fds /\ MonFd \in Fds \ Ls
  BY <1>1, <1>4 DEF Ls, Fds, MonFd
<1>6. MaxRegistered >= Listeners + Listeners * MaxClients + 2 * MaxUsb
  BY <1>1, <1>2, SizesAssumption
<1>7. QED
  BY <1>1, <1>2, <1>5, <1>6

\* Listeners have the first numbers, the monitor the next.
LEMMA Numbers == Ls \subseteq Fds /\ MonFd \in Fds \ Ls /\ NoFd \notin Fds
  BY Sizes DEF Fds, NoFd

\* The kind tells files apart.
LEMMA Kinds ==
    /\ \A l : Listening(l).kind = "listen"
    /\ \A c : Client(c).kind = "client"
    /\ Handle.kind = "usb" /\ Regular.kind = "file" /\ Closed.kind = "none"
  BY DEF Listening, Client, Handle, Regular, Closed

\* A listener's slots are slots.
LEMMA SlotsOfListener == \A l \in Ls : SlotsOf(l) \subseteq Slots
<1> SUFFICES ASSUME NEW l \in Ls, NEW i \in SlotsOf(l) PROVE i \in Slots
  OBVIOUS
<1>1. l \in Nat \ {0} /\ l <= Listeners
  BY Sizes DEF Ls
<1>2. l * MaxClients <= Listeners * MaxClients
  BY <1>1, Sizes
<1>3. (l - 1) * MaxClients >= 0
  BY <1>1, Sizes
<1>4. (l - 1) * MaxClients \in Int /\ l * MaxClients \in Int
  BY <1>1, Sizes
<1>5. i \in Int /\ (l - 1) * MaxClients + 1 <= i /\ i <= l * MaxClients
  BY <1>4 DEF SlotsOf
<1>6. QED
  BY <1>2, <1>3, <1>4, <1>5, Sizes DEF Slots

\* A non-empty set of numbers has a least one.
LEMMA LowestIn ==
    ASSUME NEW S \in SUBSET Nat, S # {}
    PROVE  Lowest(S) \in S
<1> DEFINE Less == {xy \in Nat \X Nat : xy[1] < xy[2]}
<1>1. IsWellFoundedOn(Less, Nat)
  BY NatLessThanWellFounded, Zenon DEF OpToRel
<1> HIDE DEF Less
<1>2. PICK n \in S : \A m \in S : <<m, n>> \notin Less
  BY <1>1, WFMin
<1>3. ASSUME NEW m \in S, m < n PROVE FALSE
  <2>1. <<m, n>> \in Nat \X Nat
    OBVIOUS
  <2>2. <<m, n>>[1] < <<m, n>>[2]
    BY <1>3
  <2>3. <<m, n>> \in Less
    BY <2>1, <2>2, Zenon DEF Less
  <2>4. QED
    BY <1>2, <2>3
<1>4. \A m \in S : n <= m
  BY <1>3
<1>5. QED
  BY <1>4, Zenon DEF Lowest

\* The number open() and accept() return was free.
LEMMA LowestFree ==
    ASSUME FreeFds # {}
    PROVE  Lowest(FreeFds) \in Fds /\ fdt[Lowest(FreeFds)] = Closed
<1>1. FreeFds \in SUBSET Nat
  BY Sizes DEF FreeFds, Fds
<1>2. Lowest(FreeFds) \in FreeFds
  BY <1>1, LowestIn
<1>3. QED
  BY <1>2, Zenon DEF FreeFds

\* accept() fills a slot of its listener that had no client.
LEMMA LowestVacant ==
    ASSUME NEW l \in Ls, NEW vacant, vacant = {i \in SlotsOf(l) : ~HasClient(i)},
           vacant # {}
    PROVE  Lowest(vacant) \in Slots /\ ~HasClient(Lowest(vacant))
<1>1. vacant \in SUBSET Nat
  BY SlotsOfListener, Sizes DEF Slots
<1>2. Lowest(vacant) \in vacant
  BY <1>1, LowestIn
<1>3. QED
  BY <1>2, SlotsOfListener, Zenon

-----------------------------------------------------------------------------
(* Types and owners.                                                       *)

\* The steps that leave descriptors, slots and the table alone.
Idle == Wait \/ WaitInterrupted \/ WaitRefuses \/ Stopped
        \/ (\E c \in Conns, l \in Ls : Connect(c, l))
        \/ (\E c \in Conns, what \in {"data", "eof"} : PeerSends(c, what))

\* They do leave them alone.
LEMMA IdleKeeps ==
    ASSUME Idle
    PROVE  UNCHANGED <<fdt, interest, regs, slots, usb, rolling, stuck>>
  BY Zenon DEF Idle, Wait, WaitInterrupted, WaitRefuses, Stopped, Connect, PeerSends,
     kernelVars, peerVars, vars

\* What the steps on one slot do to it: nothing, new output, or the close.
SlotStep(i) ==
    \/ UNCHANGED <<kernelVars, slots>>
    \/ HasClient(i) /\ \E b \in BOOLEAN : KeepSlot(i, b)
    \/ HasClient(i) /\ CloseSlot(i)

\* The reads, the flush and the broadcasts take one slot at a time.
LEMMA SlotSteps ==
    ASSUME ReadStep \/ FlushStep \/ BroadcastStep
    PROVE  /\ SlotStep(cursor) /\ UNCHANGED <<regs, usb, rolling, stuck>>
           /\ pc \in {"read", "flush", "poll"}
           /\ \E done \in {"flush", "poll", "sync"} : NextSlot(done)
<1>1. CASE ReadStep
  BY <1>1, Zenon DEF ReadStep, SlotStep, NotReadable
<1>2. CASE FlushStep
  BY <1>2, Zenon DEF FlushStep, SlotStep, peerVars
<1>3. CASE BroadcastStep
  <2>1. TRUE \in BOOLEAN
    OBVIOUS
  <2>2. QED
    BY <1>3, <2>1, Zenon DEF BroadcastStep, SlotStep
<1>4. QED
  BY <1>1, <1>2, <1>3, Zenon

Steps ==
    \/ Idle \/ UsbTick \/ AcceptStep \/ SyncBegin \/ SyncEnd \/ RollBegins \/ RollEnds
    \/ ReadStep \/ FlushStep \/ BroadcastStep

\* Next, by what the steps do to the table.
LEMMA NextSteps == Next => Steps
  BY Zenon DEF Next, Pass, Steps, Idle

\* accept() does nothing to descriptors and slots, or gives a slot that had
\* no client a number that was free.
Accepts(i, n, c) ==
    /\ i \in Slots /\ ~HasClient(i) /\ n \in Fds /\ fdt[n] = Closed
    /\ fdt' = Opened(n, Client(c))
    /\ slots' = [slots EXCEPT ![i] =
          [fd |-> n, generation |-> @.generation + 1, pending |-> FALSE]]

\* AcceptStep does one or the other.
LEMMA AcceptEffect ==
    ASSUME PlaceInv, AcceptStep
    PROVE  /\ UNCHANGED <<fdt, slots>> \/ \E i, n, c : Accepts(i, n, c)
           /\ UNCHANGED <<interest, regs, usb, rolling, stuck>>
           /\ pc = "accept" /\ pc' \in {"accept", "read"}
<1>1. /\ UNCHANGED <<interest, regs, usb, rolling, stuck>>
      /\ pc = "accept" /\ pc' \in {"accept", "read"}
  BY Zenon DEF AcceptStep
<1>2. cursor \in Ls
  BY <1>1 DEF PlaceInv
<1> DEFINE vacant == {i \in SlotsOf(cursor) : ~HasClient(i)}
           n == Lowest(FreeFds)
           i == Lowest(vacant)
           c == Head(backlog[cursor])
<1>3. CASE UNCHANGED <<fdt, slots>>
  BY <1>1, <1>3
<1>4. CASE /\ FreeFds # {} /\ vacant # {}
           /\ fdt' = Opened(n, Client(c))
           /\ slots' = [slots EXCEPT ![i] =
                 [fd |-> n, generation |-> @.generation + 1, pending |-> FALSE]]
  <2>1. n \in Fds /\ fdt[n] = Closed
    BY <1>4, LowestFree
  <2>2. i \in Slots /\ ~HasClient(i)
    BY <1>2, <1>4, LowestVacant
  <2>3. Accepts(i, n, c)
    BY <1>4, <2>1, <2>2, Zenon DEF Accepts
  <2>4. QED
    BY <1>1, <2>3, Zenon
<1>5. QED
  BY <1>3, <1>4, Zenon DEF AcceptStep, peerVars

\* The pass goes from phase to phase and over every listener and slot.
LEMMA PlaceStep ==
    ASSUME PlaceInv, [Next]_vars
    PROVE  PlaceInv'
<1>1. CASE Idle
  <2>1. \/ UNCHANGED <<pc, cursor>>
        \/ pc = "wait" /\ pc' \in {"usb", "stopped"} /\ cursor' \in {1, cursor}
    BY <1>1, Zenon DEF Idle, Wait, WaitInterrupted, WaitRefuses, Stopped, Connect, PeerSends, vars
  <2>2. QED
    BY <2>1 DEF PlaceInv, Phases
<1>2. CASE UsbTick
  <2>1. pc = "usb" /\ pc' = "accept" /\ cursor' = cursor
    BY <1>2, Zenon DEF UsbTick
  <2>2. 1 \in Ls
    BY Sizes DEF Ls
  <2>3. QED
    BY <2>1, <2>2 DEF PlaceInv, Phases
<1>3. CASE AcceptStep
  <2>1. /\ pc = "accept"
        /\ IF cursor = Listeners THEN pc' = "read" /\ cursor' = 1
                                 ELSE pc' = pc /\ cursor' = cursor + 1
    BY <1>3, Zenon DEF AcceptStep
  <2>2. 1 \in Slots
    BY Sizes DEF Slots
  <2>3. cursor \in Ls /\ (cursor # Listeners => cursor + 1 \in Ls)
    BY <2>1, Sizes DEF PlaceInv, Ls
  <2>4. QED
    BY <2>1, <2>2, <2>3 DEF PlaceInv, Phases
<1>4. CASE ReadStep \/ FlushStep \/ BroadcastStep
  <2>1. pc \in {"read", "flush", "poll"} /\ \E done \in {"flush", "poll", "sync"} : NextSlot(done)
    BY <1>4, SlotSteps
  <2>2. 1 \in Slots
    BY Sizes DEF Slots
  <2>3. cursor \in Slots /\ (cursor # Listeners * MaxClients => cursor + 1 \in Slots)
    <3> DEFINE m == Listeners * MaxClients
    <3>1. cursor \in Slots
      BY <2>1 DEF PlaceInv
    <3>2. m \in Nat /\ Slots = 1..m
      BY Sizes DEF Slots
    <3> HIDE DEF m
    <3>3. cursor # m => cursor + 1 \in Slots
      BY <3>1, <3>2
    <3>4. QED
      BY <3>1, <3>3 DEF m
  <2>4. QED
    BY <2>1, <2>2, <2>3 DEF PlaceInv, Phases, NextSlot
<1>5. CASE SyncBegin \/ SyncEnd
  <2>1. pc \in {"sync", "forget"} /\ pc' \in {"forget", "wait"} /\ cursor' = cursor
    BY <1>5, Zenon DEF SyncBegin, SyncEnd
  <2>2. QED
    BY <2>1 DEF PlaceInv, Phases
<1>6. CASE RollBegins \/ RollEnds \/ UNCHANGED vars
  <2>1. UNCHANGED <<pc, cursor>>
    BY <1>6, Zenon DEF RollBegins, RollEnds, vars
  <2>2. QED
    BY <2>1 DEF PlaceInv
<1>7. QED
  BY <1>1, <1>2, <1>3, <1>4, <1>5, <1>6, NextSteps, Zenon DEF Steps

\* Every step keeps the types.
LEMMA TypeStep ==
    ASSUME TypeOK, PlaceInv, [Next]_vars
    PROVE  TypeOK'
<1>1. CASE Idle
  <2>1. UNCHANGED <<fdt, interest, slots, rolling>>
    BY <1>1, IdleKeeps
  <2>2. QED
    BY <2>1 DEF TypeOK
<1>2. CASE UsbTick
  <2>1. UNCHANGED <<slots, rolling>>
    BY <1>2, Zenon DEF UsbTick
  <2>2. fdt' = fdt \/ (\E n, f : fdt' = Opened(n, f)) \/ (\E S : fdt' = AfterClose(S))
    BY <1>2, Zenon DEF UsbTick
  <2>3. interest' = interest \/ (\E S : interest' = InterestAfterClose(S))
    BY <1>2, Zenon DEF UsbTick
  <2>4. QED
    BY <2>1, <2>2, <2>3 DEF TypeOK, Opened, AfterClose, InterestAfterClose
<1>3. CASE AcceptStep
  <2>1. /\ UNCHANGED <<fdt, slots>> \/ \E i, n, c : Accepts(i, n, c)
        /\ UNCHANGED <<interest, rolling>>
    BY <1>3, AcceptEffect, Zenon
  <2>2. CASE UNCHANGED <<fdt, slots>>
    BY <2>1, <2>2 DEF TypeOK
  <2>3. ASSUME NEW i, NEW n, NEW c, Accepts(i, n, c) PROVE TypeOK'
    BY <2>1, <2>3 DEF TypeOK, Accepts, Opened, SlotRecords
  <2>4. QED
    BY <2>1, <2>2, <2>3
<1>4. CASE ReadStep \/ FlushStep \/ BroadcastStep
  <2>1. SlotStep(cursor) /\ rolling' = rolling
    BY <1>4, SlotSteps
  <2>2. cursor \in Slots
    BY <1>4, SlotSteps DEF PlaceInv
  <2>3. CASE UNCHANGED <<kernelVars, slots>>
    BY <2>1, <2>3 DEF TypeOK, kernelVars
  <2>4. ASSUME NEW b \in BOOLEAN, KeepSlot(cursor, b) PROVE TypeOK'
    BY <2>1, <2>2, <2>4 DEF TypeOK, KeepSlot, kernelVars, SlotRecords
  <2>5. CASE CloseSlot(cursor)
    BY <2>1, <2>2, <2>5 DEF TypeOK, CloseSlot, AfterClose, InterestAfterClose, SlotRecords
  <2>6. QED
    BY <2>1, <2>3, <2>4, <2>5, Zenon DEF SlotStep
<1>5. CASE SyncBegin \/ SyncEnd
  <2>1. UNCHANGED <<fdt, slots, rolling>>
    BY <1>5, Zenon DEF SyncBegin, SyncEnd
  <2>2. interest' = [n \in Fds |-> interest'[n]]
    BY <1>5 DEF SyncBegin, SyncEnd
  <2>3. QED
    BY <2>1, <2>2 DEF TypeOK
<1>6. CASE RollBegins
  <2>1. UNCHANGED <<interest, slots>> /\ FreeFds # {} /\ rolling' = Lowest(FreeFds)
        /\ fdt' = Opened(Lowest(FreeFds), Regular)
    BY <1>6, Zenon DEF RollBegins
  <2>2. QED
    BY <2>1, LowestFree DEF TypeOK, Opened
<1>7. CASE RollEnds
  BY <1>7 DEF RollEnds, TypeOK, AfterClose
<1>8. CASE UNCHANGED vars
  BY <1>8 DEF vars, TypeOK
<1>9. QED
  BY <1>1, <1>2, <1>3, <1>4, <1>5, <1>6, <1>7, <1>8, NextSteps, Zenon DEF Steps

\* Nobody but the closed file's owner is touched by a close.
LEMMA OwnersStep ==
    ASSUME TypeOK, PlaceInv, OwnersInv, [Next]_vars
    PROVE  OwnersInv'
<1> USE DEF OwnersInv
<1>1. CASE Idle
  <2>1. UNCHANGED <<fdt, interest, slots, usb, rolling>>
    BY <1>1, IdleKeeps
  <2>2. QED
    BY <2>1 DEF ListenersInv, UsbInv, SlotsInv, RollInv, ClosedInv, HasClient
<1>2. CASE UsbTick
  <2>1. UNCHANGED <<slots, rolling>>
    BY <1>2, Zenon DEF UsbTick
  <2>2. CASE UNCHANGED <<fdt, interest, usb>>
    BY <2>1, <2>2 DEF ListenersInv, UsbInv, SlotsInv, RollInv, ClosedInv, HasClient
  <2>3. ASSUME usb # {}, Cardinality(usb) < MaxUsb, FreeFds # {},
               fdt' = Opened(Lowest(FreeFds), Handle),
               usb' = usb \union {Lowest(FreeFds)}, interest' = interest
        PROVE  OwnersInv'
    <3> DEFINE n == Lowest(FreeFds)
    <3>1. n \in Fds /\ fdt[n] = Closed
      BY <2>3, LowestFree
    <3>2. fdt' = [fdt EXCEPT ![n] = Handle] /\ usb' = usb \union {n}
      BY <2>3 DEF Opened
    <3> HIDE DEF n
    <3>3. ListenersInv'
      BY <3>1, <3>2, Numbers, Kinds DEF TypeOK, ListenersInv
    <3>4. Cardinality(usb') <= MaxUsb
      <4>1. Fds \subseteq Nat /\ IsFiniteSet(Fds)
        BY Sizes, FS_Interval DEF Fds
      <4>2. IsFiniteSet(usb)
        BY <4>1, FS_Subset DEF UsbInv
      <4>3. Cardinality(usb) \in Nat
        BY <4>2, FS_CardinalityType
      <4>4. Cardinality(usb \union {n}) \in {Cardinality(usb), Cardinality(usb) + 1}
        BY <4>2, FS_AddElement
      <4>5. MaxUsb \in Nat
        BY Sizes
      <4>6. QED
        BY <2>3, <3>2, <4>3, <4>4, <4>5
    <3>5. UsbInv'
      BY <2>3, <3>1, <3>2, <3>4 DEF TypeOK, UsbInv
    <3>6. SlotsInv' /\ RollInv' /\ ClosedInv'
      BY <2>1, <2>3, <3>1, <3>2, Kinds
         DEF TypeOK, SlotsInv, RollInv, ClosedInv, HasClient, SlotRecords
    <3>7. QED
      BY <3>3, <3>5, <3>6
  <2>4. ASSUME NEW n \in usb \ {MonFd}, fdt' = AfterClose({n}),
               interest' = InterestAfterClose({n}), usb' = usb \ {n}
        PROVE  OwnersInv'
    <3>1. n \in Fds /\ fdt[n] = Handle
      BY DEF UsbInv
    <3>2. ListenersInv'
      BY <2>4, <3>1, Numbers, Kinds DEF TypeOK, ListenersInv, AfterClose
    <3>3. Cardinality(usb') <= MaxUsb
      <4>1. Fds \subseteq Nat /\ IsFiniteSet(Fds)
        BY Sizes, FS_Interval DEF Fds
      <4>2. IsFiniteSet(usb)
        BY <4>1, FS_Subset DEF UsbInv
      <4>3. Cardinality(usb') <= Cardinality(usb) /\ Cardinality(usb) \in Nat
            /\ Cardinality(usb') \in Nat
        BY <2>4, <4>2, FS_Subset, FS_CardinalityType
      <4>4. QED
        BY <4>3, Sizes DEF UsbInv
    <3>4. UsbInv'
      BY <2>4, <3>1, <3>3 DEF TypeOK, UsbInv, AfterClose
    <3>5. SlotsInv' /\ RollInv' /\ ClosedInv'
      BY <2>1, <2>4, <3>1, Kinds DEF TypeOK, SlotsInv, RollInv, ClosedInv, HasClient, SlotRecords,
         AfterClose, InterestAfterClose
    <3>6. QED
      BY <3>2, <3>4, <3>5
  <2>5. ASSUME NEW n, interest' = InterestAfterClose({n}), UNCHANGED <<fdt, usb>>
        PROVE  OwnersInv'
    <3>1. ListenersInv' /\ UsbInv' /\ SlotsInv' /\ RollInv'
      BY <2>1, <2>5 DEF ListenersInv, UsbInv, SlotsInv, RollInv, HasClient
    <3>2. ClosedInv'
      BY <2>5 DEF TypeOK, ClosedInv, InterestAfterClose
    <3>3. QED
      BY <3>1, <3>2
  <2>6. QED
    BY <1>2, <2>2, <2>3, <2>4, <2>5, Zenon DEF UsbTick
<1>3. CASE AcceptStep
  <2>1. /\ UNCHANGED <<fdt, slots>> \/ \E i, n, c : Accepts(i, n, c)
        /\ UNCHANGED <<interest, usb, rolling>>
    BY <1>3, AcceptEffect, Zenon
  <2>2. CASE UNCHANGED <<fdt, slots>>
    BY <2>1, <2>2 DEF ListenersInv, UsbInv, SlotsInv, RollInv, ClosedInv, HasClient
  <2>3. ASSUME NEW i, NEW n, NEW c, Accepts(i, n, c) PROVE OwnersInv'
    <3>1. /\ n \in Fds /\ fdt[n] = Closed /\ fdt' = [fdt EXCEPT ![n] = Client(c)]
          /\ i \in Slots /\ ~HasClient(i)
          /\ slots' = [slots EXCEPT ![i] =
               [fd |-> n, generation |-> @.generation + 1, pending |-> FALSE]]
      BY <2>3 DEF Accepts, Opened
    <3>2. ListenersInv' /\ UsbInv'
      BY <2>1, <3>1, Numbers, Kinds DEF TypeOK, ListenersInv, UsbInv
    <3>3. slots'[i].fd = n /\ \A j \in Slots : j # i => slots'[j] = slots[j]
      BY <3>1 DEF TypeOK
    <3>4. SlotsInv'
      BY <3>1, <3>3, Kinds DEF TypeOK, SlotsInv, HasClient, SlotRecords
    <3>5. RollInv' /\ ClosedInv'
      BY <2>1, <3>1, Kinds DEF TypeOK, RollInv, ClosedInv
    <3>6. QED
      BY <3>2, <3>4, <3>5
  <2>4. QED
    BY <2>1, <2>2, <2>3
<1>4. CASE ReadStep \/ FlushStep \/ BroadcastStep
  <2>1. SlotStep(cursor) /\ UNCHANGED <<usb, rolling>>
    BY <1>4, SlotSteps
  <2>2. cursor \in Slots
    BY <1>4, SlotSteps DEF PlaceInv
  <2>3. CASE UNCHANGED <<kernelVars, slots>>
    BY <2>1, <2>3 DEF ListenersInv, UsbInv, SlotsInv, RollInv, ClosedInv, HasClient, kernelVars
  <2>4. ASSUME NEW b \in BOOLEAN, KeepSlot(cursor, b) PROVE OwnersInv'
    <3>1. UNCHANGED <<fdt, interest>> /\ \A i \in Slots : slots'[i].fd = slots[i].fd
      BY <2>2, <2>4 DEF TypeOK, KeepSlot, kernelVars, SlotRecords
    <3>2. QED
      BY <2>1, <3>1 DEF ListenersInv, UsbInv, SlotsInv, RollInv, ClosedInv, HasClient
  <2>5. ASSUME HasClient(cursor), CloseSlot(cursor) PROVE OwnersInv'
    <3> DEFINE n == slots[cursor].fd
    <3>1. n \in Fds /\ fdt[n].kind = "client"
      BY <2>2, <2>5 DEF TypeOK, HasClient, SlotRecords, SlotsInv
    <3>2. fdt' = AfterClose({n}) /\ interest' = InterestAfterClose({n})
      BY <2>5 DEF CloseSlot
    <3>3. \A i \in Slots : slots'[i].fd = IF i = cursor THEN NoFd ELSE slots[i].fd
      BY <2>2, <2>5 DEF TypeOK, CloseSlot
    <3>4. \A i \in Slots : i # cursor => slots[i].fd # n
      BY <2>2, <2>5 DEF SlotsInv
    <3> HIDE DEF n
    <3>5. ListenersInv' /\ UsbInv'
      BY <2>1, <3>1, <3>2, Numbers, Kinds DEF TypeOK, ListenersInv, UsbInv, AfterClose
    <3>6. SlotsInv'
      BY <3>2, <3>3, <3>4, Kinds DEF TypeOK, SlotsInv, HasClient, SlotRecords, AfterClose
    <3>7. RollInv' /\ ClosedInv'
      BY <2>1, <3>1, <3>2, Kinds DEF TypeOK, RollInv, ClosedInv, AfterClose, InterestAfterClose
    <3>8. QED
      BY <3>5, <3>6, <3>7
  <2>6. QED
    BY <2>1, <2>3, <2>4, <2>5, Zenon DEF SlotStep
<1>5. CASE SyncBegin
  <2>1. UNCHANGED <<fdt, slots, usb, rolling>>
    BY <1>5, Zenon DEF SyncBegin
  <2>2. ListenersInv' /\ UsbInv' /\ SlotsInv' /\ RollInv'
    BY <2>1 DEF ListenersInv, UsbInv, SlotsInv, RollInv, HasClient
  <2>3. ASSUME NEW w \in Wanted PROVE fdt[w.fd] \notin {Closed, Regular}
    BY Numbers, Kinds DEF Wanted, ListenersInv, UsbInv, SlotsInv
  <2>4. \A n \in Fds : (\A w \in Wanted : w.fd # n) => interest'[n] = interest[n]
    BY <1>5 DEF SyncBegin
  <2>5. ClosedInv'
    BY <2>1, <2>3, <2>4 DEF ClosedInv
  <2>6. QED
    BY <2>2, <2>5
<1>6. CASE SyncEnd
  <2>1. UNCHANGED <<fdt, slots, usb, rolling>>
    BY <1>6, Zenon DEF SyncEnd
  <2>2. \A n \in Fds : interest'[n] \in {interest[n], NoInterest}
    BY <1>6 DEF SyncEnd
  <2>3. QED
    BY <2>1, <2>2 DEF ListenersInv, UsbInv, SlotsInv, RollInv, ClosedInv, HasClient
<1>7. CASE RollBegins
  <2> DEFINE n == Lowest(FreeFds)
  <2>1. FreeFds # {} /\ rolling = NoFd /\ rolling' = n /\ fdt' = Opened(n, Regular)
        /\ UNCHANGED <<interest, slots, usb>>
    BY <1>7, Zenon DEF RollBegins
  <2>2. n \in Fds /\ fdt[n] = Closed
    BY <2>1, LowestFree
  <2> HIDE DEF n
  <2>3. ListenersInv' /\ UsbInv'
    BY <2>1, <2>2, Numbers, Kinds DEF TypeOK, ListenersInv, UsbInv, Opened
  <2>4. SlotsInv' /\ RollInv' /\ ClosedInv'
    BY <2>1, <2>2, Kinds DEF TypeOK, SlotsInv, RollInv, ClosedInv, HasClient, SlotRecords, Opened
  <2>5. QED
    BY <2>3, <2>4
<1>8. CASE RollEnds
  <2>1. rolling # NoFd /\ rolling' = NoFd /\ fdt' = AfterClose({rolling})
        /\ UNCHANGED <<interest, slots, usb>>
    BY <1>8, Zenon DEF RollEnds
  <2>2. rolling \in Fds /\ fdt[rolling] = Regular
    BY <2>1, Kinds DEF TypeOK, RollInv
  <2>3. ListenersInv' /\ UsbInv'
    BY <2>1, <2>2, Numbers, Kinds DEF TypeOK, ListenersInv, UsbInv, AfterClose
  <2>4. SlotsInv' /\ RollInv' /\ ClosedInv'
    BY <2>1, <2>2, Kinds
       DEF TypeOK, SlotsInv, RollInv, ClosedInv, HasClient, SlotRecords, AfterClose
  <2>5. QED
    BY <2>3, <2>4
<1>9. CASE UNCHANGED vars
  BY <1>9 DEF vars, ListenersInv, UsbInv, SlotsInv, RollInv, ClosedInv, HasClient
<1>10. QED
  BY <1>1, <1>2, <1>3, <1>4, <1>5, <1>6, <1>7, <1>8, <1>9, NextSteps, Zenon DEF Steps

-----------------------------------------------------------------------------
(* What is wanted.                                                         *)

WantL(l) == [owner |-> <<"listen", l>>, generation |-> 1, fd |-> l, events |-> {"read"}]
WantS(i) == [owner |-> <<"slot", i>>, generation |-> slots[i].generation,
             fd |-> slots[i].fd, events |-> SlotEvents(i)]
UsbEvents(n) == IF n = MonFd THEN {"read"} ELSE {"write"}
WantU(n) == [owner |-> <<"usb", 0>>, generation |-> n, fd |-> n, events |-> UsbEvents(n)]

\* Wanted holds one registration per listener, client and libusb descriptor.
LEMMA WantedIs ==
    /\ \A l \in Ls : WantL(l) \in Wanted
    /\ \A i \in Slots : HasClient(i) => WantS(i) \in Wanted
    /\ \A n \in usb : WantU(n) \in Wanted
    /\ \A w \in Wanted : \/ \E l \in Ls : w = WantL(l)
                         \/ \E i \in Slots : HasClient(i) /\ w = WantS(i)
                         \/ \E n \in usb : w = WantU(n)
  BY DEF Wanted, WantL, WantS, WantU, UsbGeneration, UsbEvents

\* The owner tells registrations apart.
LEMMA OwnersDiffer ==
    /\ \A l, i : <<"listen", l>> # <<"slot", i>> /\ <<"listen", l>> # <<"usb", i>>
    /\ \A l, i : <<"slot", l>> # <<"usb", i>>
    /\ \A l, i : <<"listen", l>> = <<"listen", i>> => l = i
    /\ \A l, i : <<"slot", l>> = <<"slot", i>> => l = i
  OBVIOUS

\* The fields of the wanted registrations.
LEMMA WantFields ==
    /\ \A l : /\ WantL(l).owner = <<"listen", l>> /\ WantL(l).generation = 1
              /\ WantL(l).fd = l /\ WantL(l).events = {"read"}
    /\ \A i : /\ WantS(i).owner = <<"slot", i>> /\ WantS(i).generation = slots[i].generation
              /\ WantS(i).fd = slots[i].fd /\ WantS(i).events = SlotEvents(i)
    /\ \A n : /\ WantU(n).owner = <<"usb", 0>> /\ WantU(n).generation = n
              /\ WantU(n).fd = n /\ WantU(n).events = UsbEvents(n)
  BY DEF WantL, WantS, WantU

\* No descriptor and no owner is wanted twice.
LEMMA WantedOnce ==
    ASSUME TypeOK, OwnersInv, NEW v \in Wanted, NEW w \in Wanted,
           v.fd = w.fd \/ SameOwner(v, w)
    PROVE  v = w
<1>1. \A l \in Ls : fdt[l].kind = "listen"
  BY Kinds DEF OwnersInv, ListenersInv
<1>2. \A n \in usb : fdt[n].kind = "usb"
  BY Kinds DEF OwnersInv, UsbInv
<1>3. \A i \in Slots : HasClient(i) => fdt[slots[i].fd].kind = "client"
  BY DEF OwnersInv, SlotsInv
<1>4. \A i, j \in Slots : HasClient(i) /\ slots[i].fd = slots[j].fd => i = j
  BY DEF OwnersInv, SlotsInv
<1>5. CASE v.fd = w.fd
  BY <1>1, <1>2, <1>3, <1>4, <1>5, WantedIs, WantFields
<1>6. CASE SameOwner(v, w)
  BY <1>6, WantedIs, WantFields, OwnersDiffer DEF SameOwner
<1>7. QED
  BY <1>5, <1>6

\* A registration in the table, by its owner's kind.
LEMMA RegFields ==
    ASSUME KindsInv, NEW r \in regs
    PROVE  /\ \A l : r.owner = <<"listen", l>> => l \in Ls /\ r = WantL(l)
           /\ r.owner = <<"usb", 0>> => r.generation \in Fds /\ r = WantU(r.generation)
<1>1. ListenerReg(r) \/ UsbReg(r) \/ \E i \in Slots : OfSlot(r, i)
  BY DEF KindsInv
<1>2. CASE ListenerReg(r)
  <2>1. PICK l \in Ls : r = WantL(l)
    BY <1>2, Zenon DEF ListenerReg, WantL
  <2>2. QED
    BY <2>1, WantFields, OwnersDiffer
<1>3. CASE UsbReg(r)
  <2>1. PICK n \in Fds : r = WantU(n)
    BY <1>3, Zenon DEF UsbReg, WantU, UsbEvents
  <2>2. QED
    BY <2>1, WantFields, OwnersDiffer
<1>4. CASE \E i \in Slots : OfSlot(r, i)
  BY <1>4, OwnersDiffer DEF OfSlot
<1>5. QED
  BY <1>1, <1>2, <1>3, <1>4

\* What is wanted depends on the slots and the libusb descriptors.
LEMMA WantedKept ==
    ASSUME UNCHANGED <<slots, usb>>
    PROVE  Wanted' = Wanted
  BY DEF Wanted, HasClient, SlotEvents, UsbGeneration

-----------------------------------------------------------------------------
(* daemon_io_sync_event_fds.                                               *)

\* No EEXIST: a number the kernel still watches is registered by the owner
\* it has now.
LEMMA NoAddFails ==
    ASSUME TypeOK, OwnersInv, TableInv, NEW w \in Wanted
    PROVE  ~AddFails(w)
<1> SUFFICES ASSUME interest[w.fd] # NoInterest PROVE Found(w)
  BY DEF AddFails
<1>1. w.fd \in Fds
  BY WantedIs, WantFields, Numbers DEF TypeOK, SlotRecords, HasClient, OwnersInv, UsbInv
<1>2. Registered(w.fd)
  BY <1>1 DEF TableInv, WatchedInv
<1>3. KindsInv
  BY DEF TableInv
<1>4. CASE w.fd \in Ls /\ \E r \in regs : r.owner = <<"listen", w.fd>>
  <2>1. PICK r \in regs : r.owner = <<"listen", w.fd>>
    BY <1>4
  <2>2. r = WantL(w.fd)
    BY <1>3, <2>1, RegFields
  <2>3. WantL(w.fd) \in Wanted /\ WantL(w.fd).fd = w.fd
    BY <1>4, WantedIs, WantFields
  <2>4. WantL(w.fd) = w
    BY <2>3, WantedOnce
  <2>5. QED
    BY <2>2, <2>4 DEF Found, SameOwner
<1>5. CASE w.fd \in usb /\ \E r \in regs : r.owner = <<"usb", 0>> /\ r.generation = w.fd
  <2>1. PICK r \in regs : r.owner = <<"usb", 0>> /\ r.generation = w.fd
    BY <1>5
  <2>2. WantU(w.fd) \in Wanted /\ WantU(w.fd).fd = w.fd
    BY <1>5, WantedIs, WantFields
  <2>3. WantU(w.fd) = w
    BY <2>2, WantedOnce
  <2>4. w.owner = <<"usb", 0>> /\ w.generation = w.fd
    BY <2>3, WantFields
  <2>5. QED
    BY <2>1, <2>4 DEF Found, SameOwner
<1>6. ASSUME NEW i \in Slots, HasClient(i), slots[i].fd = w.fd,
             NEW r \in regs, OfSlot(r, i)
      PROVE  Found(w)
  <2>1. WantS(i) \in Wanted /\ WantS(i).fd = w.fd
    BY <1>6, WantedIs, WantFields
  <2>2. WantS(i) = w
    BY <2>1, WantedOnce
  <2>3. w.owner = <<"slot", i>> /\ w.generation = slots[i].generation
    BY <2>2, WantFields
  <2>4. r.owner = <<"slot", i>> /\ r.generation = slots[i].generation
    BY <1>6 DEF TableInv, SlotRegsInv, OfSlot
  <2>5. QED
    BY <2>3, <2>4 DEF Found, SameOwner
<1>7. QED
  BY <1>2, <1>4, <1>5, <1>6, Zenon DEF Registered

\* No ENOENT: only a client's events change, and the kernel watches what the
\* table knows of a client.
LEMMA NoModFails ==
    ASSUME TypeOK, OwnersInv, TableInv, NEW w \in Wanted
    PROVE  ~ModFails(w)
<1> SUFFICES ASSUME NEW r \in regs, SameOwner(r, w), ~Same(w), interest[w.fd] = NoInterest
             PROVE  FALSE
  BY DEF ModFails, Found
<1>1. KindsInv
  BY DEF TableInv
<1>2. r.owner = w.owner /\ r.generation = w.generation /\ r.events # w.events
  BY DEF SameOwner, Same
<1>3. ASSUME NEW l \in Ls, w = WantL(l) PROVE FALSE
  BY <1>1, <1>2, <1>3, WantFields, RegFields
<1>4. ASSUME NEW n \in usb, w = WantU(n) PROVE FALSE
  <2>1. r.owner = <<"usb", 0>> /\ r.generation = n
    BY <1>2, <1>4, WantFields
  <2>2. r = WantU(n)
    BY <1>1, <2>1, RegFields
  <2>3. QED
    BY <1>2, <1>4, <2>2
<1>5. ASSUME NEW i \in Slots, HasClient(i), w = WantS(i) PROVE FALSE
  <2>1. OfSlot(r, i) /\ w.fd = slots[i].fd
    BY <1>2, <1>5, WantFields DEF OfSlot
  <2>2. r.fd = w.fd /\ interest[r.fd] = [file |-> fdt[r.fd], events |-> r.events]
    BY <1>5, <2>1 DEF TableInv, SlotRegsInv
  <2>3. interest[w.fd].file = fdt[w.fd]
    BY <2>2
  <2>4. fdt[w.fd].kind = "client"
    BY <1>5, <2>1 DEF OwnersInv, SlotsInv
  <2>5. NoInterest.file.kind = "none"
    BY Kinds DEF NoInterest
  <2>6. QED
    BY <2>3, <2>4, <2>5
<1>6. QED
  BY <1>3, <1>4, <1>5, WantedIs

\* After the MODs and ADDs the kernel watches every wanted listener and
\* client as wanted.
LEMMA SyncWatches ==
    ASSUME TypeOK, OwnersInv, TableInv, SyncBegin
    PROVE  /\ \A l \in Ls : interest'[l] = [file |-> Listening(l), events |-> {"read"}]
           /\ \A i \in Slots : HasClient(i) =>
                 interest'[slots[i].fd] = [file |-> fdt[slots[i].fd], events |-> SlotEvents(i)]
           /\ \A n \in Fds : interest'[n] # NoInterest => \E w \in Wanted : w.fd = n
           /\ regs' = {r \in regs : \A w \in Wanted : ~SameOwner(r, w)} \union Wanted
<1>1. \A w \in Wanted : ~AddFails(w) /\ ~ModFails(w)
  BY NoAddFails, NoModFails
<1>2. regs' = {r \in regs : \A w \in Wanted : ~SameOwner(r, w)} \union Wanted
  BY <1>1 DEF SyncBegin
<1>3. interest' = [n \in Fds |->
          IF \E w \in Wanted : w.fd = n /\ Applied(w)
          THEN [file |-> fdt[n], events |-> (CHOOSE w \in Wanted : w.fd = n).events]
          ELSE interest[n]]
  BY DEF SyncBegin
<1>4. ASSUME NEW w \in Wanted, w.fd \in Fds, ~Same(w)
      PROVE  interest'[w.fd] = [file |-> fdt[w.fd], events |-> w.events]
  <2>1. Applied(w)
    BY <1>1, <1>4 DEF Applied
  <2>2. (CHOOSE v \in Wanted : v.fd = w.fd) = w
    <3>1. (CHOOSE v \in Wanted : v.fd = w.fd) \in Wanted
          /\ (CHOOSE v \in Wanted : v.fd = w.fd).fd = w.fd
      OBVIOUS
    <3>2. QED
      BY <3>1, WantedOnce
  <2>3. QED
    BY <1>3, <1>4, <2>1, <2>2
<1>5. ASSUME NEW w \in Wanted, w.fd \in Fds, Same(w)
      PROVE  interest'[w.fd] = interest[w.fd]
  <2>1. ASSUME NEW v \in Wanted, v.fd = w.fd PROVE ~Applied(v)
    <3>1. v = w
      BY <2>1, WantedOnce
    <3>2. QED
      BY <1>5, <3>1 DEF Applied
  <2>2. QED
    BY <1>3, <1>5, <2>1
<1>6. KindsInv
  BY DEF TableInv
<1>7. ASSUME NEW l \in Ls
      PROVE  interest'[l] = [file |-> Listening(l), events |-> {"read"}]
  <2>1. WantL(l) \in Wanted /\ WantL(l).fd = l /\ WantL(l).events = {"read"} /\ l \in Fds
        /\ WantL(l).owner = <<"listen", l>>
    BY WantedIs, WantFields, Numbers
  <2>2. fdt[l] = Listening(l)
    BY DEF OwnersInv, ListenersInv
  <2>3. CASE Same(WantL(l))
    <3>1. PICK r \in regs : r.owner = <<"listen", l>>
      BY <2>1, <2>3 DEF Same, SameOwner
    <3>2. interest[l] = [file |-> Listening(l), events |-> {"read"}]
      BY <3>1 DEF TableInv, ListenerRegsInv
    <3>3. QED
      BY <1>5, <2>1, <2>3, <3>2
  <2>4. CASE ~Same(WantL(l))
    BY <1>4, <2>1, <2>2, <2>4
  <2>5. QED
    BY <2>3, <2>4
<1>8. ASSUME NEW i \in Slots, HasClient(i)
      PROVE  interest'[slots[i].fd] = [file |-> fdt[slots[i].fd], events |-> SlotEvents(i)]
  <2>1. WantS(i) \in Wanted /\ WantS(i).fd = slots[i].fd /\ WantS(i).events = SlotEvents(i)
        /\ WantS(i).owner = <<"slot", i>>
    BY <1>8, WantedIs, WantFields
  <2>2. slots[i].fd \in Fds
    BY <1>8 DEF TypeOK, SlotRecords, HasClient
  <2>3. CASE Same(WantS(i))
    <3>1. PICK r \in regs : r.owner = <<"slot", i>> /\ r.events = SlotEvents(i)
      BY <2>1, <2>3 DEF Same, SameOwner
    <3>2. r.fd = slots[i].fd /\ interest[r.fd] = [file |-> fdt[r.fd], events |-> r.events]
      BY <1>8, <3>1 DEF TableInv, SlotRegsInv, OfSlot
    <3>3. QED
      BY <1>5, <2>1, <2>2, <2>3, <3>1, <3>2
  <2>4. CASE ~Same(WantS(i))
    BY <1>4, <2>1, <2>2, <2>4
  <2>5. QED
    BY <2>3, <2>4
<1>9. ASSUME NEW n \in Fds, interest'[n] # NoInterest
      PROVE  \E w \in Wanted : w.fd = n
  <2>1. SUFFICES ASSUME \A w \in Wanted : w.fd # n PROVE FALSE
    OBVIOUS
  <2>2. interest[n] # NoInterest
    BY <1>3, <1>9, <2>1
  <2>3. Registered(n)
    BY <2>2 DEF TableInv, WatchedInv
  <2>4. QED
    BY <2>1, <2>3, WantedIs, WantFields DEF Registered
<1>10. QED
  BY <1>2, <1>7, <1>8, <1>9

\* The new table: what it had of owners nobody wants any more, and what is
\* wanted.
LEMMA SyncTable ==
    ASSUME TypeOK, OwnersInv, TableInv, SyncBegin
    PROVE  TableInv'
<1>1. /\ \A l \in Ls : interest'[l] = [file |-> Listening(l), events |-> {"read"}]
      /\ \A i \in Slots : HasClient(i) =>
            interest'[slots[i].fd] = [file |-> fdt[slots[i].fd], events |-> SlotEvents(i)]
      /\ \A n \in Fds : interest'[n] # NoInterest => \E w \in Wanted : w.fd = n
      /\ regs' = {r \in regs : \A w \in Wanted : ~SameOwner(r, w)} \union Wanted
  BY SyncWatches
<1>2. UNCHANGED <<fdt, slots, usb>> /\ pc' = "forget"
  BY Zenon DEF SyncBegin
<1>3. Wanted' = Wanted
  BY <1>2, WantedKept
<1>4. \A i : HasClient(i)' = HasClient(i)
  BY <1>2 DEF HasClient
<1>5. KindsInv'
  <2>1. ASSUME NEW w \in Wanted
        PROVE  ListenerReg(w) \/ UsbReg(w) \/ \E i \in Slots : OfSlot(w, i)
    <3>1. \A l \in Ls : ListenerReg(WantL(l))
      BY Zenon DEF ListenerReg, WantL
    <3>2. \A n \in usb : UsbReg(WantU(n))
      BY Zenon DEF UsbReg, WantU, UsbEvents, OwnersInv, UsbInv
    <3>3. \A i \in Slots : OfSlot(WantS(i), i)
      BY WantFields DEF OfSlot
    <3>4. QED
      BY <3>1, <3>2, <3>3, WantedIs
  <2>2. \A r \in regs' : ListenerReg(r) \/ UsbReg(r) \/ \E i \in Slots : OfSlot(r, i)
    BY <1>1, <2>1 DEF TableInv, KindsInv
  <2>3. QED
    BY <2>2, Zenon DEF KindsInv
<1>6. ASSUME NEW i \in Slots, NEW r \in regs', OfSlot(r, i)
      PROVE  (r = WantS(i) /\ HasClient(i)) \/ (r \in regs /\ ~HasClient(i))
  <2>1. CASE r \in Wanted
    BY <1>6, <2>1, WantedIs, WantFields, OwnersDiffer DEF OfSlot
  <2>2. CASE r \in regs /\ \A w \in Wanted : ~SameOwner(r, w)
    <3>1. ASSUME HasClient(i) PROVE FALSE
      <4>1. r.generation = slots[i].generation
        BY <1>6, <2>2, <3>1 DEF TableInv, SlotRegsInv
      <4>2. SameOwner(r, WantS(i)) /\ WantS(i) \in Wanted
        BY <1>6, <3>1, <4>1, WantedIs, WantFields DEF SameOwner, OfSlot
      <4>3. QED
        BY <2>2, <4>2
    <3>2. QED
      BY <2>2, <3>1
  <2>3. QED
    BY <1>1, <1>6, <2>1, <2>2
<1>7. SlotRegsInv'
  <2>1. \A i \in Slots : \A r, q \in regs' : OfSlot(r, i) /\ OfSlot(q, i) => r = q
    BY <1>6 DEF TableInv, SlotRegsInv
  <2>2. \A i \in Slots : \A r \in regs' : OfSlot(r, i) /\ HasClient(i) =>
          /\ r.generation = slots[i].generation /\ r.fd = slots[i].fd
          /\ interest'[r.fd] = [file |-> fdt[r.fd], events |-> r.events]
    BY <1>1, <1>6, WantFields
  <2>3. QED
    BY <1>2, <1>4, <2>1, <2>2 DEF SlotRegsInv, OfSlot
<1>8. ListenerRegsInv'
  BY <1>1 DEF ListenerRegsInv
<1>9. WatchedInv'
  <2>1. ASSUME NEW w \in Wanted
        PROVE  Registered(w.fd)'
    <3>1. w \in regs'
      BY <1>1
    <3>2. ASSUME NEW l \in Ls, w = WantL(l) PROVE Registered(w.fd)'
      BY <3>1, <3>2, WantFields DEF Registered
    <3>3. ASSUME NEW n \in usb, w = WantU(n) PROVE Registered(w.fd)'
      BY <1>2, <3>1, <3>3, WantFields DEF Registered
    <3>4. ASSUME NEW i \in Slots, HasClient(i), w = WantS(i) PROVE Registered(w.fd)'
      BY <1>2, <1>4, <3>1, <3>4, WantFields DEF Registered, OfSlot
    <3>5. QED
      BY <3>2, <3>3, <3>4, WantedIs
  <2>2. QED
    BY <1>1, <2>1 DEF WatchedInv
<1>10. PassInv'
  BY <1>1, <1>2, <1>3 DEF PassInv
<1>11. QED
  BY <1>5, <1>7, <1>8, <1>9, <1>10 DEF TableInv

\* reconcile_end leaves what is wanted and takes nothing of it from the
\* kernel.
LEMMA ForgetTable ==
    ASSUME TypeOK, OwnersInv, TableInv, SyncEnd
    PROVE  TableInv'
<1>1. UNCHANGED <<fdt, slots, usb>> /\ pc = "forget" /\ pc' = "wait"
      /\ regs' = regs \ Forgotten
      /\ interest' = [n \in Fds |-> IF n \in ToDelete THEN NoInterest ELSE interest[n]]
  BY Zenon DEF SyncEnd
<1>2. Wanted' = Wanted
  BY <1>1, WantedKept
<1>3. regs' = Wanted /\ regs' \subseteq regs
  BY <1>1 DEF Forgotten, TableInv, PassInv
<1>4. \A i : HasClient(i)' = HasClient(i)
  BY <1>1 DEF HasClient
<1>5. \A w \in Wanted : w.fd \notin ToDelete
  BY DEF ToDelete, FdSeenCurrent
<1>6. KindsInv'
  BY <1>3 DEF TableInv, KindsInv
<1>7. SlotRegsInv'
  <2>1. \A i \in Slots : \A r \in regs' : OfSlot(r, i) /\ HasClient(i) =>
          interest'[r.fd] = interest[r.fd]
    <3> SUFFICES ASSUME NEW i \in Slots, NEW r \in regs', OfSlot(r, i), HasClient(i)
                 PROVE  interest'[r.fd] = interest[r.fd]
      OBVIOUS
    <3>1. r.fd = slots[i].fd
      BY <1>3 DEF TableInv, SlotRegsInv
    <3>2. slots[i].fd \in Fds
      BY DEF TypeOK, SlotRecords, HasClient
    <3>3. QED
      BY <1>1, <1>3, <1>5, <3>1, <3>2
  <2>2. QED
    BY <1>1, <1>3, <1>4, <2>1 DEF TableInv, SlotRegsInv, OfSlot
<1>8. ListenerRegsInv'
  <2>1. \A l \in Ls : interest'[l] = interest[l]
    BY <1>1, <1>5, WantedIs, WantFields, Numbers
  <2>2. QED
    BY <1>3, <2>1 DEF TableInv, ListenerRegsInv
<1>9. WatchedInv'
  <2> SUFFICES ASSUME NEW n \in Fds, interest'[n] # NoInterest PROVE Registered(n)'
    BY DEF WatchedInv
  <2>1. interest[n] # NoInterest
    BY <1>1
  <2>2. Registered(n)
    BY <2>1 DEF TableInv, WatchedInv
  <2>3. CASE n \in Ls
    <3>1. WantL(n) \in regs' /\ WantL(n).owner = <<"listen", n>>
      BY <1>3, <2>3, WantedIs, WantFields
    <3>2. QED
      BY <2>3, <3>1 DEF Registered
  <2>4. CASE n \in usb
    <3>1. WantU(n) \in regs' /\ WantU(n).owner = <<"usb", 0>> /\ WantU(n).generation = n
      BY <1>3, <2>4, WantedIs, WantFields
    <3>2. QED
      BY <1>1, <2>4, <3>1 DEF Registered
  <2>5. ASSUME NEW i \in Slots, HasClient(i), slots[i].fd = n PROVE Registered(n)'
    <3>1. WantS(i) \in regs' /\ OfSlot(WantS(i), i)
      BY <1>3, <2>5, WantedIs, WantFields DEF OfSlot
    <3>2. QED
      BY <1>1, <1>4, <2>5, <3>1 DEF Registered, OfSlot
  <2>6. QED
    BY <2>2, <2>3, <2>4, <2>5 DEF Registered
<1>10. PassInv'
  <2>1. ASSUME NEW i \in Slots, NEW r \in regs', OfSlot(r, i) PROVE HasClient(i)
    BY <1>3, <2>1, WantedIs, WantFields, OwnersDiffer DEF OfSlot
  <2>2. QED
    BY <1>1, <1>2, <1>3, <1>4, <2>1 DEF PassInv, OfSlot
<1>11. QED
  BY <1>6, <1>7, <1>8, <1>9, <1>10 DEF TableInv

\* A step that leaves the table, the clients it knows of and their files as
\* they are.
LEMMA SlotRegsKept ==
    ASSUME SlotRegsInv, regs' = regs,
           \A i \in Slots : \A r \in regs : OfSlot(r, i) /\ HasClient(i)' =>
              /\ HasClient(i)
              /\ slots'[i].generation = slots[i].generation /\ slots'[i].fd = slots[i].fd
              /\ interest'[slots[i].fd] = interest[slots[i].fd]
              /\ fdt'[slots[i].fd] = fdt[slots[i].fd]
    PROVE  SlotRegsInv'
<1>1. \A i \in Slots : \A r, q \in regs' : OfSlot(r, i) /\ OfSlot(q, i) => r = q
  BY DEF SlotRegsInv
<1>2. ASSUME NEW i \in Slots, NEW r \in regs', OfSlot(r, i), HasClient(i)'
      PROVE  /\ r.generation = slots'[i].generation /\ r.fd = slots'[i].fd
             /\ interest'[r.fd] = [file |-> fdt'[r.fd], events |-> r.events]
  <2>1. /\ r.generation = slots[i].generation /\ r.fd = slots[i].fd
        /\ interest[r.fd] = [file |-> fdt[r.fd], events |-> r.events]
    BY <1>2 DEF SlotRegsInv
  <2>2. QED
    BY <1>2, <2>1
<1>3. QED
  BY <1>1, <1>2 DEF SlotRegsInv, OfSlot

\* Every step keeps the table and the kernel's set together.
LEMMA TableStep ==
    ASSUME TypeOK, PlaceInv, OwnersInv, TableInv, [Next]_vars
    PROVE  TableInv'
<1> USE DEF TableInv
<1>1. CASE Idle \/ UNCHANGED vars
  <2>1. UNCHANGED <<fdt, interest, regs, slots, usb>>
    BY <1>1, IdleKeeps DEF vars
  <2>2. pc' = pc \/ (pc = "wait" /\ pc' \in {"usb", "stopped"})
    BY <1>1, Zenon DEF Idle, Wait, WaitInterrupted, WaitRefuses, Stopped, Connect, PeerSends, vars
  <2>3. Wanted' = Wanted
    BY <2>1, WantedKept
  <2>4. KindsInv' /\ SlotRegsInv' /\ ListenerRegsInv' /\ WatchedInv'
    BY <2>1 DEF KindsInv, SlotRegsInv, ListenerRegsInv, WatchedInv, Registered, HasClient, OfSlot
  <2>5. PassInv'
    BY <2>1, <2>2, <2>3 DEF PassInv, HasClient, OfSlot
  <2>6. QED
    BY <2>4, <2>5
<1>2. CASE UsbTick
  <2>1. UNCHANGED <<regs, slots>> /\ pc = "usb" /\ pc' = "accept"
    BY <1>2, Zenon DEF UsbTick
  <2>2. \A i : HasClient(i)' = HasClient(i)
    BY <2>1 DEF HasClient
  <2>3. KindsInv' /\ PassInv'
    BY <2>1, <2>2 DEF KindsInv, PassInv, OfSlot
  <2>4. ASSUME NEW n \in Fds, fdt[n].kind \notin {"listen", "client"},
               \A m \in Fds : m # n => fdt'[m] = fdt[m] /\ interest'[m] = interest[m],
               \A m \in usb : m # n => m \in usb',
               interest'[n] = NoInterest
        PROVE  SlotRegsInv' /\ ListenerRegsInv' /\ WatchedInv'
    <3>1. n \notin Ls /\ \A i \in Slots : HasClient(i) => slots[i].fd # n
      BY <2>4, Kinds DEF OwnersInv, ListenersInv, SlotsInv
    <3>2. \A i \in Slots : HasClient(i) => slots[i].fd \in Fds
      BY DEF TypeOK, SlotRecords, HasClient
    <3>3. SlotRegsInv'
      BY <2>1, <2>2, <2>4, <3>1, <3>2, SlotRegsKept
    <3>4. ListenerRegsInv'
      BY <2>1, <2>4, <3>1, Numbers DEF ListenerRegsInv
    <3>5. WatchedInv'
      BY <2>1, <2>2, <2>4 DEF WatchedInv, Registered, OfSlot
    <3>6. QED
      BY <3>3, <3>4, <3>5
  <2>5. CASE UNCHANGED <<fdt, interest, usb>>
    BY <2>1, <2>2, <2>3, <2>5 DEF SlotRegsInv, ListenerRegsInv, WatchedInv, Registered, OfSlot
  <2>6. ASSUME FreeFds # {}, fdt' = Opened(Lowest(FreeFds), Handle),
               usb' = usb \union {Lowest(FreeFds)}, interest' = interest
        PROVE  TableInv'
    <3>1. Lowest(FreeFds) \in Fds /\ fdt[Lowest(FreeFds)] = Closed
      BY <2>6, LowestFree
    <3>2. interest[Lowest(FreeFds)] = NoInterest
      BY <3>1 DEF OwnersInv, ClosedInv
    <3>3. \A m \in Fds : m # Lowest(FreeFds) => fdt'[m] = fdt[m]
      BY <2>6, <3>1 DEF Opened, TypeOK
    <3>4. fdt[Lowest(FreeFds)].kind = "none"
      BY <3>1, Kinds
    <3>5. QED
      BY <2>3, <2>4, <2>6, <3>1, <3>2, <3>3, <3>4
  <2>7. ASSUME NEW n \in usb \ {MonFd}, fdt' = AfterClose({n}) \/ fdt' = fdt,
               interest' = InterestAfterClose({n}), usb' = usb \ {n} \/ usb' = usb
        PROVE  TableInv'
    <3>1. n \in Fds /\ fdt[n].kind = "usb"
      BY Kinds DEF OwnersInv, UsbInv
    <3>2. \A m \in Fds : m # n => fdt'[m] = fdt[m] /\ interest'[m] = interest[m]
      BY <2>7 DEF AfterClose, InterestAfterClose
    <3>3. interest'[n] = NoInterest
      BY <2>7, <3>1 DEF InterestAfterClose
    <3>4. QED
      BY <2>3, <2>4, <2>7, <3>1, <3>2, <3>3
  <2>8. QED
    BY <1>2, <2>5, <2>6, <2>7, Zenon DEF UsbTick
<1>3. CASE AcceptStep
  <2>1. /\ UNCHANGED <<fdt, slots>> \/ \E i, n, c : Accepts(i, n, c)
        /\ UNCHANGED <<interest, regs, usb>>
        /\ pc = "accept" /\ pc' \in {"accept", "read"}
    BY <1>3, AcceptEffect, Zenon
  <2>2. KindsInv' /\ ListenerRegsInv'
    BY <2>1 DEF KindsInv, ListenerRegsInv
  <2>3. CASE UNCHANGED <<fdt, slots>>
    BY <2>1, <2>2, <2>3 DEF SlotRegsInv, WatchedInv, Registered, HasClient, OfSlot, PassInv
  <2>4. ASSUME NEW i, NEW n, NEW c, Accepts(i, n, c) PROVE TableInv'
    <3>1. i \in Slots /\ ~HasClient(i) /\ n \in Fds /\ fdt[n] = Closed
          /\ \A m \in Fds : m # n => fdt'[m] = fdt[m]
      BY <2>4 DEF Accepts, Opened, TypeOK
    <3>2. \A j \in Slots : j # i => slots'[j] = slots[j] /\ HasClient(j)' = HasClient(j)
      BY <2>4 DEF Accepts, TypeOK, HasClient
    <3>3. \A r \in regs : ~OfSlot(r, i)
      BY <2>1, <3>1 DEF PassInv
    <3>4. \A j \in Slots : HasClient(j) => slots[j].fd \in Fds /\ slots[j].fd # n
      BY <3>1, Kinds DEF TypeOK, SlotRecords, HasClient, OwnersInv, SlotsInv
    <3>5. SlotRegsInv'
      BY <2>1, <3>1, <3>2, <3>3, <3>4, SlotRegsKept
    <3>6. WatchedInv'
      <4> SUFFICES ASSUME NEW m \in Fds, interest'[m] # NoInterest PROVE Registered(m)'
        BY DEF WatchedInv
      <4>1. Registered(m)
        BY <2>1 DEF WatchedInv
      <4>2. \A j \in Slots : HasClient(j) /\ slots[j].fd = m => HasClient(j)' /\ slots'[j].fd = m
        BY <3>1, <3>2
      <4>3. QED
        BY <2>1, <4>1, <4>2 DEF Registered, OfSlot
    <3>7. PassInv'
      BY <2>1, <3>2, <3>3 DEF PassInv, OfSlot
    <3>8. QED
      BY <2>2, <3>5, <3>6, <3>7
  <2>5. QED
    BY <2>1, <2>3, <2>4
<1>4. CASE ReadStep \/ FlushStep \/ BroadcastStep
  <2>1. SlotStep(cursor) /\ UNCHANGED <<regs, usb>> /\ pc \in {"read", "flush", "poll"}
    BY <1>4, SlotSteps
  <2>2. cursor \in Slots
    BY <2>1 DEF PlaceInv
  <2>3. pc' \in {"read", "flush", "poll", "sync"}
    BY <1>4, <2>1, SlotSteps DEF NextSlot
  <2>4. KindsInv' /\ PassInv'
    BY <2>1, <2>3 DEF KindsInv, PassInv
  <2>5. CASE UNCHANGED <<kernelVars, slots>>
    BY <2>1, <2>4, <2>5 DEF SlotRegsInv, ListenerRegsInv, WatchedInv, Registered, HasClient, OfSlot,
       kernelVars
  <2>6. ASSUME NEW b \in BOOLEAN, KeepSlot(cursor, b) PROVE TableInv'
    <3>1. /\ UNCHANGED <<fdt, interest>>
          /\ \A i \in Slots : 
               slots'[i].fd = slots[i].fd /\ slots'[i].generation = slots[i].generation
      BY <2>2, <2>6 DEF TypeOK, KeepSlot, kernelVars, SlotRecords
    <3>2. \A i \in Slots : HasClient(i)' = HasClient(i)
      BY <3>1 DEF HasClient
    <3>3. SlotRegsInv'
      BY <2>1, <3>1, <3>2, SlotRegsKept
    <3>4. ListenerRegsInv'
      BY <2>1, <3>1 DEF ListenerRegsInv
    <3>5. WatchedInv'
      BY <2>1, <3>1, <3>2 DEF WatchedInv, Registered, OfSlot
    <3>6. QED
      BY <2>4, <3>3, <3>4, <3>5
  <2>7. ASSUME HasClient(cursor), CloseSlot(cursor) PROVE TableInv'
    <3> DEFINE n == slots[cursor].fd
    <3>1. n \in Fds /\ fdt[n].kind = "client"
      BY <2>2, <2>7 DEF TypeOK, HasClient, SlotRecords, OwnersInv, SlotsInv
    <3>2. fdt' = AfterClose({n}) /\ interest' = InterestAfterClose({n})
      BY <2>7 DEF CloseSlot
    <3>3. \A i \in Slots : i # cursor => slots'[i] = slots[i] /\ HasClient(i)' = HasClient(i)
      BY <2>2, <2>7 DEF TypeOK, CloseSlot, HasClient
    <3>4. \A i \in Slots : i = cursor => ~HasClient(i)'
      BY <2>2, <2>7 DEF TypeOK, CloseSlot, HasClient
    <3>5. \A i \in Slots : i # cursor => slots[i].fd # n
      BY <2>2, <2>7 DEF OwnersInv, SlotsInv
    <3> HIDE DEF n
    <3>6. \A i \in Slots : HasClient(i) => slots[i].fd \in Fds
      BY DEF TypeOK, SlotRecords, HasClient
    <3>7. /\ \A m \in Fds : m # n => fdt'[m] = fdt[m] /\ interest'[m] = interest[m]
          /\ interest'[n] = NoInterest
      BY <3>1, <3>2 DEF AfterClose, InterestAfterClose
    <3>8. SlotRegsInv'
      BY <2>1, <3>3, <3>4, <3>5, <3>6, <3>7, SlotRegsKept
    <3>9. ListenerRegsInv'
      BY <2>1, <3>1, <3>7, Numbers, Kinds DEF ListenerRegsInv, OwnersInv, ListenersInv
    <3>10. WatchedInv'
      <4> SUFFICES ASSUME NEW m \in Fds, interest'[m] # NoInterest PROVE Registered(m)'
        BY DEF WatchedInv
      <4>1. m # n /\ Registered(m)
        BY <3>7 DEF WatchedInv
      <4>2. \A i \in Slots : HasClient(i) /\ slots[i].fd = m =>
              i # cursor /\ HasClient(i)' /\ slots'[i].fd = m
        BY <3>3, <4>1 DEF n
      <4>3. QED
        BY <2>1, <4>1, <4>2 DEF Registered, OfSlot
    <3>11. QED
      BY <2>4, <3>8, <3>9, <3>10
  <2>8. QED
    BY <2>1, <2>5, <2>6, <2>7, Zenon DEF SlotStep
<1>5. CASE SyncBegin
  BY <1>5, SyncTable
<1>6. CASE SyncEnd
  BY <1>6, ForgetTable
<1>7. CASE RollBegins \/ RollEnds
  <2>1. UNCHANGED <<interest, regs, slots, usb, pc>>
    BY <1>7, Zenon DEF RollBegins, RollEnds
  <2>2. \A m \in Fds : fdt[m].kind = "client" => fdt'[m] = fdt[m]
    <3>1. CASE RollBegins
      <4>1. FreeFds # {} /\ fdt' = Opened(Lowest(FreeFds), Regular)
        BY <3>1, Zenon DEF RollBegins
      <4>2. Lowest(FreeFds) \in Fds /\ fdt[Lowest(FreeFds)].kind = "none"
        BY <4>1, LowestFree, Kinds
      <4>3. QED
        BY <4>1, <4>2 DEF Opened, TypeOK
    <3>2. CASE RollEnds
      <4>1. rolling # NoFd /\ fdt' = AfterClose({rolling})
        BY <3>2, Zenon DEF RollEnds
      <4>2. fdt[rolling].kind = "file"
        BY <4>1, Kinds DEF OwnersInv, RollInv
      <4>3. QED
        BY <4>1, <4>2 DEF AfterClose
    <3>3. QED
      BY <1>7, <3>1, <3>2
  <2>3. Wanted' = Wanted
    BY <2>1, WantedKept
  <2>4. \A i \in Slots : HasClient(i) => fdt'[slots[i].fd] = fdt[slots[i].fd]
    BY <2>2 DEF TypeOK, SlotRecords, HasClient, OwnersInv, SlotsInv
  <2>5. SlotRegsInv'
    <3>1. \A i \in Slots : HasClient(i)' = HasClient(i)
      BY <2>1 DEF HasClient
    <3>2. QED
      BY <2>1, <2>4, <3>1, SlotRegsKept
  <2>6. KindsInv' /\ ListenerRegsInv' /\ WatchedInv'
    BY <2>1 DEF KindsInv, ListenerRegsInv, WatchedInv, Registered, HasClient, OfSlot
  <2>7. PassInv'
    BY <2>1, <2>3 DEF PassInv, HasClient, OfSlot
  <2>8. QED
    BY <2>5, <2>6, <2>7
<1>8. QED
  BY <1>1, <1>2, <1>3, <1>4, <1>5, <1>6, <1>7, NextSteps, Zenon DEF Steps

-----------------------------------------------------------------------------
(* The size of the table.                                                  *)

\* How large a union is.
LEMMA UnionSize ==
    ASSUME NEW S, NEW T, IsFiniteSet(S), IsFiniteSet(T)
    PROVE  /\ IsFiniteSet(S \union T) /\ Cardinality(S \union T) \in Nat
           /\ Cardinality(S \union T) <= Cardinality(S) + Cardinality(T)
<1>1. /\ IsFiniteSet(S \union T)
      /\ Cardinality(S \union T) = Cardinality(S) + Cardinality(T) - Cardinality(S \cap T)
  BY FS_Union
<1>2. IsFiniteSet(S \cap T)
  BY FS_Intersection
<1>3. /\ Cardinality(S) \in Nat /\ Cardinality(T) \in Nat /\ Cardinality(S \cap T) \in Nat
      /\ Cardinality(S \union T) \in Nat
  BY <1>1, <1>2, FS_CardinalityType
<1>4. QED
  BY <1>1, <1>3

\* Disjoint sets add up.
LEMMA DisjointSize ==
    ASSUME NEW S, NEW T, IsFiniteSet(S), IsFiniteSet(T), T \cap S = {}
    PROVE  Cardinality(S \union T) = Cardinality(S) + Cardinality(T)
<1>1. Cardinality(S \union T) = Cardinality(S) + Cardinality(T) - Cardinality(S \cap T)
  BY FS_Union
<1>2. Cardinality(S \cap T) = 0
  <2>1. S \cap T = {}
    OBVIOUS
  <2>2. QED
    BY <2>1, FS_EmptySet, Zenon
<1>3. Cardinality(S) \in Nat /\ Cardinality(T) \in Nat
  BY FS_CardinalityType
<1>4. QED
  BY <1>1, <1>2, <1>3

\* There are as many slots as listeners times MAX_CLIENTS, and the libusb
\* descriptors are finitely many.
LEMMA Finite ==
    ASSUME OwnersInv
    PROVE  /\ IsFiniteSet(Ls) /\ Cardinality(Ls) = Listeners
           /\ IsFiniteSet(Slots) /\ Cardinality(Slots) = Listeners * MaxClients
           /\ IsFiniteSet(usb)
<1> DEFINE m == Listeners * MaxClients
<1>1. m \in Nat \ {0} /\ Listeners \in Nat \ {0} /\ FdLimit \in Nat
  BY Sizes
<1>2. Ls = 1..Listeners /\ Slots = 1..m /\ Fds = 1..FdLimit
  BY DEF Ls, Slots, Fds
<1> HIDE DEF m
<1>3. \A k \in Nat : IsFiniteSet(1..k) /\ (k > 0 => Cardinality(1..k) = k)
  <2> SUFFICES ASSUME NEW k \in Nat
               PROVE  IsFiniteSet(1..k) /\ (k > 0 => Cardinality(1..k) = k)
    OBVIOUS
  <2>1. IsFiniteSet(1..k) /\ Cardinality(1..k) = IF 1 > k THEN 0 ELSE k - 1 + 1
    BY FS_Interval
  <2>2. QED
    BY <2>1
<1>4. IsFiniteSet(usb)
  BY <1>1, <1>2, <1>3, FS_Subset DEF OwnersInv, UsbInv
<1>5. QED
  BY <1>1, <1>2, <1>3, <1>4 DEF m

\* As many libusb registrations are wanted as there are libusb descriptors.
LEMMA UsbWanted ==
    ASSUME OwnersInv
    PROVE  /\ IsFiniteSet({WantU(n) : n \in usb})
           /\ Cardinality({WantU(n) : n \in usb}) <= MaxUsb
<1>1. IsFiniteSet(usb) /\ Cardinality(usb) <= MaxUsb /\ Cardinality(usb) \in Nat /\ MaxUsb \in Nat
  BY Finite, FS_CardinalityType, Sizes DEF OwnersInv, UsbInv
<1> DEFINE f == [n \in usb |-> WantU(n)]
           S == {WantU(n) : n \in usb}
<1>2. f \in Surjection(usb, S)
  BY DEF Surjection
<1>3. IsFiniteSet(S) /\ Cardinality(S) <= Cardinality(usb)
  BY <1>1, <1>2, FS_Surjection
<1>4. Cardinality(S) \in Nat
  BY <1>3, FS_CardinalityType
<1>5. QED
  BY <1>1, <1>3, <1>4

\* A listener's registration is the same in every pass, a slot has one, and
\* of the libusb descriptors those of this pass and the one before may be
\* there.
LEMMA RoomInTable ==
    ASSUME TypeOK, OwnersInv, TableInv, SizeInv, pc = "sync"
    PROVE  ~NoRoom
<1> DEFINE New == {w \in Wanted : ~Found(w)}
           All == regs \union New
           LReg == {r \in All : \E l \in Ls : r = WantL(l)}
           SReg == {r \in All : \E i \in Slots : OfSlot(r, i)}
           NewUsb == {WantU(n) : n \in usb}
<1>1. KindsInv
  BY DEF TableInv
<1>2. \A r \in New : \A q \in regs : ~SameOwner(q, r)
  BY DEF Found
<1>3. New \subseteq Wanted
  OBVIOUS
<1>4. New \cap regs = {}
  BY <1>2 DEF SameOwner
<1>5. All \subseteq (LReg \union SReg) \union (OldUsb \union NewUsb)
  <2>1. ASSUME NEW r \in regs PROVE r \in (LReg \union SReg) \union (OldUsb \union NewUsb)
    <3>1. CASE ListenerReg(r)
      <4>1. \E l \in Ls : r = WantL(l)
        BY <3>1, Zenon DEF ListenerReg, WantL
      <4>2. QED
        BY <4>1
    <3>2. CASE UsbReg(r)
      <4>1. r.owner = <<"usb", 0>>
        BY <3>2 DEF UsbReg
      <4>2. r.owner[1] = "usb"
        BY <4>1
      <4>3. QED
        BY <4>2 DEF OldUsb
    <3>3. CASE \E i \in Slots : OfSlot(r, i)
      BY <3>3
    <3>4. QED
      BY <1>1, <3>1, <3>2, <3>3 DEF KindsInv
  <2>2. ASSUME NEW w \in New PROVE w \in (LReg \union SReg) \union (OldUsb \union NewUsb)
    <3>1. \A i \in Slots : OfSlot(WantS(i), i)
      BY WantFields DEF OfSlot
    <3>2. QED
      BY <3>1, WantedIs
  <2>3. QED
    BY <2>1, <2>2
<1>6. ASSUME NEW i \in Slots, NEW r \in All, NEW q \in All, OfSlot(r, i), OfSlot(q, i)
      PROVE  r = q
  <2>1. ASSUME NEW w \in New, OfSlot(w, i)
        PROVE  HasClient(i) /\ w = WantS(i)
    BY <1>3, <2>1, WantedIs, WantFields, OwnersDiffer DEF OfSlot
  <2>2. ASSUME NEW w \in New, OfSlot(w, i), NEW z \in regs, OfSlot(z, i)
        PROVE  FALSE
    <3>1. HasClient(i) /\ w.generation = slots[i].generation
      BY <2>1, <2>2, WantFields
    <3>2. z.generation = slots[i].generation
      BY <2>2, <3>1 DEF TableInv, SlotRegsInv
    <3>3. SameOwner(z, w)
      BY <2>2, <3>1, <3>2 DEF SameOwner, OfSlot
    <3>4. QED
      BY <1>2, <2>2, <3>3
  <2>3. CASE r \in regs /\ q \in regs
    BY <1>6, <2>3 DEF TableInv, SlotRegsInv
  <2>4. QED
    BY <1>6, <2>1, <2>2, <2>3
<1>7. IsFiniteSet(LReg) /\ Cardinality(LReg) <= Listeners /\ Cardinality(LReg) \in Nat
  <2> DEFINE S == {WantL(l) : l \in Ls}
             f == [l \in Ls |-> WantL(l)]
  <2>1. f \in Surjection(Ls, S)
    BY DEF Surjection
  <2>2. IsFiniteSet(S) /\ Cardinality(S) <= Cardinality(Ls)
    BY <2>1, Finite, FS_Surjection
  <2>3. LReg \subseteq S
    OBVIOUS
  <2>4. IsFiniteSet(LReg) /\ Cardinality(LReg) <= Cardinality(S)
    BY <2>2, <2>3, FS_Subset
  <2>5. Cardinality(LReg) \in Nat /\ Cardinality(S) \in Nat /\ Cardinality(Ls) = Listeners
        /\ Listeners \in Nat
    BY <2>2, <2>4, FS_CardinalityType, Finite, Sizes
  <2>6. QED
    BY <2>2, <2>4, <2>5
<1>8. IsFiniteSet(SReg) /\ Cardinality(SReg) <= Listeners * MaxClients /\ Cardinality(SReg) \in Nat
  <2> DEFINE f == [r \in SReg |-> CHOOSE i \in Slots : OfSlot(r, i)]
  <2>1. \A r \in SReg : f[r] \in Slots /\ OfSlot(r, f[r])
    OBVIOUS
  <2>2. f \in [SReg -> Slots]
    BY <2>1
  <2> HIDE DEF f
  <2>3. \A r, q \in SReg : f[r] = f[q] => r = q
    BY <1>6, <2>1
  <2>4. f \in Injection(SReg, Slots)
    BY <2>2, <2>3 DEF Injection, IsInjective
  <2>5. IsFiniteSet(SReg) /\ Cardinality(SReg) <= Cardinality(Slots)
    BY <2>4, Finite, FS_Injection
  <2>6. Cardinality(SReg) \in Nat
    BY <2>5, FS_CardinalityType
  <2>7. QED
    BY <2>5, <2>6, Finite
<1>9. /\ IsFiniteSet(OldUsb) /\ Cardinality(OldUsb) <= MaxUsb /\ Cardinality(OldUsb) \in Nat
      /\ IsFiniteSet(NewUsb) /\ Cardinality(NewUsb) <= MaxUsb /\ Cardinality(NewUsb) \in Nat
  BY UsbWanted, FS_CardinalityType DEF SizeInv
<1> HIDE DEF LReg, SReg, NewUsb, New
<1>10. /\ IsFiniteSet(LReg \union SReg)
       /\ Cardinality(LReg \union SReg) <= Cardinality(LReg) + Cardinality(SReg)
       /\ Cardinality(LReg \union SReg) \in Nat
  BY <1>7, <1>8, UnionSize
<1>11. /\ IsFiniteSet(OldUsb \union NewUsb)
       /\ Cardinality(OldUsb \union NewUsb) <= Cardinality(OldUsb) + Cardinality(NewUsb)
       /\ Cardinality(OldUsb \union NewUsb) \in Nat
  BY <1>9, UnionSize
<1> DEFINE A == LReg \union SReg
           B == OldUsb \union NewUsb
<1>12. /\ IsFiniteSet(A \union B) /\ Cardinality(A \union B) <= Cardinality(A) + Cardinality(B)
       /\ Cardinality(A \union B) \in Nat
  BY <1>10, <1>11, UnionSize
<1>13. IsFiniteSet(All) /\ Cardinality(All) <= Cardinality(A \union B) /\ Cardinality(All) \in Nat
  BY <1>5, <1>12, FS_Subset, FS_CardinalityType
<1>14. /\ IsFiniteSet(regs) /\ IsFiniteSet(New)
       /\ Cardinality(regs) \in Nat /\ Cardinality(New) \in Nat
  BY <1>13, FS_Subset, FS_CardinalityType
<1>15. Cardinality(All) = Cardinality(regs) + Cardinality(New)
  BY <1>4, <1>14, DisjointSize
<1>16. Cardinality(All) <= Listeners + Listeners * MaxClients + (MaxUsb + MaxUsb)
  <2> DEFINE m == Listeners * MaxClients
  <2>1. m \in Nat /\ Listeners \in Nat /\ MaxUsb \in Nat
    BY Sizes
  <2>2. Cardinality(SReg) <= m
    BY <1>8
  <2> HIDE DEF m
  <2>3. Cardinality(A) <= Listeners + m
    BY <1>7, <1>8, <1>10, <2>1, <2>2
  <2>4. Cardinality(B) <= MaxUsb + MaxUsb
    BY <1>9, <1>11, <2>1
  <2> HIDE DEF A, B, All
  <2>5. Cardinality(A) \in Nat /\ Cardinality(B) \in Nat
    BY <1>10, <1>11 DEF A, B
  <2>6. Cardinality(All) <= Listeners + m + (MaxUsb + MaxUsb)
    BY <1>12, <1>13, <2>1, <2>3, <2>4, <2>5
  <2>7. QED
    BY <2>6 DEF m
<1>17. Cardinality(New) + Cardinality(regs) <= MaxRegistered
  <2> DEFINE m == Listeners * MaxClients
  <2>1. /\ m \in Nat /\ Listeners \in Nat /\ MaxUsb \in Nat /\ MaxRegistered \in Nat
        /\ MaxRegistered >= Listeners + m + 2 * MaxUsb
    BY Sizes
  <2>2. Cardinality(All) <= Listeners + m + (MaxUsb + MaxUsb)
    BY <1>16
  <2> HIDE DEF m, All
  <2>3. QED
    BY <1>13, <1>14, <1>15, <2>1, <2>2
<1>18. QED
  BY <1>14, <1>17, Sizes DEF NoRoom, New

\* The table's libusb registrations are replaced once per pass.
LEMMA SizeStep ==
    ASSUME TypeOK, PlaceInv, OwnersInv, TableInv, SizeInv, [Next]_vars
    PROVE  SizeInv'
<1>1. CASE SyncBegin
  <2>1. regs' = {r \in regs : \A w \in Wanted : ~SameOwner(r, w)} \union Wanted
    BY <1>1, SyncWatches
  <2>2. pc' = "forget"
    BY <1>1, Zenon DEF SyncBegin
  <2>3. \A w \in Wanted : w.owner[1] = "usb" => w \in {WantU(n) : n \in usb}
    BY WantedIs, WantFields
  <2>4. OldUsb' \subseteq OldUsb \union {WantU(n) : n \in usb}
    BY <2>1, <2>3 DEF OldUsb
  <2>5. IsFiniteSet(OldUsb \union {WantU(n) : n \in usb})
    BY UsbWanted, UnionSize DEF SizeInv
  <2>6. QED
    BY <2>2, <2>4, <2>5, FS_Subset DEF SizeInv
<1>2. CASE SyncEnd
  <2>1. pc = "forget" /\ regs' = regs \ Forgotten
    BY <1>2, Zenon DEF SyncEnd
  <2>2. regs' = Wanted
    BY <2>1 DEF Forgotten, TableInv, PassInv
  <2>3. OldUsb' \subseteq {WantU(n) : n \in usb}
    BY <2>2, WantedIs, WantFields DEF OldUsb
  <2>4. IsFiniteSet(OldUsb') /\ Cardinality(OldUsb') <= Cardinality({WantU(n) : n \in usb})
    BY <2>3, UsbWanted, FS_Subset
  <2>5. /\ Cardinality({WantU(n) : n \in usb}) \in Nat
        /\ Cardinality(OldUsb') \in Nat /\ MaxUsb \in Nat
    BY <2>4, UsbWanted, FS_CardinalityType, Sizes
  <2>6. QED
    BY <2>4, <2>5, UsbWanted DEF SizeInv
<1>3. CASE ~(SyncBegin \/ SyncEnd)
  <2>1. regs' = regs
    <3>1. CASE Idle \/ UNCHANGED vars
      BY <3>1, IdleKeeps DEF vars
    <3>2. CASE AcceptStep
      BY <3>2, AcceptEffect
    <3>3. CASE ReadStep \/ FlushStep \/ BroadcastStep
      BY <3>3, SlotSteps
    <3>4. CASE UsbTick \/ RollBegins \/ RollEnds
      BY <3>4, Zenon DEF UsbTick, RollBegins, RollEnds
    <3>5. QED
      BY <1>3, <3>1, <3>2, <3>3, <3>4, NextSteps, Zenon DEF Steps
  <2>2. pc = "forget" => pc' = "forget"
    <3>1. CASE Idle \/ UNCHANGED vars
      BY <3>1, Zenon DEF Idle, Wait, WaitInterrupted, WaitRefuses, Stopped, Connect, PeerSends, vars
    <3>2. CASE AcceptStep
      BY <3>2, AcceptEffect
    <3>3. CASE ReadStep \/ FlushStep \/ BroadcastStep
      BY <3>3, SlotSteps
    <3>4. CASE UsbTick \/ RollBegins \/ RollEnds
      BY <3>4, Zenon DEF UsbTick, RollBegins, RollEnds
    <3>5. QED
      BY <1>3, <3>1, <3>2, <3>3, <3>4, NextSteps, Zenon DEF Steps
  <2>3. QED
    BY <2>1, <2>2 DEF SizeInv, OldUsb
<1>4. QED
  BY <1>1, <1>2, <1>3

\* The only error a registration call can return is EPERM.
LEMMA StuckStep ==
    ASSUME Inv, [Next]_vars
    PROVE  StuckInv'
<1> USE DEF Inv
<1>1. CASE SyncBegin
  <2>1. pc = "sync" /\ stuck = "none" /\ stuck' = Failure /\ pc' = "forget"
    BY <1>1, Zenon DEF SyncBegin
  <2>2. \A w \in Wanted : ~AddFails(w) /\ ~ModFails(w)
    BY NoAddFails, NoModFails
  <2>3. ~NoRoom
    BY <2>1, RoomInTable
  <2>4. Failure = "none"
    BY <2>2, <2>3, Zenon DEF Failure
  <2>5. QED
    BY <2>1, <2>4 DEF StuckInv
<1>2. CASE SyncEnd
  <2>1. pc' = "wait" /\ (stuck' = stuck \/ stuck' = "EPERM")
    BY <1>2, Zenon DEF SyncEnd
  <2>2. QED
    BY <2>1 DEF StuckInv
<1>3. CASE Idle \/ UNCHANGED vars
  <2>1. stuck' = stuck
    BY <1>3, IdleKeeps DEF vars
  <2>2. pc' = pc \/ (pc = "wait" /\ stuck = "none") \/ pc' = "stopped"
    BY <1>3, Zenon DEF Idle, Wait, WaitInterrupted, WaitRefuses, Stopped, Connect, PeerSends, vars
  <2>3. QED
    BY <2>1, <2>2 DEF StuckInv
<1>4. CASE UsbTick \/ AcceptStep \/ ReadStep \/ FlushStep \/ BroadcastStep
  <2>1. stuck' = stuck /\ pc \notin {"wait", "stopped"}
    BY <1>4, SlotSteps, AcceptEffect DEF UsbTick
  <2>2. QED
    BY <2>1 DEF StuckInv
<1>5. CASE RollBegins \/ RollEnds
  <2>1. stuck' = stuck /\ pc' = pc
    BY <1>5, Zenon DEF RollBegins, RollEnds
  <2>2. QED
    BY <2>1 DEF StuckInv
<1>6. QED
  BY <1>1, <1>2, <1>3, <1>4, <1>5, NextSteps, Zenon DEF Steps

-----------------------------------------------------------------------------
(* Theorems.                                                               *)

\* The invariant holds before the first sync.
LEMMA InitInv == Init => Inv
<1> SUFFICES ASSUME Init PROVE Inv
  OBVIOUS
<1>1. /\ usb \in {{}, {MonFd}} /\ regs = {} /\ rolling = NoFd /\ stuck = "none"
      /\ pc = "sync" /\ cursor = 1
      /\ fdt = [n \in Fds |-> IF n \in Ls THEN Listening(n)
                              ELSE IF n \in usb THEN Handle ELSE Closed]
      /\ interest = [n \in Fds |-> NoInterest]
      /\ slots = [i \in Slots |-> Free]
  BY Zenon DEF Init
<1>2. \A i \in Slots : ~HasClient(i)
  BY <1>1 DEF HasClient, Free
<1>3. TypeOK
  BY <1>1 DEF TypeOK, Free, SlotRecords
<1>4. PlaceInv /\ StuckInv
  BY <1>1 DEF PlaceInv, StuckInv, Phases
<1>5. UsbInv
  <2>1. Cardinality(usb) <= MaxUsb
    <3>1. Cardinality({}) = 0 /\ Cardinality({MonFd}) = 1
      BY FS_EmptySet, FS_Singleton
    <3>2. MaxUsb \in Nat \ {0}
      BY Sizes
    <3>3. QED
      BY <1>1, <3>1, <3>2
  <2>2. QED
    BY <1>1, <2>1, Numbers DEF UsbInv
<1>6. OwnersInv
  BY <1>1, <1>2, <1>5, Numbers DEF OwnersInv, ListenersInv, SlotsInv, RollInv, ClosedInv
<1>7. TableInv
  BY <1>1 DEF TableInv, KindsInv, SlotRegsInv, ListenerRegsInv, WatchedInv, PassInv
<1>8. SizeInv
  <2>1. OldUsb = {}
    BY <1>1 DEF OldUsb
  <2>2. QED
    BY <2>1, FS_EmptySet, Sizes DEF SizeInv
<1>9. QED
  BY <1>3, <1>4, <1>6, <1>7, <1>8 DEF Inv

\* Every step keeps the invariant.
LEMMA NextInv == Inv /\ [Next]_vars => Inv'
  BY TypeStep, PlaceStep, StuckStep, OwnersStep, TableStep, SizeStep DEF Inv

\* The inductive invariant.
LEMMA Invariance == Spec => []Inv
  BY InitInv, NextInv, PTL DEF Spec

\* When the loop waits, the epoll set watches every listener and every
\* client's own file for what the client's slot asks for.
THEOREM EveryClientWatched == Spec => []ClientsWatched
<1>1. Inv => ClientsWatched
  <2> SUFFICES ASSUME Inv, pc = "wait"
               PROVE  /\ \A l \in Ls : interest[l] = [file |-> Listening(l), events |-> {"read"}]
                      /\ \A i \in Slots : HasClient(i) =>
                            interest[slots[i].fd] = [file |-> fdt[slots[i].fd],
                                                     events |-> SlotEvents(i)]
    BY DEF ClientsWatched
  <2>1. regs = Wanted
    BY DEF Inv, TableInv, PassInv
  <2>2. ASSUME NEW l \in Ls
        PROVE  interest[l] = [file |-> Listening(l), events |-> {"read"}]
    <3>1. WantL(l) \in regs /\ WantL(l).owner = <<"listen", l>>
      BY <2>1, WantedIs, WantFields
    <3>2. QED
      BY <3>1 DEF Inv, TableInv, ListenerRegsInv
  <2>3. ASSUME NEW i \in Slots, HasClient(i)
        PROVE  interest[slots[i].fd] = [file |-> fdt[slots[i].fd], events |-> SlotEvents(i)]
    <3>1. WantS(i) \in regs /\ OfSlot(WantS(i), i) /\ WantS(i).fd = slots[i].fd
          /\ WantS(i).events = SlotEvents(i)
      BY <2>1, <2>3, WantedIs, WantFields DEF OfSlot
    <3>2. QED
      BY <2>3, <3>1 DEF Inv, TableInv, SlotRegsInv
  <2>4. QED
    BY <2>2, <2>3
<1>2. QED
  BY <1>1, Invariance, PTL

\* No ADD of a number still watched, no MOD of one the kernel has dropped, no
\* full table: only the RF log's file under a closed number stops the loop.
THEOREM RegistrationNeverFails == Spec => []OnlyForeignFileStops
<1>1. Inv => OnlyForeignFileStops
  BY DEF Inv, StuckInv, OnlyForeignFileStops
<1>2. QED
  BY <1>1, Invariance, PTL

\* A slot loses its client only on the client's own EOF or with output that
\* it did not take.
THEOREM NoClientClosedByMistake == Spec => NoSpuriousClose
<1> DEFINE Closing == \A i \in Slots :
              (HasClient(i) /\ slots'[i].fd = NoFd) => inbox[ConnOf(i)] = "eof" \/ Overrun(i)
<1>1. ASSUME Inv, [Next]_vars PROVE Closing \/ UNCHANGED vars
  <2>1. CASE slots' = slots
    BY <2>1 DEF HasClient
  <2>2. CASE AcceptStep
    <3>1. UNCHANGED slots \/ \E i, n, c : Accepts(i, n, c)
      BY <1>1, <2>2, AcceptEffect, Zenon DEF Inv
    <3>2. ASSUME NEW i, NEW n, NEW c, Accepts(i, n, c)
          PROVE  \A j \in Slots : HasClient(j) => slots'[j].fd = slots[j].fd
      BY <1>1, <3>2 DEF Inv, TypeOK, Accepts
    <3>3. QED
      BY <2>1, <3>1, <3>2 DEF HasClient
  <2>3. CASE ReadStep \/ FlushStep \/ BroadcastStep
    <3>1. cursor \in Slots
      BY <1>1, <2>3, SlotSteps DEF Inv, PlaceInv
    <3>2. ASSUME NEW b \in BOOLEAN, KeepSlot(cursor, b) PROVE Closing
      <4>1. \A i \in Slots : slots'[i].fd = slots[i].fd
        BY <1>1, <3>1, <3>2 DEF KeepSlot, Inv, TypeOK, SlotRecords
      <4>2. QED
        BY <4>1 DEF HasClient
    <3>3. ASSUME CloseSlot(cursor), inbox[ConnOf(cursor)] = "eof" \/ Overrun(cursor)
          PROVE  Closing
      <4>1. \A i \in Slots : i # cursor => slots'[i].fd = slots[i].fd
        BY <1>1, <3>1, <3>3 DEF CloseSlot, Inv, TypeOK
      <4>2. QED
        BY <3>3, <4>1 DEF HasClient
    <3>4. TRUE \in BOOLEAN
      OBVIOUS
    <3>5. QED
      BY <2>1, <2>3, <3>2, <3>3, <3>4, Zenon DEF ReadStep, FlushStep, BroadcastStep, ReadFails
  <2>4. CASE Idle \/ UsbTick \/ SyncBegin \/ SyncEnd \/ RollBegins \/ RollEnds
    <3>1. slots' = slots
      BY <2>4, IdleKeeps, Zenon DEF UsbTick, SyncBegin, SyncEnd, RollBegins, RollEnds
    <3>2. QED
      BY <2>1, <3>1
  <2>5. QED
    BY <1>1, <2>2, <2>3, <2>4, NextSteps, Zenon DEF Steps
<1>2. Inv /\ [Next]_vars => [Closing]_vars
  BY <1>1
<1>3. QED
  BY <1>2, Invariance, PTL DEF Spec, NoSpuriousClose
=============================================================================
