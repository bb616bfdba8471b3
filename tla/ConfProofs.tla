----------------------------- MODULE ConfProofs -----------------------------
(***************************************************************************)
(* Proofs about the CONF socket: its monitoring (ConfChannel), for any     *)
(* number of slots, queue size, width of the generation counter and        *)
(* sequence of commands and transmissions; and what a SET does to the      *)
(* radio (ConfigApply), for any band profiles and any lines, with the      *)
(* refinement of AtomicConfig.                                             *)
(***************************************************************************)
EXTENDS ConfChannel, ConfigApply, SequenceTheorems,
        FiniteSetTheorems, WellFoundedInduction, TLAPS

-----------------------------------------------------------------------------
(* The invariants.                                                          *)

OnAir == {"count1", "look1", "write1", "air"}      \* tx_busy is raised
Counting == {"count1", "count2"}                   \* and not counted yet
Writing == {"write1", "write2"}

\* The worker: tx_busy and the generation's parity follow where it is.
WorkerInv ==
    /\ wpc \in OnAir \cup {"idle", "count2", "look2", "write2"}
    /\ txBusy \in BOOLEAN /\ (txBusy <=> wpc \in OnAir)
    /\ gen \in 0 .. GenMod - 1 /\ bgen \in 0 .. GenMod - 1
    /\ gen % 2 = 1 <=> (IF wpc \in Counting THEN ~txBusy ELSE txBusy)

\* A thread holds led_mutex between its look and its write.
MutexInv ==
    /\ ledLock = "main" <=> mpc = "write"
    /\ ledLock = "worker" <=> wpc \in Writing
    /\ look = [t \in {"main", "worker"} |-> look[t]]
    /\ mpc \in {"sync", "write"} => ret \in {"rssi", "accept"}

\* A look is out of date only while the thread that changed the state has
\* its own update before it.
LookInv ==
    /\ mpc = "write" /\ wpc \in {"idle", "air"} => look["main"] = Desired
    /\ mpc = "accept" /\ wpc \in Writing => look["worker"] = Desired
    /\ mpc = "accept" /\ wpc \in {"idle", "air"} => led = Desired

\* A slot and its client's history are records, and a free slot has none.
IsSlot(s) == s = [open |-> s.open, line |-> s.line, out |-> s.out] /\ s.open \in BOOLEAN
IsHistory(h) ==
    h = [said |-> h.said, told |-> h.told, from |-> h.from, heard |-> h.heard]
SlotInv ==
    /\ conf = [i \in Slots |-> conf[i]] /\ hist = [i \in Slots |-> hist[i]]
    /\ \A i \in Slots :
         /\ IsSlot(conf[i]) /\ IsHistory(hist[i])
         /\ ~conf[i].open => hist[i] = NoHistory

\* What a client has heard is every change since it joined, in turn.
Exact(h) ==
    /\ h.from \in Nat /\ h.heard \in Seq(BOOLEAN)
    /\ (h.from + Len(h.heard)) % GenMod = bgen
    /\ \A n \in 1 .. Len(h.heard) : h.heard[n] = ((h.from + n - 1) % 2 = 0)

HeardInv == \A i \in Slots : HasClient(i) => Exact(hist[i])

-----------------------------------------------------------------------------
(* Counters that wrap.                                                      *)

\* One more of a counter that wraps.
LEMMA Wrap ==
    ASSUME NEW m \in Nat \ {0}, NEW r \in 0 .. m - 1
    PROVE  (r + 1) % m = IF r + 1 = m THEN 0 ELSE r + 1
  OBVIOUS

\* An even modulus keeps the parity.
LEMMA EvenParity ==
    ASSUME NEW m \in Nat \ {0}, m % 2 = 0, NEW x \in Nat
    PROVE  (x % m) % 2 = x % 2
<1> DEFINE k == m \div 2
           q == x \div m
           r == x % m
<1>1. m = 2 * k /\ k \in Nat
  OBVIOUS
<1>2. x = m * q + r /\ q \in Nat /\ r \in Nat
  OBVIOUS
<1> HIDE DEF k, q, r
<1>3. PICK z \in Nat : m * q = 2 * z
  <2>1. k * q \in Nat
    BY <1>1, <1>2
  <2>2. m * q = 2 * (k * q)
    BY <1>1, <1>2
  <2> QED
    BY <2>1, <2>2
<1>4. x = 2 * z + r
  BY <1>2, <1>3
<1>5. x % 2 = r % 2
  BY <1>2, <1>4
<1> QED
  BY <1>5 DEF r

\* Counting one and reducing commute.
LEMMA ModStep ==
    ASSUME NEW m \in Nat \ {0}, NEW x \in Nat
    PROVE  ((x % m) + 1) % m = (x + 1) % m
<1> DEFINE q == x \div m
           r == x % m
           q2 == (x + 1) \div m
           r2 == (x + 1) % m
<1>1. x = m * q + r /\ q \in Nat /\ r \in 0 .. m - 1
  OBVIOUS
<1>2. x + 1 = m * q2 + r2 /\ q2 \in Nat /\ r2 \in 0 .. m - 1
  OBVIOUS
<1>3. (r + 1) % m = IF r + 1 = m THEN 0 ELSE r + 1
  BY <1>1, Wrap
<1> HIDE DEF q, r, q2, r2
<1>4. ASSUME NEW a \in Nat, NEW b \in Nat, a < b
      PROVE  m * a + m <= m * b
  <2>1. PICK d \in Nat : b = a + 1 + d
    BY <1>4
  <2>2. m * b = m * a + m + m * d
    BY <2>1
  <2>3. m * d \in Nat /\ m * a \in Nat
    BY <2>1
  <2> QED
    BY <2>2, <2>3
<1>5. m * q \in Nat /\ m * q2 \in Nat
  BY <1>1, <1>2
<1>6. CASE r + 1 < m
  <2>1. ~(q < q2) /\ ~(q2 < q)
    BY <1>1, <1>2, <1>4, <1>5, <1>6
  <2>2. q = q2
    BY <1>1, <1>2, <2>1
  <2> QED
    BY <1>1, <1>2, <1>3, <1>5, <1>6, <2>2 DEF r, r2
<1>7. CASE r + 1 = m
  <2>1. q < q2
    BY <1>1, <1>2, <1>4, <1>5, <1>7
  <2> QED
    BY <1>1, <1>2, <1>3, <1>4, <1>5, <1>7, <2>1 DEF r, r2
<1> QED
  BY <1>1, <1>6, <1>7
-----------------------------------------------------------------------------
(* The LED.                                                                 *)

\* Nothing is on the air, counted, looked at or lit at the start.
LEMMA InitWorker == ConfInit => WorkerInv /\ MutexInv /\ LookInv
<1> SUFFICES ASSUME ConfInit PROVE WorkerInv /\ MutexInv /\ LookInv
  OBVIOUS
<1>1. gen \in 0 .. GenMod - 1 /\ bgen = gen /\ gen % 2 = 0
  BY ConfAssumption DEF ConfInit
<1>2. WorkerInv
  <2>1. ~(gen % 2 = 1)
    BY <1>1
  <2>2. GenMod \in Nat
    BY ConfAssumption
  <2> QED
    BY <1>1, <2>1, <2>2 DEF ConfInit, WorkerInv, OnAir, Counting
<1>3. MutexInv
  BY DEF ConfInit, MutexInv, Writing
<1>4. LookInv
  BY DEF ConfInit, LookInv, Writing, Desired
<1> QED
  BY <1>2, <1>3, <1>4

\* The generation counts what tx_busy does, one step behind it.
LEMMA WorkerStep == WorkerInv /\ [ConfNext]_confVars => WorkerInv'
<1> SUFFICES ASSUME WorkerInv, [ConfNext]_confVars PROVE WorkerInv'
  OBVIOUS
<1> USE DEF WorkerInv, OnAir, Counting, txVars
<1>c. GenMod \in Nat \ {0} /\ GenMod % 2 = 0
  BY ConfAssumption
<1>1. CASE TxCount
  <2>1. gen + 1 \in Nat
    OBVIOUS
  <2>2. ((gen + 1) % GenMod) % 2 = (gen + 1) % 2
    BY <1>c, <2>1, EvenParity
  <2>3. gen' \in 0 .. GenMod - 1
    BY <1>1, <1>c, <2>1 DEF TxCount
  <2>4. gen' % 2 = 1 <=> ~(gen % 2 = 1)
    BY <1>1, <2>2 DEF TxCount
  <2> QED
    BY <1>1, <2>3, <2>4 DEF TxCount, WorkerGoes
<1>2. CASE TxAnnounce
  BY <1>2, <1>c DEF TxAnnounce
<1>3. CASE TxAcquire
  BY <1>3 DEF TxAcquire, WorkerGoes
<1>4. CASE TxRelease
  <2>1. gen' = gen /\ bgen' = bgen /\ txBusy' = FALSE /\ wpc = "air" /\ wpc' = "count2"
    BY <1>4 DEF TxRelease, WorkerGoes
  <2>2. gen % 2 = 1
    BY <2>1
  <2> QED
    BY <2>1, <2>2
<1>5. CASE WorkerLook
  BY <1>5 DEF WorkerLook, WorkerGoes
<1>6. CASE WorkerWrite
  BY <1>6 DEF WorkerWrite, WorkerGoes
<1>7. CASE UNCHANGED <<txVars, bgen>>
  BY <1>7
<1>8. ~(TxCount \/ TxAnnounce \/ TxAcquire \/ TxRelease \/ WorkerLook \/ WorkerWrite)
        => UNCHANGED <<txVars, bgen>>
  BY DEF ConfNext, Worker, ConfAccept, ConfEof, NotReady, ConfFlush, Feed, TxLoad, TxAnnounced,
         CadUnsubscribed, CadSkips, CadTick, Rssi, MainLook, MainWrite, confVars
<1> QED
  BY <1>1, <1>2, <1>3, <1>4, <1>5, <1>6, <1>7, <1>8

\* led_mutex orders the two threads' updates.
LEMMA LedStep ==
    WorkerInv /\ MutexInv /\ LookInv /\ [ConfNext]_confVars => MutexInv' /\ LookInv'
<1> SUFFICES ASSUME WorkerInv, MutexInv, LookInv, [ConfNext]_confVars
             PROVE  MutexInv' /\ LookInv'
  OBVIOUS
<1> USE DEF WorkerInv, MutexInv, LookInv, OnAir, Writing, Desired, txVars, ledVars, mainVars
<1>1. CASE ConfAccept
  BY <1>1 DEF ConfAccept
<1>2. CASE ConfEof
  BY <1>2 DEF ConfEof, NextSlot
<1>3. CASE NotReady
  BY <1>3 DEF NotReady, NextSlot
<1>4. CASE ConfFlush
  BY <1>4 DEF ConfFlush
<1>5. ASSUME NEW w, NEW more \in BOOLEAN, Feed(w, more) PROVE MutexInv' /\ LookInv'
  <2>1. mpc \in {"feeding", "conf"} /\ UNCHANGED <<txVars, ledVars, ret>>
    BY <1>5 DEF Feed
  <2>2. mpc' \in {"feeding", "conf", "flush"}
    BY <1>5 DEF Feed, ReadGoesOn, NextSlot
  <2> QED
    BY <2>1, <2>2
<1>6. CASE TxLoad
  BY <1>6 DEF TxLoad
<1>7. CASE TxAnnounce
  BY <1>7 DEF TxAnnounce
<1>8. CASE TxAnnounced
  BY <1>8 DEF TxAnnounced
<1>9. CASE CadUnsubscribed
  BY <1>9 DEF CadUnsubscribed, ThenSync
<1>10. CASE CadSkips
  BY <1>10 DEF CadSkips
<1>11. ASSUME NEW level, CadTick(level) PROVE MutexInv' /\ LookInv'
  BY <1>11 DEF CadTick, ThenSync
<1>12. CASE Rssi
  BY <1>12 DEF Rssi, ThenSync
<1>13. CASE MainLook
  BY <1>13 DEF MainLook, LedLook, LedFree
<1>14. CASE MainWrite
  BY <1>14 DEF MainWrite, LedWrite
<1>15. CASE TxAcquire
  BY <1>15 DEF TxAcquire, WorkerGoes
<1>16. CASE TxCount
  BY <1>16 DEF TxCount, WorkerGoes
<1>17. CASE WorkerLook
  BY <1>17 DEF WorkerLook, LedLook, LedFree, WorkerGoes
<1>18. CASE WorkerWrite
  BY <1>18 DEF WorkerWrite, LedWrite, WorkerGoes
<1>19. CASE TxRelease
  BY <1>19 DEF TxRelease, WorkerGoes
<1>20. CASE UNCHANGED confVars
  BY <1>20 DEF confVars
<1> QED
  BY <1>1, <1>2, <1>3, <1>4, <1>5, <1>6, <1>7, <1>8, <1>9, <1>10, <1>11, <1>12, <1>13, <1>14,
     <1>15, <1>16, <1>17, <1>18, <1>19, <1>20 DEF ConfNext, Worker

\* LedFollows, which the run checks, for any number of slots and any commands and
\* transmissions: two threads update the LED from looks at different times
\* (daemon_radio_runtime_sync_led), and neither's older look is the last word.
THEOREM LedShowsState == ConfSpec => []LedFollows
<1>1. WorkerInv /\ MutexInv /\ LookInv => LedFollows
  BY DEF LookInv, LedFollows
<1> QED
  BY <1>1, InitWorker, WorkerStep, LedStep, PTL DEF ConfSpec

-----------------------------------------------------------------------------
(* What a client hears of transmissions.                                    *)

\* A client that stays has the same history of transmissions, and no client
\* comes.
Quiet ==
    \A i \in Slots : conf'[i].open =>
        /\ conf[i].open
        /\ hist'[i].from = hist[i].from /\ hist'[i].heard = hist[i].heard

\* A record stays one when a field changes.
LEMMA SlotFields ==
    ASSUME NEW s, IsSlot(s), NEW x
    PROVE  /\ IsSlot([s EXCEPT !.out = x]) /\ [s EXCEPT !.out = x].open = s.open
           /\ IsSlot([s EXCEPT !.line = x]) /\ [s EXCEPT !.line = x].open = s.open
  BY DEF IsSlot

\* No client, no history.
LEMMA InitSlots == ConfInit => SlotInv /\ HeardInv
<1> SUFFICES ASSUME ConfInit PROVE SlotInv /\ HeardInv
  OBVIOUS
<1>1. \A i \in Slots : conf[i] = Vacant /\ hist[i] = NoHistory
  BY DEF ConfInit
<1>2. SlotInv
  BY <1>1 DEF ConfInit, SlotInv, Vacant, NoHistory, IsSlot, IsHistory
<1>3. HeardInv
  BY <1>1 DEF HeardInv, HasClient, Vacant
<1> QED
  BY <1>2, <1>3

\* What a message does to a slot.
LEMMA Sending ==
    ASSUME NEW slot, IsSlot(slot), NEW s \in Sends(slot)
    PROVE  IsSlot(s) /\ (s.open => slot.open)
<1>1. IsSlot(Vacant) /\ ~Vacant.open
  BY DEF Vacant, IsSlot
<1>2. \/ s = slot \/ s = Vacant \/ \E x : s = [slot EXCEPT !.out = x]
  BY DEF Sends
<1> QED
  BY <1>1, <1>2, SlotFields

\* A broadcast does that to every slot.
LEMMA Broadcasting ==
    ASSUME SlotInv, Broadcast
    PROVE  /\ conf' = [i \in Slots |-> conf'[i]]
           /\ \A i \in Slots : IsSlot(conf'[i]) /\ (conf'[i].open => conf[i].open)
<1>1. conf' = [i \in Slots |-> conf'[i]] /\ \A i \in Slots : conf'[i] \in Sends(conf[i])
  BY DEF Broadcast
<1> QED
  BY <1>1, Sending DEF SlotInv

\* One slot changes.
LEMMA OneSlot ==
    ASSUME SlotInv, NEW i, NEW s, conf' = [conf EXCEPT ![i] = s],
           i \in Slots => IsSlot(s)
    PROVE  /\ conf' = [j \in Slots |-> conf'[j]]
           /\ \A j \in Slots : IsSlot(conf'[j]) /\ conf'[j] = IF j = i THEN s ELSE conf[j]
<1>1. conf' = [j \in Slots |-> IF j = i THEN s ELSE conf[j]]
  BY DEF SlotInv
<1> QED
  BY <1>1 DEF SlotInv

\* The history that is kept.
LEMMA Keeping ==
    ASSUME NEW h, Keep(h), conf' = [i \in Slots |-> conf'[i]],
           \A i \in Slots : IsHistory(h[i]) /\ IsSlot(conf'[i])
    PROVE  SlotInv' /\ \A i \in Slots : conf'[i].open => hist'[i] = h[i]
<1>1. \A i \in Slots : hist'[i] = IF conf'[i].open THEN h[i] ELSE NoHistory
  BY DEF Keep
<1>2. hist' = [i \in Slots |-> hist'[i]]
  BY DEF Keep
<1>3. IsHistory(NoHistory)
  BY DEF IsHistory, NoHistory
<1>4. \A i \in Slots : IsHistory(hist'[i])
  BY <1>1, <1>3
<1> QED
  BY <1>1, <1>2, <1>4 DEF SlotInv

\* A history that says the same of transmissions.
Deaf(h) == \A j \in Slots : /\ IsHistory(h[j])
                            /\ h[j].from = hist[j].from /\ h[j].heard = hist[j].heard

\* Transmissions are no part of another word.
LEMMA Saying ==
    ASSUME SlotInv, NEW i, NEW w
    PROVE  LET h == [hist EXCEPT ![i].said = Append(@, w)]
           IN  h = [j \in Slots |-> h[j]] /\ Deaf(h)
<1> DEFINE h == [hist EXCEPT ![i].said = Append(@, w)]
<1>1. h = [j \in Slots |-> IF j = i THEN [hist[j] EXCEPT !.said = Append(@, w)] ELSE hist[j]]
  BY DEF SlotInv
<1>2. h = [j \in Slots |-> h[j]]
  BY <1>1
<1>3. \A j \in Slots : h[j] = hist[j] \/ \E x : h[j] = [hist[j] EXCEPT !.said = x]
  BY <1>1
<1> HIDE DEF h
<1>4. ASSUME NEW j \in Slots
      PROVE  IsHistory(h[j]) /\ h[j].from = hist[j].from /\ h[j].heard = hist[j].heard
  <2>1. IsHistory(hist[j])
    BY DEF SlotInv
  <2>2. CASE h[j] # hist[j]
    <3>1. PICK x : h[j] = [hist[j] EXCEPT !.said = x]
      BY <1>3, <2>2
    <3> QED
      BY <2>1, <3>1 DEF IsHistory
  <2> QED
    BY <2>1, <2>2
<1>5. Deaf(h)
  BY <1>4 DEF Deaf
<1> QED
  BY <1>2, <1>5 DEF h

\* Nor of another answer.
LEMMA Telling ==
    ASSUME NEW f, f = [j \in Slots |-> f[j]], Deaf(f), NEW i, NEW w
    PROVE  Deaf([f EXCEPT ![i].told = Append(@, w)])
<1> DEFINE h == [f EXCEPT ![i].told = Append(@, w)]
<1>1. h = [j \in Slots |-> IF j = i THEN [f[j] EXCEPT !.told = Append(@, w)] ELSE f[j]]
  OBVIOUS
<1>2. \A j \in Slots : h[j] = f[j] \/ \E x : h[j] = [f[j] EXCEPT !.told = x]
  BY <1>1
<1> HIDE DEF h
<1>3. ASSUME NEW j \in Slots
      PROVE  IsHistory(h[j]) /\ h[j].from = hist[j].from /\ h[j].heard = hist[j].heard
  <2>1. IsHistory(f[j]) /\ f[j].from = hist[j].from /\ f[j].heard = hist[j].heard
    BY DEF Deaf
  <2>2. CASE h[j] # f[j]
    <3>1. PICK x : h[j] = [f[j] EXCEPT !.told = x]
      BY <1>2, <2>2
    <3> QED
      BY <2>1, <3>1 DEF IsHistory
  <2> QED
    BY <2>1, <2>2
<1>4. Deaf(h)
  BY <1>3 DEF Deaf
<1> QED
  BY <1>4 DEF h

\* A step that closes slots or not, and keeps such a history.
LEMMA Quietly ==
    ASSUME NEW h, Keep(h), Deaf(h), conf' = [i \in Slots |-> conf'[i]],
           \A i \in Slots : IsSlot(conf'[i]) /\ (conf'[i].open => conf[i].open)
    PROVE  SlotInv' /\ Quiet
  BY Keeping DEF Deaf, Quiet

\* The slots and histories stay what they are, and only an accept or an announcement
\* is not quiet.
LEMMA SlotStep ==
    SlotInv /\ [ConfNext]_confVars => SlotInv' /\ (ConfAccept \/ TxAnnounce \/ Quiet)
<1> SUFFICES ASSUME SlotInv, [ConfNext]_confVars
             PROVE  SlotInv' /\ (ConfAccept \/ TxAnnounce \/ Quiet)
  OBVIOUS
<1>v. IsSlot(Vacant) /\ ~Vacant.open
  BY DEF Vacant, IsSlot
<1>h. Deaf(hist)
  BY DEF Deaf, SlotInv
<1>1. CASE ConfAccept
  <2>1. CASE UNCHANGED <<conf, hist>>
    BY <1>1, <2>1 DEF SlotInv
  <2>2. ASSUME NEW i \in Slots, conf' = [conf EXCEPT ![i] = Joins(@)],
               Keep([hist EXCEPT ![i].from = bgen])
        PROVE  SlotInv'
    <3> DEFINE h == [hist EXCEPT ![i].from = bgen]
    <3>1. \A j \in Slots : h[j] = hist[j] \/ \E x : h[j] = [hist[j] EXCEPT !.from = x]
      BY DEF SlotInv
    <3> HIDE DEF h
    <3>2. ASSUME NEW j \in Slots PROVE IsHistory(h[j])
      <4>1. IsHistory(hist[j])
        BY DEF SlotInv
      <4>2. CASE h[j] # hist[j]
        <5>1. PICK x : h[j] = [hist[j] EXCEPT !.from = x]
          BY <3>1, <4>2
        <5> QED
          BY <4>1, <5>1 DEF IsHistory
      <4> QED
        BY <4>1, <4>2
    <3>3. conf' = [conf EXCEPT ![i] = Joins(conf[i])] /\ IsSlot(Joins(conf[i])) /\ Keep(h)
      BY <2>2 DEF Joins, IsSlot, h
    <3> QED
      BY <3>2, <3>3, OneSlot, Keeping
  <2> QED
    BY <1>1, <2>1, <2>2 DEF ConfAccept
<1>2. CASE ConfEof
  <2>1. conf' = [conf EXCEPT ![cursor] = Vacant] /\ Keep(hist)
    BY <1>2 DEF ConfEof
  <2> QED
    BY <2>1, <1>v, <1>h, OneSlot, Quietly
<1>3. CASE ConfFlush
  <2>1. PICK F \in SUBSET Slots :
          conf' = [i \in Slots |-> IF i \in F THEN [conf[i] EXCEPT !.out = 0] ELSE conf[i]]
    BY <1>3 DEF ConfFlush
  <2>2. \A i \in Slots : IsSlot(conf'[i]) /\ conf'[i].open = conf[i].open
    BY <2>1, SlotFields DEF SlotInv
  <2>3. UNCHANGED hist /\ conf' = [i \in Slots |-> conf'[i]]
    BY <1>3, <2>1 DEF ConfFlush
  <2> QED
    BY <2>2, <2>3 DEF SlotInv, Quiet
<1>4. ASSUME NEW w, NEW more \in BOOLEAN, Feed(w, more) PROVE SlotInv' /\ Quiet
  <2> DEFINE h == [hist EXCEPT ![cursor].said = Append(@, w)]
  <2>1. h = [j \in Slots |-> h[j]] /\ Deaf(h)
    BY Saying
  <2>2. \/ UNCHANGED conf /\ Keep(h)
        \/ conf' = [conf EXCEPT ![cursor].line = Append(@, w)] /\ Keep(h)
        \/ conf' = [conf EXCEPT ![cursor] = Vacant] /\ Keep(h)
        \/ Emit(cursor, h)
    BY <1>4 DEF Feed
  <2> HIDE DEF h
  <2>3. CASE UNCHANGED conf /\ Keep(h)
    BY <2>1, <2>3, Quietly DEF SlotInv
  <2>4. CASE conf' = [conf EXCEPT ![cursor].line = Append(@, w)] /\ Keep(h)
    <3> DEFINE s == [conf[cursor] EXCEPT !.line = Append(@, w)]
    <3>1. conf' = [conf EXCEPT ![cursor] = s]
      BY <2>4 DEF SlotInv
    <3>2. cursor \in Slots => IsSlot(s) /\ s.open = conf[cursor].open
      BY SlotFields DEF SlotInv
    <3> HIDE DEF s
    <3>3. /\ conf' = [j \in Slots |-> conf'[j]]
          /\ \A j \in Slots : IsSlot(conf'[j]) /\ (conf'[j].open => conf[j].open)
      BY <3>1, <3>2, OneSlot
    <3> QED
      BY <2>1, <2>4, <3>3, Quietly
  <2>5. CASE conf' = [conf EXCEPT ![cursor] = Vacant] /\ Keep(h)
    BY <2>1, <2>5, <1>v, OneSlot, Quietly
  <2>6. CASE Emit(cursor, h)
    <3> DEFINE e == [conf[cursor] EXCEPT !.line = <<>>]
    <3>1. PICK s \in Sends(e) : conf' = [conf EXCEPT ![cursor] = s]
      BY <2>6 DEF Emit
    <3>2. cursor \in Slots => IsSlot(e) /\ e.open = conf[cursor].open
      BY SlotFields DEF SlotInv
    <3> HIDE DEF e
    <3>3. cursor \in Slots => IsSlot(s) /\ (s.open => conf[cursor].open)
      BY <3>1, <3>2, Sending
    <3>4. PICK o \in Outcomes(conf[cursor].line) :
            Keep(IF Takes(conf[cursor])
                 THEN [h EXCEPT ![cursor].told = Append(@, o.reply)] ELSE h)
      BY <2>6 DEF Emit
    <3>5. CASE Takes(conf[cursor])
      <4> DEFINE g == [h EXCEPT ![cursor].told = Append(@, o.reply)]
      <4>1. Deaf(g)
        BY <2>1, Telling
      <4>2. Keep(g)
        BY <3>4, <3>5
      <4> HIDE DEF g
      <4> QED
        BY <3>1, <3>3, <4>1, <4>2, OneSlot, Quietly
    <3>6. CASE ~Takes(conf[cursor])
      <4>1. Keep(h)
        BY <3>4, <3>6
      <4> QED
        BY <2>1, <3>1, <3>3, <4>1, OneSlot, Quietly
    <3> QED
      BY <3>5, <3>6
  <2> QED
    BY <2>2, <2>3, <2>4, <2>5, <2>6
<1>5. CASE TxAnnounce
  <2> DEFINE h == [i \in Slots |-> [hist[i] EXCEPT !.heard = Append(@, NextBusy(bgen))]]
  <2>1. Keep(h) /\ Broadcast
    BY <1>5 DEF TxAnnounce
  <2>2. \A i \in Slots : IsHistory(h[i])
    BY DEF SlotInv, IsHistory
  <2> HIDE DEF h
  <2> QED
    BY <1>5, <2>1, <2>2, Broadcasting, Keeping
<1>6. ASSUME Broadcast \/ UNCHANGED conf, Keep(hist) PROVE SlotInv' /\ Quiet
  <2>1. /\ conf' = [i \in Slots |-> conf'[i]]
        /\ \A i \in Slots : IsSlot(conf'[i]) /\ (conf'[i].open => conf[i].open)
    BY <1>6, Broadcasting DEF SlotInv
  <2> QED
    BY <1>6, <1>h, <2>1, Quietly
<1>7. ASSUME NEW level, CadTick(level) PROVE SlotInv' /\ Quiet
  BY <1>6, <1>7 DEF CadTick
<1>8. CASE Rssi
  BY <1>6, <1>8 DEF Rssi
<1>9. CASE UNCHANGED connVars
  BY <1>9 DEF connVars, SlotInv, Quiet
<1>10. ASSUME [ConfNext]_confVars
       PROVE \/ ConfAccept \/ ConfEof \/ ConfFlush \/ TxAnnounce \/ Rssi
             \/ \E w \in scenario.cmds \union {CR, LF}, more \in BOOLEAN : Feed(w, more)
             \/ \E level \in {"busy", "band", "free"} : CadTick(level)
             \/ UNCHANGED connVars
  BY <1>10 DEF ConfNext, Worker, NotReady, TxLoad, TxAnnounced, CadUnsubscribed, CadSkips,
         MainLook, MainWrite, TxAcquire, TxCount, WorkerLook, WorkerWrite, TxRelease, confVars
<1> QED
  BY <1>1, <1>2, <1>3, <1>4, <1>5, <1>7, <1>8, <1>9, <1>10

\* An announcement takes the next generation, whose parity it says; the
\* client joined at the generation announced before it came.
LEMMA HeardStep ==
    WorkerInv /\ SlotInv /\ HeardInv /\ [ConfNext]_confVars => HeardInv'
<1> SUFFICES ASSUME WorkerInv, SlotInv, HeardInv, [ConfNext]_confVars,
                    NEW i \in Slots, conf'[i].open
             PROVE  Exact(hist[i])'
  BY DEF HeardInv, HasClient
<1>c. GenMod \in Nat \ {0} /\ GenMod % 2 = 0 /\ bgen \in 0 .. GenMod - 1
  BY ConfAssumption DEF WorkerInv
<1>1. CASE ConfAccept
  <2>0. bgen' = bgen
    BY <1>1 DEF ConfAccept
  <2>1. CASE UNCHANGED <<conf, hist>>
    BY <2>0, <2>1 DEF HeardInv, HasClient, Exact
  <2>2. ASSUME NEW k \in Slots, ~HasClient(k), conf' = [conf EXCEPT ![k] = Joins(@)],
               Keep([hist EXCEPT ![k].from = bgen])
        PROVE  Exact(hist[i])'
    <3>1. hist'[i] = [hist EXCEPT ![k].from = bgen][i]
      BY <2>2 DEF Keep
    <3>2. CASE i # k
      <4>1. hist'[i] = hist[i] /\ conf'[i] = conf[i]
        BY <2>2, <3>1, <3>2 DEF SlotInv
      <4> QED
        BY <2>0, <4>1 DEF HeardInv, HasClient, Exact
    <3>3. CASE i = k
      <4>1. hist[i] = NoHistory
        BY <2>2, <3>3 DEF SlotInv, HasClient
      <4>2. hist'[i] = [hist[i] EXCEPT !.from = bgen]
        BY <3>1, <3>3 DEF SlotInv
      <4>3. hist'[i].from = bgen /\ hist'[i].heard = <<>>
        BY <4>1, <4>2 DEF NoHistory
      <4>4. bgen % GenMod = bgen
        BY <1>c
      <4> QED
        BY <1>c, <2>0, <4>3, <4>4 DEF Exact
    <3> QED
      BY <3>2, <3>3
  <2> QED
    BY <1>1, <2>1, <2>2 DEF ConfAccept
<1>2. CASE TxAnnounce
  <2>1. bgen' = (bgen + 1) % GenMod /\ Broadcast
    BY <1>2 DEF TxAnnounce
  <2>2. conf[i].open
    BY <2>1, Broadcasting
  <2>3. Exact(hist[i])
    BY <2>2 DEF HeardInv, HasClient
  <2>4. hist'[i] = [hist[i] EXCEPT !.heard = Append(@, NextBusy(bgen))]
    BY <1>2 DEF TxAnnounce, Keep
  <2> DEFINE from == hist[i].from
             heard == hist[i].heard
             said == NextBusy(bgen)
  <2>5. hist'[i].from = from /\ hist'[i].heard = Append(heard, said)
    BY <2>4 DEF SlotInv, IsHistory
  <2>6. said \in BOOLEAN /\ (said <=> bgen % 2 = 0)
    BY DEF NextBusy
  <2>7. from \in Nat /\ heard \in Seq(BOOLEAN) /\ (from + Len(heard)) % GenMod = bgen
    BY <2>3 DEF Exact
  <2>8. \A n \in 1 .. Len(heard) : heard[n] = ((from + n - 1) % 2 = 0)
    BY <2>3 DEF Exact
  <2> HIDE DEF from, heard, said
  <2>9. Len(heard) \in Nat /\ from + Len(heard) \in Nat
    BY <2>7
  <2>10. (from + Len(heard) + 1) % GenMod = bgen'
    BY <1>c, <2>1, <2>7, <2>9, ModStep
  <2>11. bgen % 2 = (from + Len(heard)) % 2
    BY <1>c, <2>7, <2>9, EvenParity
  <2> DEFINE next == Append(heard, said)
  <2>12. /\ next \in Seq(BOOLEAN) /\ Len(next) = Len(heard) + 1
         /\ next[Len(heard) + 1] = said
         /\ \A n \in 1 .. Len(heard) : next[n] = heard[n]
    BY <2>6, <2>7
  <2> HIDE DEF next
  <2>13. ASSUME NEW n \in 1 .. Len(next) PROVE next[n] = ((from + n - 1) % 2 = 0)
    <3>1. CASE n \in 1 .. Len(heard)
      BY <2>8, <2>12, <3>1
    <3>2. CASE n = Len(heard) + 1
      <4>1. from + n - 1 = from + Len(heard)
        BY <2>7, <2>9, <3>2
      <4>2. said <=> (from + n - 1) % 2 = 0
        BY <2>6, <2>11, <4>1
      <4> QED
        BY <2>6, <2>12, <3>2, <4>2
    <3> QED
      BY <2>9, <2>12, <3>1, <3>2
  <2>14. (from + Len(next)) % GenMod = bgen'
    <3>1. from + Len(next) = from + Len(heard) + 1
      BY <2>7, <2>9, <2>12
    <3> QED
      BY <2>10, <3>1
  <2> QED
    BY <2>5, <2>7, <2>12, <2>13, <2>14 DEF Exact, next
<1>3. CASE Quiet /\ ~ConfAccept /\ ~TxAnnounce
  <2>1. bgen' = bgen
    BY <1>3 DEF ConfNext, Worker, ConfEof, NotReady, ConfFlush, Feed, TxLoad, TxAnnounced,
                CadUnsubscribed, CadSkips, CadTick, Rssi, MainLook, MainWrite, TxAcquire,
                TxCount, WorkerLook, WorkerWrite, TxRelease, confVars
  <2>2. /\ conf[i].open
        /\ hist'[i].from = hist[i].from /\ hist'[i].heard = hist[i].heard
    BY <1>3 DEF Quiet
  <2> QED
    BY <2>1, <2>2 DEF HeardInv, HasClient, Exact
<1> QED
  BY <1>1, <1>2, <1>3, SlotStep

\* TxStatusExact, which the run checks, for any number of slots and any even modulus of
\* the generation: however transmissions fall between the ticks of
\* daemon_process_tx_status, a connected client hears TX=1 and TX=0 in turn, each
\* change once, and the last that was announced is what tx_busy is.
THEOREM TxStatusIsExact == ConfSpec => []TxStatusExact
<1>1. WorkerInv /\ SlotInv /\ HeardInv => TxStatusExact
  <2> SUFFICES ASSUME WorkerInv, HeardInv PROVE TxStatusExact
    OBVIOUS
  <2>1. \A i \in Slots : HasClient(i) =>
          /\ (hist[i].from + Len(hist[i].heard)) % GenMod = bgen
          /\ \A n \in 1..Len(hist[i].heard) :
                hist[i].heard[n] = ((hist[i].from + n - 1) % 2 = 0)
    BY DEF HeardInv, Exact
  <2>2. (bgen = gen /\ wpc \notin {"count1", "count2"}) => txBusy = (bgen % 2 = 1)
    BY DEF WorkerInv, Counting
  <2> QED
    BY <2>1, <2>2 DEF TxStatusExact
<1>2. SlotInv /\ [ConfNext]_confVars => SlotInv'
  BY SlotStep
<1> QED
  BY <1>1, <1>2, InitWorker, WorkerStep, InitSlots, HeardStep, PTL DEF ConfSpec

-----------------------------------------------------------------------------
(* Answers and lines.                                                       *)

\* The words clients send, and the answers there are.
Words == scenario.cmds \union {CR, LF}
Replies == {"STATUS", "STATS", "CHANNEL PENDING", "CHANNEL NOTSCANNED",
            "CHANNEL UNAVAILABLE", "CHANNEL FREE", "CHANNEL BUSY", "OK", "ERR BUSY",
            "ERR INVALID", "ERR MALFORMED", "ERR UNKNOWN", "ERR RADIO_NOT_READY",
            "ERR HARDWARE"}

\* What was said ends with the line that is kept, of which the length and the
\* only word are known, and every line before it has its answer.
OpenLine(half, said) ==
    /\ said \in Seq(Words) /\ half \in Seq(Words)
    /\ Len(half) = Cardinality(LineBefore(said, Len(said)))
    /\ \A j : LineBefore(said, Len(said)) = {j} => half[1] = said[j]
Nth(ends, k) == Cardinality({e \in ends : e <= k})
Answered(said, told) ==
    /\ told \in Seq(Replies)
    /\ Len(told) = Cardinality(LineEnds(said))
    /\ \A k \in LineEnds(said) :
         told[Nth(LineEnds(said), k)] \in AnswersTo(CommandAt(said, k))

AnswerInv ==
    \A i \in Slots :
       /\ conf[i].out \in 0 .. Capacity
       /\ HasClient(i) => /\ OpenLine(conf[i].line, hist[i].said)
                          /\ Answered(hist[i].said, hist[i].told)

\* CR and LF are two words.
LEMMA Marks == CR # LF
  BY DEF CR, LF

\* Positions in a stream are finitely many.
LEMMA Positions ==
    ASSUME NEW n \in Nat, NEW P, P \subseteq 1 .. n
    PROVE  IsFiniteSet(P) /\ Cardinality(P) \in Nat
<1>1. IsFiniteSet(1 .. n)
  BY FS_Interval
<1> QED
  BY <1>1, FS_Subset, FS_CardinalityType

\* A word more is behind those that were there.
LEMMA Behind ==
    ASSUME NEW W, NEW s \in Seq(W), NEW w \in W
    PROVE  /\ Append(s, w) \in Seq(W) /\ Len(s) \in Nat /\ Len(Append(s, w)) = Len(s) + 1
           /\ Append(s, w)[Len(s) + 1] = w
           /\ \A j \in 1 .. Len(s) : Append(s, w)[j] = s[j]
  OBVIOUS

\* The line that is open before a word does not depend on what follows it.
LEMMA LineKept ==
    ASSUME NEW W, NEW s \in Seq(W), NEW w \in W, NEW n \in 0 .. Len(s)
    PROVE  LineBefore(Append(s, w), n) = LineBefore(s, n)
<1> DEFINE t == Append(s, w)
<1>1. \A j \in 1 .. n : t[j] = s[j]
  BY Behind
<1> HIDE DEF t
<1>2. \A j \in 1 .. n : \A l \in j .. n : t[l] = s[l]
  BY <1>1
<1>3. LineBefore(t, n) = LineBefore(s, n)
  BY <1>1, <1>2 DEF LineBefore
<1> QED
  BY <1>3 DEF t

\* The line that is open after one word more.
LEMMA LineNext ==
    ASSUME NEW W, NEW s \in Seq(W), NEW w \in W
    PROVE  /\ w = LF => LineBefore(Append(s, w), Len(s) + 1) = {}
           /\ w = CR => LineBefore(Append(s, w), Len(s) + 1) = LineBefore(s, Len(s))
           /\ w \notin {CR, LF} =>
                LineBefore(Append(s, w), Len(s) + 1) = LineBefore(s, Len(s)) \union {Len(s) + 1}
<1> DEFINE t == Append(s, w)
           n == Len(s)
<1>1. n \in Nat /\ t[n + 1] = w /\ \A j \in 1 .. n : t[j] = s[j]
  BY Behind
<1> HIDE DEF t, n
<1>2. \A j \in 1 .. n : \A l \in j .. n : t[l] = s[l]
  BY <1>1
<1>3. ASSUME NEW j \in 1 .. n
      PROVE  (\A l \in j .. n + 1 : t[l] # LF) <=> w # LF /\ \A l \in j .. n : s[l] # LF
  <2>1. \A l \in j .. n : l \in j .. n + 1 /\ t[l] = s[l]
    BY <1>1, <1>2
  <2>2. n + 1 \in j .. n + 1 /\ \A l \in j .. n + 1 : l \in j .. n \/ l = n + 1
    BY <1>1
  <2> QED
    BY <1>1, <2>1, <2>2
<1>5. \A j \in 1 .. n : j \in LineBefore(t, n + 1) <=> w # LF /\ j \in LineBefore(s, n)
  <2> SUFFICES ASSUME NEW j \in 1 .. n
               PROVE  j \in LineBefore(t, n + 1) <=> w # LF /\ j \in LineBefore(s, n)
    OBVIOUS
  <2>1. t[j] = s[j] /\ j \in 1 .. n + 1
    BY <1>1
  <2>2. j \in LineBefore(t, n + 1) <=> s[j] \notin {CR, LF} /\ \A l \in j .. n + 1 : t[l] # LF
    BY <2>1 DEF LineBefore
  <2>3. j \in LineBefore(s, n) <=> s[j] \notin {CR, LF} /\ \A l \in j .. n : s[l] # LF
    BY DEF LineBefore
  <2> QED
    BY <1>3, <2>2, <2>3
<1>6. n + 1 \in LineBefore(t, n + 1) <=> w \notin {CR, LF}
  BY <1>1 DEF LineBefore
<1>7. LineBefore(t, n + 1) \subseteq 1 .. n + 1 /\ LineBefore(s, n) \subseteq 1 .. n
  BY DEF LineBefore
<1>8. LineBefore(t, n + 1) = (IF w = LF THEN {} ELSE LineBefore(s, n))
                             \union (IF w \in {CR, LF} THEN {} ELSE {n + 1})
  BY <1>1, <1>5, <1>6, <1>7
<1> QED
  BY <1>8, Marks DEF t, n

\* Lines end where they ended, and at a LF behind an open line.
LEMMA EndsNext ==
    ASSUME NEW W, NEW s \in Seq(W), NEW w \in W
    PROVE  LineEnds(Append(s, w)) =
             LineEnds(s) \union (IF w = LF /\ LineBefore(s, Len(s)) # {} THEN {Len(s) + 1} ELSE {})
<1> DEFINE t == Append(s, w)
           n == Len(s)
<1>1. n \in Nat /\ Len(t) = n + 1 /\ t[n + 1] = w /\ \A j \in 1 .. n : t[j] = s[j]
  BY Behind
<1>2. \A k \in 1 .. n + 1 : LineBefore(t, k - 1) = LineBefore(s, k - 1)
  BY <1>1, LineKept
<1> HIDE DEF t, n
<1>3. \A k \in 1 .. n : k \in LineEnds(t) <=> k \in LineEnds(s)
  <2> SUFFICES ASSUME NEW k \in 1 .. n PROVE k \in LineEnds(t) <=> k \in LineEnds(s)
    OBVIOUS
  <2>1. t[k] = s[k] /\ LineBefore(t, k - 1) = LineBefore(s, k - 1) /\ k \in 1 .. n + 1
    BY <1>1, <1>2
  <2> QED
    BY <1>1, <2>1 DEF LineEnds, n
<1>4. n + 1 \in LineEnds(t) <=> w = LF /\ LineBefore(s, n) # {}
  <2>1. LineBefore(t, (n + 1) - 1) = LineBefore(s, (n + 1) - 1) /\ (n + 1) - 1 = n
    BY <1>1, <1>2
  <2> QED
    BY <1>1, <2>1 DEF LineEnds
<1>5. LineEnds(t) \subseteq 1 .. n + 1 /\ LineEnds(s) \subseteq 1 .. n
  BY <1>1 DEF LineEnds, n
<1> QED
  BY <1>1, <1>3, <1>4, <1>5 DEF t, n

\* The command of a line that has ended stays.
LEMMA CommandKept ==
    ASSUME NEW W, NEW s \in Seq(W), NEW w \in W, NEW k \in 1 .. Len(s)
    PROVE  CommandAt(Append(s, w), k) = CommandAt(s, k)
<1> DEFINE t == Append(s, w)
           half == LineBefore(s, k - 1)
<1>1. LineBefore(t, k - 1) = half
  BY LineKept
<1>2. \A j \in half : t[j] = s[j]
  BY Behind DEF LineBefore
<1> HIDE DEF t, half
<1>3. Cardinality(half) = 1 => (CHOOSE j \in half : TRUE) \in half
  <2> SUFFICES ASSUME Cardinality(half) = 1 PROVE half # {}
    OBVIOUS
  <2> QED
    BY FS_EmptySet
<1> QED
  BY <1>1, <1>2, <1>3 DEF CommandAt, t, half

\* The command of the line that a LF ends is the one the kept line holds.
LEMMA CommandEnds ==
    ASSUME NEW half, NEW said, OpenLine(half, said), LF \in Words
    PROVE  CommandAt(Append(said, LF), Len(said) + 1) = Command(half)
<1> DEFINE B == LineBefore(said, Len(said))
           t == Append(said, LF)
<1>1. said \in Seq(Words) /\ Len(said) \in Nat /\ Len(half) = Cardinality(B)
  BY DEF OpenLine
<1>2. LineBefore(t, Len(said)) = B
  BY <1>1, LineKept
<1>3. \A j \in B : t[j] = said[j]
  BY <1>1, Behind DEF LineBefore
<1>4. \A j : B = {j} => half[1] = said[j]
  BY DEF OpenLine
<1>5. B \subseteq 1 .. Len(said)
  BY DEF LineBefore
<1>6. IsFiniteSet(B)
  BY <1>1, <1>5, Positions
<1> HIDE DEF B, t
<1>7. (Len(said) + 1) - 1 = Len(said)
  BY <1>1
<1>8. CASE Len(half) = 1
  <2>1. PICK j : B = {j}
    BY <1>1, <1>6, <1>8, FS_Singleton
  <2>2. (CHOOSE x \in B : TRUE) = j
    BY <2>1
  <2> QED
    BY <1>1, <1>2, <1>3, <1>4, <1>7, <1>8, <2>1, <2>2 DEF CommandAt, Command, t
<1>9. CASE Len(half) # 1
  BY <1>1, <1>2, <1>7, <1>9 DEF CommandAt, Command, t
<1> QED
  BY <1>8, <1>9

\* A new connection has said nothing.
LEMMA NothingSaid == OpenLine(<<>>, <<>>) /\ Answered(<<>>, <<>>)
<1>1. LineBefore(<<>>, 0) = {} /\ LineEnds(<<>>) = {}
  BY DEF LineBefore, LineEnds
<1>2. Cardinality({}) = 0 /\ Len(<<>>) = 0
  BY FS_EmptySet
<1>3. <<>> \in Seq(Words) /\ <<>> \in Seq(Replies)
  OBVIOUS
<1> QED
  BY <1>1, <1>2, <1>3 DEF OpenLine, Answered

\* The kept line after a CR, or a LF with nothing before it.
LEMMA LineIgnores ==
    ASSUME NEW half, NEW said, OpenLine(half, said), NEW w \in Words,
           w = CR \/ (w = LF /\ half = <<>>)
    PROVE  /\ OpenLine(half, Append(said, w))
           /\ LineEnds(Append(said, w)) = LineEnds(said)
<1> DEFINE B == LineBefore(said, Len(said))
           t == Append(said, w)
<1>1. said \in Seq(Words) /\ Len(said) \in Nat /\ Len(half) = Cardinality(B)
  BY DEF OpenLine
<1>2. t \in Seq(Words) /\ Len(t) = Len(said) + 1
  BY <1>1, Behind
<1>3. B \subseteq 1 .. Len(said) /\ IsFiniteSet(B)
  BY <1>1, Positions DEF LineBefore
<1>4. w = LF => B = {}
  <2> SUFFICES ASSUME w = LF PROVE B = {}
    OBVIOUS
  <2>1. Len(half) = 0
    BY Marks
  <2> QED
    BY <1>1, <1>3, <2>1, FS_EmptySet
<1>5. LineBefore(t, Len(t)) = B
  BY <1>1, <1>2, <1>4, LineNext
<1>6. LineEnds(t) = LineEnds(said)
  <2>1. LineEnds(t) = LineEnds(said) \union (IF w = LF /\ B # {} THEN {Len(said) + 1} ELSE {})
    BY <1>1, EndsNext
  <2> QED
    BY <1>4, <2>1
<1>7. \A j \in B : t[j] = said[j]
  BY <1>1, <1>3, Behind
<1>8. half \in Seq(Words) /\ \A j : B = {j} => half[1] = said[j]
  BY DEF OpenLine
<1> HIDE DEF B, t
<1> QED
  BY <1>1, <1>2, <1>5, <1>6, <1>7, <1>8 DEF OpenLine, t

\* The kept line after a word of it.
LEMMA LineGrows ==
    ASSUME NEW half, NEW said, OpenLine(half, said), NEW w \in Words, w \notin {CR, LF}
    PROVE  /\ OpenLine(Append(half, w), Append(said, w))
           /\ LineEnds(Append(said, w)) = LineEnds(said)
<1> DEFINE B == LineBefore(said, Len(said))
           t == Append(said, w)
           n == Len(said)
<1>1. said \in Seq(Words) /\ n \in Nat /\ Len(half) = Cardinality(B)
  BY DEF OpenLine
<1>2. t \in Seq(Words) /\ Len(t) = n + 1 /\ t[n + 1] = w
  BY <1>1, Behind
<1>3. B \subseteq 1 .. n /\ IsFiniteSet(B)
  BY <1>1, Positions DEF LineBefore
<1>4. LineBefore(t, Len(t)) = B \union {n + 1}
  BY <1>1, <1>2, LineNext
<1>5. LineEnds(t) = LineEnds(said)
  BY <1>1, EndsNext
<1>6. n + 1 \notin B
  BY <1>1, <1>3
<1>7. Cardinality(B \union {n + 1}) = Cardinality(B) + 1
  BY <1>3, <1>6, FS_AddElement
<1>8. half \in Seq(Words) /\ Append(half, w) \in Seq(Words) /\ Len(Append(half, w)) = Len(half) + 1
  BY DEF OpenLine
<1>9. ASSUME NEW j, B \union {n + 1} = {j} PROVE Append(half, w)[1] = t[j]
  <2>1. j = n + 1 /\ B = {}
    BY <1>6, <1>9
  <2>2. Len(half) = 0
    BY <1>1, <2>1, FS_EmptySet
  <2>3. Append(half, w)[1] = w
    BY <1>8, <2>2
  <2> QED
    BY <1>2, <2>1, <2>3
<1> HIDE DEF B, t, n
<1> QED
  BY <1>1, <1>2, <1>4, <1>5, <1>7, <1>8, <1>9 DEF OpenLine, t

\* The kept line after the LF that ends it.
LEMMA LineEmitted ==
    ASSUME NEW half, NEW said, OpenLine(half, said), LF \in Words, half # <<>>
    PROVE  /\ OpenLine(<<>>, Append(said, LF))
           /\ LineEnds(Append(said, LF)) = LineEnds(said) \union {Len(said) + 1}
<1> DEFINE B == LineBefore(said, Len(said))
           t == Append(said, LF)
<1>1. /\ said \in Seq(Words) /\ Len(said) \in Nat
      /\ half \in Seq(Words) /\ Len(half) = Cardinality(B)
  BY DEF OpenLine
<1>2. t \in Seq(Words) /\ Len(t) = Len(said) + 1
  BY <1>1, Behind
<1>3. Len(half) # 0
  BY <1>1
<1>4. B # {}
  BY <1>1, <1>3, FS_EmptySet
<1>5. LineBefore(t, Len(t)) = {}
  BY <1>1, <1>2, LineNext
<1>6. LineEnds(t) = LineEnds(said) \union {Len(said) + 1}
  BY <1>1, <1>4, EndsNext
<1> HIDE DEF B, t
<1>7. Cardinality({}) = 0 /\ Len(<<>>) = 0 /\ <<>> \in Seq(Words)
  BY FS_EmptySet
<1> QED
  BY <1>2, <1>5, <1>6, <1>7 DEF OpenLine, t

\* No line has ended: the answers stay.
LEMMA AnsweredKept ==
    ASSUME NEW said \in Seq(Words), NEW told, Answered(said, told), NEW w \in Words,
           LineEnds(Append(said, w)) = LineEnds(said)
    PROVE  Answered(Append(said, w), told)
<1> DEFINE t == Append(said, w)
<1>1. \A k \in LineEnds(said) : CommandAt(t, k) = CommandAt(said, k)
  BY CommandKept DEF LineEnds
<1> HIDE DEF t
<1>2. LineEnds(t) = LineEnds(said)
  BY DEF t
<1> QED
  BY <1>1, <1>2 DEF Answered, t

\* A line has ended, and its answer is the last.
LEMMA AnsweredNext ==
    ASSUME NEW half, NEW said, NEW told, OpenLine(half, said), Answered(said, told),
           LF \in Words, half # <<>>, NEW r \in Replies, r \in AnswersTo(Command(half))
    PROVE  Answered(Append(said, LF), Append(told, r))
<1> DEFINE E == LineEnds(said)
           n == Len(said)
           t == Append(said, LF)
           F == E \union {n + 1}
<1>1. said \in Seq(Words) /\ n \in Nat
  BY DEF OpenLine
<1>2. E \subseteq 1 .. n /\ IsFiniteSet(E) /\ n + 1 \notin E
  BY <1>1, Positions DEF LineEnds
<1>3. LineEnds(t) = F /\ Cardinality(F) = Cardinality(E) + 1 /\ Cardinality(E) \in Nat
  BY <1>2, LineEmitted, FS_AddElement, FS_CardinalityType
<1>4. told \in Seq(Replies) /\ Len(told) = Cardinality(E)
  BY DEF Answered
<1>5. /\ Append(told, r) \in Seq(Replies) /\ Len(Append(told, r)) = Len(told) + 1
      /\ Append(told, r)[Len(told) + 1] = r
      /\ \A j \in 1 .. Len(told) : Append(told, r)[j] = told[j]
  BY <1>4, Behind
<1>6. CommandAt(t, n + 1) = Command(half)
  BY CommandEnds
<1>7. ASSUME NEW k \in E PROVE Nth(F, k) = Nth(E, k) /\ Nth(E, k) \in 1 .. Cardinality(E)
  <2> DEFINE S == {e \in E : e <= k}
  <2>1. {e \in F : e <= k} = S
    BY <1>1, <1>2
  <2>2. S \subseteq E /\ k \in S
    BY <1>2
  <2>3. IsFiniteSet(S) /\ Cardinality(S) <= Cardinality(E) /\ Cardinality(S) \in Nat
    BY <1>2, <2>2, FS_Subset, FS_CardinalityType
  <2>4. Cardinality(S) # 0
    BY <2>2, <2>3, FS_EmptySet
  <2>5. Cardinality(S) \in 1 .. Cardinality(E)
    BY <1>3, <2>3, <2>4
  <2> QED
    BY <2>1, <2>5 DEF Nth
<1>8. Nth(F, n + 1) = Cardinality(E) + 1
  <2>1. {e \in F : e <= n + 1} = F
    BY <1>1, <1>2
  <2> QED
    BY <1>3, <2>1 DEF Nth
<1>9. \A k \in E : CommandAt(t, k) = CommandAt(said, k)
  BY <1>1, <1>2, CommandKept
<1>10. \A k \in E : told[Nth(E, k)] \in AnswersTo(CommandAt(said, k))
  BY DEF Answered
<1> HIDE DEF E, t, n, F
<1>11. ASSUME NEW k \in F PROVE Append(told, r)[Nth(F, k)] \in AnswersTo(CommandAt(t, k))
  <2>1. CASE k \in E
    BY <1>4, <1>5, <1>7, <1>9, <1>10, <2>1
  <2>2. CASE k = n + 1
    BY <1>4, <1>5, <1>6, <1>8, <2>2
  <2> QED
    BY <2>1, <2>2 DEF F
<1> QED
  BY <1>3, <1>4, <1>5, <1>11 DEF Answered, t

\* An outcome of a line answers it.
LEMMA OutcomeAnswers ==
    ASSUME NEW half, NEW o \in Outcomes(half)
    PROVE  o.reply \in Replies /\ o.reply \in AnswersTo(Command(half))
<1> DEFINE cmd == Command(half)
           other == {"OK", "ERR BUSY", "ERR INVALID", "ERR MALFORMED",
                     "ERR UNKNOWN", "ERR RADIO_NOT_READY", "ERR HARDWARE"}
<1> HIDE DEF cmd
<1>1. \A r : \A a \in Answers(r) : a.reply = r
  BY DEF Answers
<1>2. ASSUME NEW a \in Apply(cmd) PROVE a.reply \in other
  <2>1. PICK r \in other : \E c : a = [reply |-> r, ctrl |-> c]
    <3>1. CASE ctrl.health # "READY"
      BY <3>1 DEF Apply, Answers
    <3>2. CASE ctrl.health = "READY" /\ cmd.op = "getrssi"
      BY <3>2, Zenon DEF Apply, Answers
    <3>3. CASE ctrl.health = "READY" /\ cmd.op = "rf"
      <4> DEFINE bad == [ctrl EXCEPT !.health = "FAILED"]
      <4>1. a \in Answers("OK") \union Answers("ERR INVALID") \union Answers("ERR BUSY")
                   \union {[reply |-> "ERR HARDWARE", ctrl |-> bad]}
        BY <3>3 DEF Apply
      <4> HIDE DEF bad
      <4> QED
        BY <4>1 DEF Answers
    <3>4. CASE ctrl.health = "READY" /\ cmd.op \notin {"getrssi", "rf"}
      BY <3>4 DEF Apply, Answers
    <3> QED
      BY <3>1, <3>2, <3>3, <3>4
  <2>2. PICK c : a = [reply |-> r, ctrl |-> c]
    BY <2>1
  <2>3. a.reply = r
    BY <2>2
  <2> QED
    BY <2>1, <2>3
<1>3. \A c : \A a \in SetValue(c) : a.reply \in other
  <2> SUFFICES ASSUME NEW c, NEW a \in SetValue(c) PROVE a.reply = "OK"
    OBVIOUS
  <2>1. \E x : a = [reply |-> "OK", ctrl |-> x]
    BY Zenon DEF SetValue
  <2> QED
    BY <2>1
<1>4. \A c : \A a \in SetTxQueue(c) : a.reply \in other
  BY <1>1, <1>3 DEF SetTxQueue
<1>5. \A c : \A a \in SetCadMonitor(c) : a.reply \in other
  <2> SUFFICES ASSUME NEW c, NEW a \in SetCadMonitor(c) PROVE a.reply = "OK"
    OBVIOUS
  <2>1. \E x : a = [reply |-> "OK", ctrl |-> x]
    BY Zenon DEF SetCadMonitor
  <2> QED
    BY <2>1
<1>6. \A a \in GetChannel : a.reply \in {"CHANNEL PENDING", "CHANNEL UNAVAILABLE",
                                         "CHANNEL FREE", "CHANNEL BUSY"}
  BY <1>1 DEF GetChannel
<1>7. CASE cmd.op = "status"
  <2>1. o \in Answers("STATUS")
    BY <1>7 DEF Outcomes, cmd
  <2> QED
    BY <1>1, <1>7, <2>1 DEF AnswersTo, Replies, cmd
<1>8. CASE cmd.op = "stats"
  <2>1. o \in Answers("STATS")
    BY <1>8 DEF Outcomes, cmd
  <2> QED
    BY <1>1, <1>8, <2>1 DEF AnswersTo, Replies, cmd
<1>9. CASE cmd.op = "noscan"
  <2>1. o \in Answers("CHANNEL PENDING") \union Answers("CHANNEL NOTSCANNED")
    BY <1>9 DEF Outcomes, cmd
  <2> QED
    BY <1>1, <1>9, <2>1 DEF AnswersTo, Replies, cmd
<1>10. CASE cmd.op = "channel"
  <2>1. o \in GetChannel
    BY <1>10 DEF Outcomes, cmd
  <2> QED
    BY <1>6, <1>10, <2>1 DEF AnswersTo, Replies, cmd
<1>11. CASE cmd.op \notin {"status", "stats", "noscan", "channel"}
  <2>1. \/ o \in SetTxQueue(cmd) \/ o \in SetCadMonitor(cmd) \/ o \in SetValue(cmd)
        \/ o \in Answers(IF cmd.value = 0 THEN "ERR MALFORMED" ELSE "ERR INVALID")
        \/ o \in Apply(cmd)
    BY <1>11 DEF Outcomes, cmd
  <2>2. o.reply \in other
    BY <1>1, <1>2, <1>3, <1>4, <1>5, <2>1
  <2>3. AnswersTo(cmd) = other
    BY <1>11 DEF AnswersTo
  <2> QED
    BY <2>2, <2>3 DEF Replies, cmd
<1> QED
  BY <1>7, <1>8, <1>9, <1>10, <1>11

\* A message leaves a line as it is and an output queue within its size, and a
\* slot that keeps its client had room for it.
LEMMA SendsKeep ==
    ASSUME NEW slot, IsSlot(slot), slot.out \in 0 .. Capacity, NEW s \in Sends(slot)
    PROVE  /\ s.out \in 0 .. Capacity
           /\ s.open => slot.open /\ s.line = slot.line /\ Takes(slot)
<1>1. Capacity \in Nat
  BY ConfAssumption
<1>2. Vacant.out = 0 /\ ~Vacant.open
  BY DEF Vacant
<1>3. CASE ~slot.open
  BY <1>3 DEF Sends
<1>4. CASE slot.open /\ slot.out = Capacity
  BY <1>1, <1>2, <1>4 DEF Sends
<1>5. CASE slot.open /\ slot.out # Capacity
  <2>1. s = Vacant \/ s = [slot EXCEPT !.out = 0] \/ s = [slot EXCEPT !.out = @ + 1]
    BY <1>5 DEF Sends
  <2>2. Takes(slot)
    BY <1>1, <1>5 DEF Takes
  <2> QED
    BY <1>1, <1>2, <1>5, <2>1, <2>2 DEF IsSlot
<1> QED
  BY <1>3, <1>4, <1>5

\* What is left alone of a slot and of its client's words and answers.
Untouched(i) ==
    /\ conf'[i].out \in 0 .. Capacity
    /\ conf'[i].open => /\ conf[i].open /\ conf'[i].line = conf[i].line
                        /\ hist'[i].said = hist[i].said /\ hist'[i].told = hist[i].told

\* Announcements are no answers.
LEMMA BroadcastKeeps ==
    ASSUME SlotInv, AnswerInv, Broadcast
    PROVE  \A i \in Slots : /\ conf'[i].out \in 0 .. Capacity
                            /\ conf'[i].open => conf[i].open /\ conf'[i].line = conf[i].line
<1>1. \A i \in Slots : conf'[i] \in Sends(conf[i]) /\ IsSlot(conf[i]) /\ conf[i].out \in 0 .. Capacity
  BY DEF Broadcast, SlotInv, AnswerInv
<1> QED
  BY <1>1, SendsKeep

\* A byte stream of a client is answered line by line, and nothing else
\* changes what it said or was told.
LEMMA AnswerStep ==
    SlotInv /\ AnswerInv /\ [ConfNext]_confVars => AnswerInv'
<1> SUFFICES ASSUME SlotInv, AnswerInv, [ConfNext]_confVars, NEW i \in Slots
             PROVE  /\ conf'[i].out \in 0 .. Capacity
                    /\ conf'[i].open => /\ OpenLine(conf[i].line, hist[i].said)'
                                        /\ Answered(hist[i].said, hist[i].told)'
  BY DEF AnswerInv, HasClient
<1>w. scenario' = scenario /\ Words' = Words
  BY DEF ConfNext, ConfAccept, Worker, ConfEof, NotReady, ConfFlush, Feed, TxLoad, TxAnnounce,
         TxAnnounced, CadUnsubscribed, CadSkips, CadTick, Rssi, MainLook, MainWrite, TxAcquire,
         TxCount, WorkerLook, WorkerWrite, TxRelease, confVars, connVars, Words
<1>i. /\ IsSlot(conf[i]) /\ IsHistory(hist[i]) /\ conf[i].out \in 0 .. Capacity
      /\ conf[i].open => /\ OpenLine(conf[i].line, hist[i].said)
                         /\ Answered(hist[i].said, hist[i].told)
      /\ ~conf[i].open => hist[i] = NoHistory
  BY DEF SlotInv, AnswerInv, HasClient
<1>s. ASSUME NEW half, NEW said, NEW told, OpenLine(half, said), Answered(said, told),
             conf'[i].line = half, hist'[i].said = said, hist'[i].told = told
      PROVE  OpenLine(conf[i].line, hist[i].said)' /\ Answered(hist[i].said, hist[i].told)'
  BY <1>w, <1>s DEF OpenLine, Answered
<1>c. Capacity \in Nat /\ Vacant.out = 0 /\ ~Vacant.open
  BY ConfAssumption DEF Vacant
<1>u. CASE Untouched(i)
  BY <1>i, <1>s, <1>u DEF Untouched
<1>0. ASSUME NEW h, Keep(h), conf'[i].open PROVE hist'[i] = h[i]
  BY <1>0 DEF Keep
<1>1. CASE ConfAccept
  <2>1. CASE UNCHANGED <<conf, hist>>
    BY <1>i, <1>u, <2>1 DEF Untouched
  <2>2. ASSUME NEW k \in Slots, ~HasClient(k), conf' = [conf EXCEPT ![k] = Joins(@)],
               Keep([hist EXCEPT ![k].from = bgen])
        PROVE  /\ conf'[i].out \in 0 .. Capacity
               /\ conf'[i].open => /\ OpenLine(conf[i].line, hist[i].said)'
                                   /\ Answered(hist[i].said, hist[i].told)'
    <3>1. conf'[i].open => hist'[i] = [hist EXCEPT ![k].from = bgen][i]
      BY <2>2, <1>0
    <3>2. CASE i # k
      <4>1. conf'[i] = conf[i] /\ (conf'[i].open => hist'[i] = hist[i])
        BY <2>2, <3>1, <3>2 DEF SlotInv
      <4> QED
        BY <1>i, <1>u, <4>1 DEF Untouched
    <3>3. CASE i = k
      <4>1. hist[i] = NoHistory
        BY <1>i, <2>2, <3>3 DEF HasClient
      <4>2. conf'[i] = Joins(conf[i])
        BY <2>2, <3>3 DEF SlotInv
      <4>3. conf'[i].open /\ conf'[i].line = <<>> /\ conf'[i].out = 0
        BY <4>2 DEF Joins
      <4>4. hist'[i] = [hist[i] EXCEPT !.from = bgen]
        BY <3>1, <3>3, <4>3 DEF SlotInv
      <4>5. hist'[i].said = <<>> /\ hist'[i].told = <<>>
        BY <4>1, <4>4 DEF NoHistory
      <4> QED
        BY <1>c, <1>s, <4>3, <4>5, NothingSaid
    <3> QED
      BY <3>2, <3>3
  <2> QED
    BY <1>1, <2>1, <2>2 DEF ConfAccept
<1>2. CASE ConfEof
  <2>1. conf' = [conf EXCEPT ![cursor] = Vacant] /\ Keep(hist)
    BY <1>2 DEF ConfEof
  <2>2. conf'[i] = conf[i] \/ conf'[i] = Vacant
    BY <2>1 DEF SlotInv
  <2> QED
    BY <1>0, <1>c, <1>i, <1>u, <2>1, <2>2 DEF Untouched
<1>3. CASE ConfFlush
  <2>1. PICK F \in SUBSET Slots :
          conf' = [j \in Slots |-> IF j \in F THEN [conf[j] EXCEPT !.out = 0] ELSE conf[j]]
    BY <1>3 DEF ConfFlush
  <2>2. conf'[i] = conf[i] \/ conf'[i] = [conf[i] EXCEPT !.out = 0]
    BY <2>1
  <2>3. UNCHANGED hist
    BY <1>3 DEF ConfFlush
  <2>4. conf'[i].open = conf[i].open /\ conf'[i].line = conf[i].line /\ conf'[i].out \in 0 .. Capacity
    BY <1>c, <1>i, <2>2 DEF IsSlot
  <2> QED
    BY <1>u, <2>3, <2>4 DEF Untouched
<1>4. ASSUME NEW w \in Words, NEW more \in BOOLEAN, Feed(w, more)
      PROVE  /\ conf'[i].out \in 0 .. Capacity
             /\ conf'[i].open => /\ OpenLine(conf[i].line, hist[i].said)'
                                 /\ Answered(hist[i].said, hist[i].told)'
  <2> DEFINE h == [hist EXCEPT ![cursor].said = Append(@, w)]
             half == conf[i].line
             said == hist[i].said
             told == hist[i].told
  <2>1. \/ /\ w = CR \/ (w = LF /\ ~EmitsLine(conf[cursor].line))
           /\ UNCHANGED conf /\ Keep(h)
        \/ /\ w = LF /\ EmitsLine(conf[cursor].line)
           /\ Emit(cursor, h)
        \/ /\ w \notin {CR, LF}
           /\ conf' = [conf EXCEPT ![cursor].line = Append(@, w)] /\ Keep(h)
        \/ conf' = [conf EXCEPT ![cursor] = Vacant] /\ Keep(h)
    BY <1>4 DEF Feed
  <2>2. i # cursor => h[i] = hist[i]
    BY DEF SlotInv
  <2>3. i = cursor => h[i] = [hist[i] EXCEPT !.said = Append(@, w)]
    BY DEF SlotInv
  <2>4. i = cursor => h[i].said = Append(said, w) /\ h[i].told = told
    BY <1>i, <2>3 DEF IsHistory
  <2>5. \A g : Keep(g) /\ conf'[i].open => hist'[i] = g[i]
    BY <1>0
  <2>6. h = [j \in Slots |-> h[j]]
    BY Saying
  <2> HIDE DEF h
  <2>7. CASE i # cursor
    <3>1. conf'[i] = conf[i]
      BY <2>1, <2>7 DEF Emit, SlotInv
    <3>2. conf'[i].open => hist'[i] = hist[i]
      <4>1. \A r : [h EXCEPT ![cursor].told = r][i] = h[i]
        BY <2>6, <2>7
      <4>2. Keep(h) \/ \E r : Keep([h EXCEPT ![cursor].told = r])
        BY <2>1 DEF Emit
      <4> QED
        BY <2>2, <2>5, <2>7, <4>1, <4>2
    <3> QED
      BY <1>i, <1>u, <3>1, <3>2 DEF Untouched
  <2>8. CASE i = cursor
    <3>0. conf[i].open => said \in Seq(Words)
      BY <1>i DEF OpenLine
    <3>1. CASE /\ w = CR \/ (w = LF /\ ~EmitsLine(half))
               /\ UNCHANGED conf /\ Keep(h)
      <4> SUFFICES ASSUME conf'[i].open
                   PROVE  OpenLine(conf[i].line, hist[i].said)' /\ Answered(hist[i].said, hist[i].told)'
        BY <1>i, <3>1
      <4>1. conf[i].open /\ conf'[i].line = half
        BY <3>1
      <4>2. hist'[i].said = Append(said, w) /\ hist'[i].told = told
        BY <2>4, <2>5, <2>8, <3>1
      <4>3. w = CR \/ (w = LF /\ half = <<>>)
        BY <3>1 DEF EmitsLine
      <4>4. OpenLine(half, said) /\ Answered(said, told)
        BY <1>i, <4>1
      <4> HIDE DEF half, said, told
      <4>5. OpenLine(half, Append(said, w)) /\ LineEnds(Append(said, w)) = LineEnds(said)
        BY <4>3, <4>4, LineIgnores
      <4>6. Answered(Append(said, w), told)
        BY <3>0, <4>1, <4>4, <4>5, AnsweredKept
      <4> QED
        BY <1>s, <4>1, <4>2, <4>5, <4>6
    <3>2. CASE w = LF /\ EmitsLine(half) /\ Emit(cursor, h)
      <4> DEFINE e == [conf[i] EXCEPT !.line = <<>>]
      <4>1. PICK s \in Sends(e) : conf' = [conf EXCEPT ![cursor] = s]
        BY <2>8, <3>2 DEF Emit
      <4>2. PICK o \in Outcomes(half) :
              Keep(IF Takes(conf[i]) THEN [h EXCEPT ![i].told = Append(@, o.reply)] ELSE h)
        BY <2>8, <3>2 DEF Emit
      <4>3. /\ IsSlot(e) /\ e.open = conf[i].open /\ e.line = <<>>
            /\ e.out = conf[i].out /\ Takes(e) = Takes(conf[i])
        BY <1>i DEF IsSlot, Takes
      <4>4. conf'[i] = s
        BY <2>8, <4>1 DEF SlotInv
      <4> HIDE DEF e
      <4>5. /\ conf'[i].out \in 0 .. Capacity
            /\ conf'[i].open => conf[i].open /\ conf'[i].line = <<>> /\ Takes(conf[i])
        BY <1>i, <4>1, <4>3, <4>4, SendsKeep
      <4> SUFFICES ASSUME conf'[i].open
                   PROVE  OpenLine(conf[i].line, hist[i].said)' /\ Answered(hist[i].said, hist[i].told)'
        BY <4>5
      <4>6. conf[i].open /\ conf'[i].line = <<>> /\ Takes(conf[i])
        BY <4>5
      <4> DEFINE r == o.reply
      <4>7. hist'[i] = [h EXCEPT ![i].told = Append(@, r)][i]
        BY <2>5, <4>2, <4>6
      <4>8. IsHistory(h[i])
        BY <2>3, <1>i, <2>8 DEF IsHistory
      <4>9. hist'[i].said = Append(said, LF) /\ hist'[i].told = Append(told, r)
        <5>1. hist'[i] = [h[i] EXCEPT !.told = Append(@, r)]
          BY <2>6, <4>7
        <5> HIDE DEF r, said, told
        <5>2. hist'[i].said = h[i].said /\ hist'[i].told = Append(h[i].told, r)
          BY <4>8, <5>1 DEF IsHistory
        <5> QED
          BY <2>4, <2>8, <3>2, <5>2
      <4>10. half # <<>> /\ LF \in Words
        BY <3>2 DEF EmitsLine, Words
      <4>11. r \in Replies /\ r \in AnswersTo(Command(half))
        BY <4>2, OutcomeAnswers
      <4>12. OpenLine(half, said) /\ Answered(said, told)
        BY <1>i, <4>6
      <4> HIDE DEF half, said, told, r
      <4>13. OpenLine(<<>>, Append(said, LF))
        BY <4>10, <4>12, LineEmitted
      <4>14. Answered(Append(said, LF), Append(told, r))
        BY <4>10, <4>11, <4>12, AnsweredNext
      <4> QED
        BY <1>s, <4>6, <4>9, <4>13, <4>14
    <3>3. CASE w \notin {CR, LF} /\ conf' = [conf EXCEPT ![cursor].line = Append(@, w)] /\ Keep(h)
      <4>1. conf'[i] = [conf[i] EXCEPT !.line = Append(@, w)]
        BY <2>8, <3>3 DEF SlotInv
      <4>2. conf'[i].open = conf[i].open /\ conf'[i].out = conf[i].out /\ conf'[i].line = Append(half, w)
        BY <1>i, <4>1 DEF IsSlot
      <4> SUFFICES ASSUME conf'[i].open
                   PROVE  OpenLine(conf[i].line, hist[i].said)' /\ Answered(hist[i].said, hist[i].told)'
        BY <1>i, <4>2
      <4>3. hist'[i].said = Append(said, w) /\ hist'[i].told = told
        BY <2>4, <2>5, <2>8, <3>3
      <4>4. OpenLine(half, said) /\ Answered(said, told) /\ conf[i].open
        BY <1>i, <4>2
      <4> HIDE DEF half, said, told
      <4>5. OpenLine(Append(half, w), Append(said, w)) /\ LineEnds(Append(said, w)) = LineEnds(said)
        BY <3>3, <4>4, LineGrows
      <4>6. Answered(Append(said, w), told)
        BY <3>0, <4>4, <4>5, AnsweredKept
      <4> QED
        BY <1>s, <4>2, <4>3, <4>5, <4>6
    <3>4. CASE conf' = [conf EXCEPT ![cursor] = Vacant] /\ Keep(h)
      <4>1. conf'[i] = Vacant
        BY <2>8, <3>4 DEF SlotInv
      <4> QED
        BY <1>c, <4>1
    <3> QED
      BY <2>1, <2>8, <3>1, <3>2, <3>3, <3>4
  <2> QED
    BY <2>7, <2>8
<1>5. CASE TxAnnounce
  <2>1. Broadcast /\ Keep([j \in Slots |-> [hist[j] EXCEPT !.heard = Append(@, NextBusy(bgen))]])
    BY <1>5 DEF TxAnnounce
  <2>2. conf'[i].open => hist'[i] = [hist[i] EXCEPT !.heard = Append(@, NextBusy(bgen))]
    BY <2>1 DEF Keep
  <2>3. conf'[i].open => hist'[i].said = hist[i].said /\ hist'[i].told = hist[i].told
    BY <1>i, <2>2 DEF IsHistory
  <2> QED
    BY <1>u, <2>1, <2>3, BroadcastKeeps DEF Untouched
<1>6. CASE (Broadcast \/ UNCHANGED conf) /\ Keep(hist)
  <2>1. /\ conf'[i].out \in 0 .. Capacity
        /\ conf'[i].open => conf[i].open /\ conf'[i].line = conf[i].line
    BY <1>6, <1>i, BroadcastKeeps
  <2>2. conf'[i].open => hist'[i] = hist[i]
    BY <1>6, <1>0
  <2> QED
    BY <1>u, <2>1, <2>2 DEF Untouched
<1>7. ASSUME NEW level, CadTick(level) PROVE (Broadcast \/ UNCHANGED conf) /\ Keep(hist)
  BY <1>7 DEF CadTick
<1>8. CASE Rssi
  BY <1>6, <1>8 DEF Rssi
<1>9. CASE UNCHANGED connVars
  BY <1>9, <1>i, <1>u DEF connVars, Untouched
<1>10. \/ ConfAccept \/ ConfEof \/ ConfFlush \/ TxAnnounce \/ Rssi
       \/ \E w \in Words, more \in BOOLEAN : Feed(w, more)
       \/ \E level \in {"busy", "band", "free"} : CadTick(level)
       \/ UNCHANGED connVars
  BY DEF ConfNext, Worker, NotReady, TxLoad, TxAnnounced, CadUnsubscribed, CadSkips, Words,
         MainLook, MainWrite, TxAcquire, TxCount, WorkerLook, WorkerWrite, TxRelease, confVars
<1> QED
  BY <1>1, <1>2, <1>3, <1>4, <1>5, <1>6, <1>7, <1>8, <1>9, <1>10

\* RepliesMatchLines, which the run checks, for any number of slots, length of a line,
\* size of an output queue and words: whatever clients send and however it is cut into
\* reads, each line of a connected client has had one answer, of its kind, in order.
THEOREM RepliesAreLines == ConfSpec => []RepliesMatchLines
<1>1. ConfInit => SlotInv /\ AnswerInv
  <2> SUFFICES ASSUME ConfInit PROVE AnswerInv
    BY InitSlots
  <2>1. \A i \in Slots : conf[i] = Vacant
    BY DEF ConfInit
  <2>2. Vacant.out = 0 /\ ~Vacant.open /\ Capacity \in Nat
    BY ConfAssumption DEF Vacant
  <2> QED
    BY <2>1, <2>2 DEF AnswerInv, HasClient
<1>2. SlotInv /\ AnswerInv /\ [ConfNext]_confVars => SlotInv' /\ AnswerInv'
  BY SlotStep, AnswerStep
<1>3. AnswerInv => RepliesMatchLines
  BY DEF AnswerInv, Answered, Nth, RepliesMatchLines
<1> QED
  BY <1>1, <1>2, <1>3, PTL DEF ConfSpec

-----------------------------------------------------------------------------
(* ConfigApply: configurations, lines and records.                          *)

\* The configurations a chip can hold and the tokens a line is parsed into;
\* 1000ths where the text is a whole number.
Modes == {"LORA", "FSK"}
Value == [form : STRING, n : Int]
Token == [key : STRING, v : Value]
IsToken(t) == t \in Token /\ (t.v.form = "int" => t.v.n % 1000 = 0)
IsConfig(k) ==
    /\ k.mode \in Modes /\ k = [mode |-> k.mode, val |-> k.val]
    /\ k.val \in [ModeKeys(k.mode) -> Int]

\* The value of a key after the first n tokens on top of base, and the
\* configuration those values are.
ValueAfter(base, tokens, n, key) ==
    LET at == {i \in 1 .. n : tokens[i].key = key}
    IN  IF at = {} THEN base[key] ELSE Setting(key, tokens[CHOOSE i \in at : TRUE].v)

Partial(m, base, tokens, n) ==
    [mode |-> m, val |-> [key \in ModeKeys(m) |-> ValueAfter(base, tokens, n, key)]]

\* A configuration with one key set.
With(k, key, s) == [k EXCEPT !.val[key] = s]

\* No key twice in a line; a token the target mode takes (GETRSSI, a key of
\* the other mode, a valid value of its own); a whole list of them; a list
\* with the mode's own keys only, as the replay record keeps.
Distinct(tokens) == \A i, j \in DOMAIN tokens : tokens[i].key = tokens[j].key => i = j
Fits(q, m, t) ==
    \/ t.key = "GETRSSI" /\ AsBool(t.v) # {}
    \/ t.key \in OtherKeys(m)
    \/ t.key \in ModeKeys(m) /\ Valid(q, m, t.key, t.v)
Fitting(q, m, tokens) ==
    /\ tokens \in Seq(Token) /\ Distinct(tokens)
    /\ \A i \in DOMAIN tokens : IsToken(tokens[i]) /\ Fits(q, m, tokens[i])

KeysOf(q, m, keys) == Fitting(q, m, keys) /\ \A i \in DOMAIN keys : keys[i].key \in ModeKeys(m)
IsRecord(r) == r = [mode |-> r.mode, keys |-> r.keys]

\* What the tokenizer hands over.
Parsed(c) ==
    /\ c.set \in BOOLEAN /\ c.params \in BOOLEAN /\ c.malformed \in BOOLEAN
    /\ Len(c.modes) \in Nat
    /\ c.modes # <<>> /\ Len(c.modes) <= 1 => Len(c.modes) = 1 /\ c.modes = <<c.modes[1]>>
    /\ c.tokens \in Seq(Token) /\ \A i \in DOMAIN c.tokens : IsToken(c.tokens[i])

\* The mode a line asks for from configuration k, what it starts from, and
\* what it leads to with its first n tokens.
CmdMode(k, c) == IF c.modes = <<>> THEN k.mode ELSE c.modes[Len(c.modes)]
Base(q, k, c) == IF c.modes = <<>> THEN k.val ELSE Defaults(q, CmdMode(k, c)).val
Result(q, k, c, n) == Partial(CmdMode(k, c), Base(q, k, c), c.tokens, n)

\* The longest packet of a configuration fits the airtime.
AirOk(q, k) ==
    IF k.mode = "LORA"
    THEN LoraAirtimeOk(k.val["SF"] \div 1000, k.val["BW"], k.val["CR"] \div 1000,
                       k.val["PREAMBLE"] \div 1000, PayloadLimit(q, "LORA"))
    ELSE FskAirtimeOk(k.val["BR"], k.val["PREAMBLE"] \div 1000, PayloadLimit(q, "FSK"))

\* What a line must be to be accepted: the tokenizer's flags, one mode, every
\* token fitting and no key twice, and the airtime of the outcome.
Admits(q, k, c) ==
    /\ c.set /\ c.params /\ ~c.malformed
    /\ Len(c.modes) <= 1 /\ CmdMode(k, c) \in Modes
    /\ Distinct(c.tokens)
    /\ \A i \in DOMAIN c.tokens : Fits(q, CmdMode(k, c), c.tokens[i])
    /\ AirOk(q, Result(q, k, c, Len(c.tokens)))

\* The configuration a replay record stands for.
RecordMode(r) == IF r.mode = "none" THEN "LORA" ELSE r.mode
Stored(q, r) == Partial(RecordMode(r), Defaults(q, RecordMode(r)).val, r.keys, Len(r.keys))

\* A shadow that says the same as the chip, and its type.
Shadows(e, k) ==
    IF k.mode = "LORA"
    THEN /\ e.sf * 1000 = k.val["SF"] /\ e.bw = k.val["BW"]
         /\ e.cr * 1000 = k.val["CR"] /\ e.pre * 1000 = k.val["PREAMBLE"]
    ELSE e.br = k.val["BR"] /\ e.fpre * 1000 = k.val["PREAMBLE"]
Shadow == [sf : Int, bw : Int, cr : Int, pre : Int, br : Int, fpre : Int]

-----------------------------------------------------------------------------
(* The instance of ConfigPolicy in AtomicConfig.                            *)

\* Atomic's instance of ConfigPolicy and this one's are the same: what a text
\* sets a key to.
LEMMA SameSetting == \A k, v : Atomic!Setting(k, v) = Setting(k, v)
  BY DEF Atomic!Setting, Setting, Atomic!LdroAuto, LdroAuto

\* The same keys of a mode.
LEMMA SameKeys == \A m : Atomic!ModeKeys(m) = ModeKeys(m) /\ Atomic!OtherKeys(m) = OtherKeys(m)
  BY DEF Atomic!ModeKeys, ModeKeys, Atomic!OtherKeys, OtherKeys, Atomic!Common, Common,
         Atomic!LoraOnly, LoraOnly, Atomic!FskOnly, FskOnly

\* The same boot configuration.
LEMMA SameDefaults == \A q, m : Atomic!Defaults(q, m) = Defaults(q, m)
  BY SameKeys DEF Atomic!Defaults, Defaults, Atomic!None, None

\* The boot configuration of a mode is a record of that mode.
LEMMA DefaultsShape == \A q, m : /\ Defaults(q, m) = [mode |-> m, val |-> Defaults(q, m).val]
                                 /\ Defaults(q, m).mode = m
  BY DEF Defaults

\* AtomicConfig's After is Result, taken from what was published.
LEMMA SameAfter ==
  ASSUME NEW c, NEW n, IsConfig(pub.conf)
  PROVE  Atomic!After(c, n) = Result(p, pub.conf, c, n) /\ Atomic!TargetMode(c) = CmdMode(pub.conf, c)
<1> DEFINE m == CmdMode(pub.conf, c)
           base == IF c.modes = <<>> THEN pub.conf ELSE Defaults(p, m)
           f == [key \in ModeKeys(m) |->
                   IF {i \in 1 .. n : c.tokens[i].key = key} = {} THEN base.val[key]
                   ELSE Setting(key, c.tokens[CHOOSE i \in {i \in 1 .. n : c.tokens[i].key = key} : TRUE].v)]
<1>1. Atomic!TargetMode(c) = m
      BY DEF Atomic!TargetMode, CmdMode
<1>2. Atomic!After(c, n) = [base EXCEPT !.val = f]
      BY <1>1, SameSetting, SameKeys, SameDefaults DEF Atomic!After
<1>3. base = [mode |-> m, val |-> base.val]
      BY DefaultsShape DEF CmdMode, IsConfig
<1>4. base.val = Base(p, pub.conf, c)
      BY DEF Base
<1>5. [base EXCEPT !.val = f] = [mode |-> m, val |-> f]
  <2> HIDE DEF base, f, m
  <2> QED BY <1>3
<1>6. Result(p, pub.conf, c, n) = [mode |-> m, val |-> f]
      BY <1>4 DEF Result, Partial, ValueAfter
<1> QED BY <1>1, <1>2, <1>5, <1>6

\* The same values are valid for a key.
LEMMA SameValid ==
  \A q, m, key, v : /\ Atomic!Valid(q, m, key, v) <=> Valid(q, m, key, v)
                    /\ Atomic!AsBool(v) = AsBool(v)
<1>1. \A v : Atomic!AsInt(v) = AsInt(v) /\ Atomic!AsFloat(v) = AsFloat(v)
      BY DEF Atomic!AsInt, AsInt, Atomic!AsFloat, AsFloat
<1>2. \A v : Atomic!AsBool(v) = AsBool(v) /\ Atomic!AsU32(v) = AsU32(v)
      BY <1>1 DEF Atomic!AsBool, AsBool, Atomic!AsU32, AsU32
<1>3. Atomic!LoraBw = LoraBw /\ Atomic!RxBw126 = RxBw126 /\ Atomic!RxBw127 = RxBw127
      BY DEF Atomic!LoraBw, LoraBw, Atomic!RxBw126, RxBw126, Atomic!RxBw127, RxBw127
<1>4. \A s : Atomic!FskSyncOk(s) <=> FskSyncOk(s)
      BY DEF Atomic!FskSyncOk, FskSyncOk
<1>5. \A v : Atomic!ShapingOk(v) <=> ShapingOk(v)
      BY <1>1 DEF Atomic!ShapingOk, ShapingOk
<1>6. \A q, n : Atomic!PowerOk(q, n) <=> PowerOk(q, n)
      BY DEF Atomic!PowerOk, PowerOk
<1>7. \A q, key, v : Atomic!CommonValid(q, key, v) = CommonValid(q, key, v)
      BY <1>1, <1>6, Zenon DEF Atomic!CommonValid, CommonValid
<1>8. \A q, key, v : Atomic!LoraValid(q, key, v) = LoraValid(q, key, v)
  <2> SUFFICES ASSUME NEW q, NEW key, NEW v PROVE Atomic!LoraValid(q, key, v) = LoraValid(q, key, v)
      OBVIOUS
  <2> DEFINE Own == {"SF", "BW", "CR", "CRC", "PREAMBLE", "SYNC", "LDRO"}
  <2>1. CASE key \notin Own
        BY <2>1, <1>7 DEF Atomic!LoraValid, LoraValid
  <2>2. CASE key \in Own
        BY <2>2, <1>1, <1>2, <1>3 DEF Atomic!LoraValid, LoraValid
  <2> QED BY <2>1, <2>2
<1>9. \A q, key, v : Atomic!FskValid(q, key, v) <=> FskValid(q, key, v)
  <2> SUFFICES ASSUME NEW q, NEW key, NEW v PROVE Atomic!FskValid(q, key, v) <=> FskValid(q, key, v)
      OBVIOUS
  <2> DEFINE Plain == {"BR", "FREQDEV", "RXBW", "OOK", "SHAPING", "ENCODING", "PREAMBLE", "SYNC"}
  <2>1. CASE key \notin Plain
        BY <2>1, <1>7 DEF Atomic!FskValid, FskValid
  <2>2. CASE key = "SYNC"
        BY <2>2, <1>2, <1>4 DEF Atomic!FskValid, FskValid
  <2>3. CASE key = "SHAPING"
        BY <2>3, <1>5 DEF Atomic!FskValid, FskValid
  <2>4. CASE key \in {"BR", "FREQDEV"}
        BY <2>4, <1>1 DEF Atomic!FskValid, FskValid
  <2>5. CASE key \in {"RXBW", "OOK", "ENCODING", "PREAMBLE"}
        BY <2>5, <1>1, <1>2, <1>3 DEF Atomic!FskValid, FskValid
  <2> QED BY <2>1, <2>2, <2>3, <2>4, <2>5
<1> QED BY <1>2, <1>8, <1>9 DEF Atomic!Valid, Valid

\* The same configurations fit the airtime.
LEMMA SameAirtime ==
  \A k : Atomic!AirtimeOk(k) <=> AirOk(p, k)
<1>1. \A m : Atomic!PayloadLimit(p, m) = PayloadLimit(p, m)
      BY DEF Atomic!PayloadLimit, PayloadLimit
<1>2. \A s, b, c, r, l : Atomic!LoraAirtimeOk(s, b, c, r, l) <=> LoraAirtimeOk(s, b, c, r, l)
      BY DEF Atomic!LoraAirtimeOk, LoraAirtimeOk, Atomic!LdroRequired, LdroRequired
<1>3. \A b, t, l : Atomic!FskAirtimeOk(b, t, l) <=> FskAirtimeOk(b, t, l)
      BY DEF Atomic!FskAirtimeOk, FskAirtimeOk
<1> QED BY <1>1, <1>2, <1>3 DEF Atomic!AirtimeOk, AirOk

\* AtomicConfig admits what Admits does.
LEMMA SameAdmissible ==
  ASSUME NEW c, IsConfig(pub.conf)
  PROVE  Atomic!Admissible(c) <=> Admits(p, pub.conf, c)
BY SameAfter, SameValid, SameAirtime, SameKeys
   DEF Atomic!Admissible, Admits, Distinct, Fits, Modes

\* Recorded, which picks any of a key's entries, is Stored.
LEMMA SameStored ==
  ASSUME NEW r, r.keys \in Seq(Token)
  PROVE  Recorded(r) = Stored(p, r)
<1>1. DOMAIN r.keys = 1 .. Len(r.keys)
      OBVIOUS
<1> QED BY <1>1 DEF Recorded, Stored, Partial, ValueAfter, RecordMode

-----------------------------------------------------------------------------
(* Configurations token by token.                                           *)

\* A configuration after n tokens is a record of its mode.
LEMMA PartialShape ==
  \A m, base, tokens, n :
     LET k == Partial(m, base, tokens, n)
     IN  /\ k.mode = m /\ k = [mode |-> m, val |-> k.val]
         /\ k.val = [key \in ModeKeys(m) |-> ValueAfter(base, tokens, n, key)]
BY DEF Partial

\* No token, no change: for a key and for the configuration.
LEMMA ValueNone == \A base, tokens, key : ValueAfter(base, tokens, 0, key) = base[key]
BY DEF ValueAfter

\* No token leaves the configuration the apply started from.
LEMMA PartialNone ==
  ASSUME NEW m, NEW base \in [ModeKeys(m) -> Int], NEW tokens
  PROVE  Partial(m, base, tokens, 0) = [mode |-> m, val |-> base]
BY ValueNone DEF Partial

\* Where the keys are all different, the value a key ends with is its only token's.
LEMMA ValueSet ==
  ASSUME NEW base, NEW tokens \in Seq(Token), Distinct(tokens),
         NEW n \in 0 .. Len(tokens), NEW i \in 1 .. n
  PROVE  ValueAfter(base, tokens, n, tokens[i].key) = Setting(tokens[i].key, tokens[i].v)
<1> DEFINE at == {j \in 1 .. n : tokens[j].key = tokens[i].key}
<1>1. ValueAfter(base, tokens, n, tokens[i].key) =
        IF at = {} THEN base[tokens[i].key]
        ELSE Setting(tokens[i].key, tokens[CHOOSE j \in at : TRUE].v)
      BY DEF ValueAfter
<1>2. at = {i}
      BY DEF Distinct
<1>3. (CHOOSE j \in at : TRUE) = i
      BY <1>2
<1> QED BY <1>1, <1>2, <1>3

\* A key none of the tokens names keeps its value.
LEMMA ValueKept ==
  ASSUME NEW base, NEW tokens, NEW n, NEW key, \A i \in 1 .. n : tokens[i].key # key
  PROVE  ValueAfter(base, tokens, n, key) = base[key]
<1>1. {i \in 1 .. n : tokens[i].key = key} = {}
      OBVIOUS
<1> QED BY <1>1 DEF ValueAfter

\* The next token sets its key and leaves the others.
LEMMA ValueOther ==
  ASSUME NEW base, NEW tokens, NEW i \in Nat \ {0}, NEW key, tokens[i].key # key
  PROVE  ValueAfter(base, tokens, i, key) = ValueAfter(base, tokens, i - 1, key)
<1> DEFINE now == {j \in 1 .. i : tokens[j].key = key}
           before == {j \in 1 .. i - 1 : tokens[j].key = key}
<1>1. now = before
      OBVIOUS
<1>2. ValueAfter(base, tokens, i, key) =
         IF now = {} THEN base[key] ELSE Setting(key, tokens[CHOOSE j \in now : TRUE].v)
      BY Zenon DEF ValueAfter
<1>3. ValueAfter(base, tokens, i - 1, key) =
         IF before = {} THEN base[key] ELSE Setting(key, tokens[CHOOSE j \in before : TRUE].v)
      BY Zenon DEF ValueAfter
<1> HIDE DEF now, before
<1> QED BY <1>1, <1>2, <1>3

\* Only the first n tokens count: a list and its continuation agree.
LEMMA ValueTokens ==
  ASSUME NEW base, NEW tokens, NEW others, NEW n \in Nat,
         \A i \in 1 .. n : tokens[i] = others[i], NEW key
  PROVE  ValueAfter(base, tokens, n, key) = ValueAfter(base, others, n, key)
<1> DEFINE at == {i \in 1 .. n : tokens[i].key = key}
           there == {i \in 1 .. n : others[i].key = key}
<1>1. there = at
      OBVIOUS
<1>2. at # {} => tokens[CHOOSE i \in at : TRUE] = others[CHOOSE i \in at : TRUE]
      OBVIOUS
<1>3. ValueAfter(base, tokens, n, key) =
         IF at = {} THEN base[key] ELSE Setting(key, tokens[CHOOSE i \in at : TRUE].v)
      BY Zenon DEF ValueAfter
<1>4. ValueAfter(base, others, n, key) =
         IF there = {} THEN base[key] ELSE Setting(key, others[CHOOSE i \in there : TRUE].v)
      BY Zenon DEF ValueAfter
<1> HIDE DEF at, there
<1> QED BY <1>1, <1>2, <1>3, <1>4

\* The same for whole configurations.
LEMMA PartialTokens ==
  ASSUME NEW m, NEW base, NEW tokens, NEW others, NEW n \in Nat,
         \A i \in 1 .. n : tokens[i] = others[i]
  PROVE  Partial(m, base, tokens, n) = Partial(m, base, others, n)
<1>1. \A key \in ModeKeys(m) : ValueAfter(base, tokens, n, key) = ValueAfter(base, others, n, key)
      BY ValueTokens
<1> QED BY <1>1 DEF Partial

\* A token of another mode, or GETRSSI, leaves the configuration alone.
LEMMA PartialIgnored ==
  ASSUME NEW m, NEW base, NEW tokens, NEW i \in Nat \ {0}, tokens[i].key \notin ModeKeys(m)
  PROVE  Partial(m, base, tokens, i) = Partial(m, base, tokens, i - 1)
<1>1. \A key \in ModeKeys(m) : ValueAfter(base, tokens, i, key) = ValueAfter(base, tokens, i - 1, key)
      BY ValueOther
<1> QED BY <1>1 DEF Partial

\* Two lists that agree on every key but one differ in that key.
LEMMA PartialUpdate ==
  ASSUME NEW m, NEW base, NEW us, NEW l, NEW ts, NEW n, NEW x \in ModeKeys(m), NEW s,
         ValueAfter(base, us, l, x) = s,
         \A key \in ModeKeys(m) : key # x => ValueAfter(base, us, l, key) = ValueAfter(base, ts, n, key)
  PROVE  Partial(m, base, us, l) = With(Partial(m, base, ts, n), x, s)
<1> DEFINE a == Partial(m, base, ts, n)
           b == Partial(m, base, us, l)
<1>1. /\ a = [mode |-> m, val |-> a.val]
      /\ a.val = [key \in ModeKeys(m) |-> ValueAfter(base, ts, n, key)]
      /\ b = [mode |-> m, val |-> b.val]
      /\ b.val = [key \in ModeKeys(m) |-> ValueAfter(base, us, l, key)]
      BY PartialShape
<1> HIDE DEF a, b
<1>2. [a.val EXCEPT ![x] = s] = b.val
      BY <1>1
<1>3. [a EXCEPT !.val[x] = s] = [mode |-> m, val |-> [a.val EXCEPT ![x] = s]]
      BY <1>1
<1>4. b = [a EXCEPT !.val[x] = s]
      BY <1>1, <1>2, <1>3
<1> QED BY <1>4 DEF a, b, With

\* A token of the mode sets its key: one step of the second pass.
LEMMA PartialSet ==
  ASSUME NEW m, NEW base, NEW tokens \in Seq(Token), Distinct(tokens),
         NEW i \in 1 .. Len(tokens), tokens[i].key \in ModeKeys(m)
  PROVE  Partial(m, base, tokens, i) =
           With(Partial(m, base, tokens, i - 1), tokens[i].key, Setting(tokens[i].key, tokens[i].v))
<1>1. ValueAfter(base, tokens, i, tokens[i].key) = Setting(tokens[i].key, tokens[i].v)
  <2>1. i \in 0 .. Len(tokens) /\ i \in 1 .. i
        OBVIOUS
  <2> QED BY <2>1, ValueSet
<1>2. \A key \in ModeKeys(m) : key # tokens[i].key =>
         ValueAfter(base, tokens, i, key) = ValueAfter(base, tokens, i - 1, key)
      BY ValueOther
<1> QED BY <1>1, <1>2, PartialUpdate

\* A setting is a number, auto included.
LEMMA SettingInt == \A key, v : v \in Value => Setting(key, v) \in Int
BY DEF Setting, LdroAuto, Value

\* Every prefix of a line leads to a configuration of the mode.
LEMMA PartialConfig ==
  ASSUME NEW m \in Modes, NEW base \in [ModeKeys(m) -> Int], NEW tokens \in Seq(Token),
         NEW n \in 0 .. Len(tokens)
  PROVE  IsConfig(Partial(m, base, tokens, n))
<1> DEFINE k == Partial(m, base, tokens, n)
<1>1. /\ k.mode = m /\ k = [mode |-> m, val |-> k.val]
      /\ k.val = [key \in ModeKeys(m) |-> ValueAfter(base, tokens, n, key)]
      BY PartialShape
<1>2. \A key \in ModeKeys(m) : ValueAfter(base, tokens, n, key) \in Int
  <2> SUFFICES ASSUME NEW key \in ModeKeys(m) PROVE ValueAfter(base, tokens, n, key) \in Int
      OBVIOUS
  <2> DEFINE at == {i \in 1 .. n : tokens[i].key = key}
  <2>1. at # {} => (CHOOSE i \in at : TRUE) \in at
        OBVIOUS
  <2>2. \A i \in at : tokens[i].v \in Value
    <3>1. \A i \in at : i \in 1 .. Len(tokens) /\ tokens[i] \in Token
          OBVIOUS
    <3> QED BY <3>1 DEF Token
  <2> HIDE DEF at
  <2>3. at # {} => Setting(key, tokens[CHOOSE i \in at : TRUE].v) \in Int
        BY <2>1, <2>2, SettingInt, Zenon
  <2> USE DEF at
  <2> QED BY <2>3 DEF ValueAfter
<1>3. k.val \in [ModeKeys(m) -> Int]
      BY <1>1, <1>2
<1> QED BY <1>1, <1>3 DEF IsConfig

-----------------------------------------------------------------------------
(* The airtime shadow.                                                      *)

\* The shadow keeps some keys in units and some in 1000ths; it follows a
\* configuration when each of its fields does.
Scale(f) == IF f \in {"bw", "br"} THEN 1 ELSE 1000
Shades(e, k) ==
    \A key \in ModeKeys(k.mode) :
       LET f == Field(k.mode, key)
       IN  f # "none" => e[f] \in Int /\ e[f] * Scale(f) = k.val[key]

\* Which key each field of the shadow is for, by mode (PREAMBLE has two).
LEMMA Fields ==
  \A m, key : LET f == Field(m, key) IN
     /\ f \in {"sf", "bw", "cr", "br", "pre", "fpre", "none"}
     /\ f = "sf" <=> key = "SF"
     /\ f = "bw" <=> key = "BW"
     /\ f = "cr" <=> key = "CR"
     /\ f = "br" <=> key = "BR"
     /\ f = "pre" <=> key = "PREAMBLE" /\ m = "LORA"
     /\ f = "fpre" <=> key = "PREAMBLE" /\ m # "LORA"
<1> SUFFICES ASSUME NEW m, NEW key
             PROVE LET f == Field(m, key) IN
     /\ f \in {"sf", "bw", "cr", "br", "pre", "fpre", "none"}
     /\ f = "sf" <=> key = "SF"
     /\ f = "bw" <=> key = "BW"
     /\ f = "cr" <=> key = "CR"
     /\ f = "br" <=> key = "BR"
     /\ f = "pre" <=> key = "PREAMBLE" /\ m = "LORA"
     /\ f = "fpre" <=> key = "PREAMBLE" /\ m # "LORA"
    OBVIOUS
<1>1. CASE key \in {"SF", "BW", "CR", "BR"}
      BY <1>1 DEF Field
<1>2. CASE key = "PREAMBLE"
      BY <1>2 DEF Field
<1>3. CASE key \notin {"SF", "BW", "CR", "BR", "PREAMBLE"}
      BY <1>3 DEF Field
<1> QED BY <1>1, <1>2, <1>3

\* The key tables the validator and the drivers share.
LEMMA KeySets ==
  /\ \A m \in Modes : "PREAMBLE" \in ModeKeys(m) /\ ModeKeys(m) \cap OtherKeys(m) = {} /\
       "GETRSSI" \notin ModeKeys(m) \cup OtherKeys(m)
  /\ "SF" \in ModeKeys("LORA") /\ "BW" \in ModeKeys("LORA") /\ "CR" \in ModeKeys("LORA")
  /\ "LDRO" \in ModeKeys("LORA")
  /\ "BR" \notin ModeKeys("LORA")
  /\ "BR" \in ModeKeys("FSK") /\ "SF" \notin ModeKeys("FSK") /\ "BW" \notin ModeKeys("FSK")
  /\ "CR" \notin ModeKeys("FSK")
BY DEF ModeKeys, OtherKeys, Common, LoraOnly, FskOnly, Modes

\* Field by field is the statement of ShadowIsChip.
LEMMA ShadesAre ==
  ASSUME NEW e \in Shadow, NEW k, k.mode \in Modes
  PROVE  Shades(e, k) <=> Shadows(e, k)
<1>1. CASE k.mode = "LORA"
      BY <1>1, Fields, KeySets DEF Shades, Shadows, Scale, Modes, Shadow
<1>2. CASE k.mode = "FSK"
      BY <1>2, Fields, KeySets DEF Shades, Shadows, Scale, Modes, Shadow
<1> QED BY <1>1, <1>2 DEF Modes

\* A valid value parses, and to the number the chip is set to: the shadow and
\* the setter read the same text alike.
LEMMA ReadValid ==
  ASSUME NEW q, NEW m \in Modes, NEW t, IsToken(t), t.key \in ModeKeys(m), Valid(q, m, t.key, t.v),
         Field(m, t.key) # "none"
  PROVE  \E w \in Int : Read(Field(m, t.key), t.v) = {w} /\
           w * Scale(Field(m, t.key)) = Setting(t.key, t.v)
<1> DEFINE v == t.v
           f == Field(m, t.key)
<1>1. v.form \in STRING /\ v.n \in Int /\ (v.form = "int" => v.n % 1000 = 0)
      BY DEF IsToken, Token, Value
<1>2. AsInt(v) # {} => v.n \div 1000 \in Int /\ AsInt(v) = {v.n \div 1000} /\ (v.n \div 1000) * 1000 = v.n
      BY <1>1 DEF AsInt
<1>3. AsFloat(v) # {} => AsFloat(v) = {v.n}
      BY DEF AsFloat
<1>4. t.key \in {"SF", "BW", "CR", "BR", "PREAMBLE"}
      BY Fields
<1>5. Setting(t.key, v) = v.n
      BY <1>4 DEF Setting
<1>6. CASE t.key \in {"BW", "BR"}
  <2>1. f \in {"bw", "br"}
        BY <1>6, Fields
  <2>2. AsFloat(v) # {}
    <3>1. CASE t.key = "BW" /\ m = "LORA"
          BY <3>1 DEF Valid, LoraValid
    <3>2. CASE t.key = "BR" /\ m = "FSK"
          BY <3>2 DEF Valid, FskValid
    <3> QED BY <1>6, <3>1, <3>2, KeySets DEF Modes
  <2> QED BY <1>1, <1>3, <1>5, <2>1, <2>2 DEF Read, Scale
<1>7. CASE t.key \in {"SF", "CR", "PREAMBLE"}
  <2>1. f \notin {"bw", "br"}
        BY <1>7, Fields
  <2>2. AsInt(v) # {}
    <3>1. CASE t.key \in {"SF", "CR", "PREAMBLE"} /\ m = "LORA"
          BY <3>1 DEF Valid, LoraValid
    <3>2. CASE t.key = "PREAMBLE" /\ m = "FSK"
          BY <3>2 DEF Valid, FskValid
    <3> QED BY <1>7, <3>1, <3>2, KeySets DEF Modes
  <2> QED BY <1>2, <1>5, <2>1, <2>2 DEF Read, Scale
<1> QED BY <1>4, <1>6, <1>7

\* Two keys of a mode do not share a field.
LEMMA FieldsApart ==
  ASSUME NEW m, NEW a, NEW b, Field(m, a) = Field(m, b), Field(m, a) # "none"
  PROVE  a = b
BY Fields

\* config_apply_effective_note_key after a setter keeps the shadow on the chip.
LEMMA MergeShades ==
  ASSUME NEW q, NEW e \in Shadow, NEW k, IsConfig(k), Shades(e, k),
         NEW t, IsToken(t), t.key \in ModeKeys(k.mode), Valid(q, k.mode, t.key, t.v)
  PROVE  /\ Merge(e, k.mode, t) \in Shadow
         /\ Shades(Merge(e, k.mode, t), With(k, t.key, Setting(t.key, t.v)))
<1> DEFINE m == k.mode
           f == Field(m, t.key)
           x == Setting(t.key, t.v)
           k1 == With(k, t.key, x)
           e1 == Merge(e, m, t)
<1>1. /\ k1.mode = m /\ k1.val[t.key] = x
      /\ \A key \in ModeKeys(m) : key # t.key => k1.val[key] = k.val[key]
      BY DEF IsConfig, With
<1>2. CASE f = "none"
  <2>1. e1 = e
        BY <1>2 DEF Merge
  <2>2. \A key \in ModeKeys(m) : Field(m, key) # "none" => key # t.key
        BY <1>2
  <2>3. Shades(e1, k1)
    <3> HIDE DEF k1, e1, x
    <3> QED BY <1>1, <2>1, <2>2 DEF Shades
  <2> QED BY <2>1, <2>3
<1>3. CASE f # "none"
  <2>1. PICK w \in Int : Read(f, t.v) = {w} /\ w * Scale(f) = x
        BY <1>3, ReadValid DEF IsConfig
  <2>2. (CHOOSE n \in Read(f, t.v) : TRUE) = w
        BY <2>1
  <2>3. e1 = [e EXCEPT ![f] = w]
        BY <1>3, <2>1, <2>2 DEF Merge
  <2>4. f \in {"sf", "bw", "cr", "br", "pre", "fpre"}
        BY <1>3, Fields
  <2>5. e1 \in Shadow /\ e1[f] = w /\ \A g \in {"sf", "bw", "cr", "br", "pre", "fpre"} : g # f => e1[g] = e[g]
        BY <2>3, <2>4 DEF Shadow
  <2>6. \A key \in ModeKeys(m) : Field(m, key) # "none" => e1[Field(m, key)] \in Int /\
          e1[Field(m, key)] * Scale(Field(m, key)) = k1.val[key]
    <3> SUFFICES ASSUME NEW key \in ModeKeys(m), Field(m, key) # "none"
                 PROVE  e1[Field(m, key)] \in Int /\
                          e1[Field(m, key)] * Scale(Field(m, key)) = k1.val[key]
        OBVIOUS
    <3> HIDE DEF k1, e1, x
    <3>1. CASE key = t.key
          BY <1>1, <2>1, <2>5, <3>1
    <3>2. CASE key # t.key
      <4>1. Field(m, key) # f
            BY <3>2, <1>3, FieldsApart
      <4>2. Field(m, key) \in {"sf", "bw", "cr", "br", "pre", "fpre"}
            BY Fields
      <4>3. e1[Field(m, key)] = e[Field(m, key)] /\ k1.val[key] = k.val[key]
            BY <1>1, <2>5, <3>2, <4>1, <4>2
      <4> QED BY <4>3 DEF Shades
    <3> QED BY <3>1, <3>2
  <2>7. Shades(e1, k1)
    <3> HIDE DEF k1, e1, x
    <3> QED BY <1>1, <2>6 DEF Shades
  <2> QED BY <2>5, <2>7
<1> QED BY <1>2, <1>3

-----------------------------------------------------------------------------
(* The first pass.                                                          *)

FieldNames == {"sf", "bw", "cr", "br", "pre", "fpre"}

\* The airtime gate's trial merge foresees the shadow after the whole line.
LEMMA MergeAllShades ==
  ASSUME NEW q, NEW m \in Modes, NEW e \in Shadow, NEW base \in [ModeKeys(m) -> Int],
         Shades(e, [mode |-> m, val |-> base]), NEW tokens, Fitting(q, m, tokens)
  PROVE  Shades(MergeAll(e, m, tokens), Partial(m, base, tokens, Len(tokens)))
<1> DEFINE k == Partial(m, base, tokens, Len(tokens))
           n == Len(tokens)
           e1 == MergeAll(e, m, tokens)
<1>1. /\ tokens \in Seq(Token) /\ Distinct(tokens) /\ n \in Nat /\ DOMAIN tokens = 1 .. n /\ n \in 0 .. n
      BY DEF Fitting
<1>2. k.mode = m /\ k.val = [key \in ModeKeys(m) |-> ValueAfter(base, tokens, n, key)]
      BY PartialShape
<1>3. DOMAIN e = FieldNames
      BY DEF Shadow, FieldNames
<1> SUFFICES ASSUME NEW key \in ModeKeys(m), NEW f, f = Field(m, key), f # "none"
             PROVE  e1[f] \in Int /\ e1[f] * Scale(f) = ValueAfter(base, tokens, n, key)
  <2>1. \A key \in ModeKeys(m) : k.val[key] = ValueAfter(base, tokens, n, key)
        BY <1>2
  <2> HIDE DEF k, e1
  <2>2. \A key \in ModeKeys(m) : Field(m, key) # "none" =>
           e1[Field(m, key)] \in Int /\ e1[Field(m, key)] * Scale(Field(m, key)) = k.val[key]
        BY <2>1
  <2>3. Shades(e1, k)
        BY <1>2, <2>2, Zenon DEF Shades
  <2> QED BY <2>3 DEF k, e1
<1> DEFINE for == {i \in DOMAIN tokens : Field(m, tokens[i].key) = f /\ Read(f, tokens[i].v) # {}}
           last == CHOOSE i \in for : \A j \in for : j <= i
<1>4. f \in FieldNames
      BY Fields DEF FieldNames
<1>5. e1[f] = IF for = {} THEN e[f] ELSE CHOOSE w \in Read(f, tokens[last].v) : TRUE
      BY <1>3, <1>4, Zenon DEF MergeAll
<1>6. \A i \in DOMAIN tokens : Field(m, tokens[i].key) = f => tokens[i].key = key
      BY FieldsApart
<1>7. CASE \E i \in DOMAIN tokens : tokens[i].key = key
  <2>1. PICK i \in DOMAIN tokens : tokens[i].key = key
        BY <1>7
  <2>2. IsToken(tokens[i]) /\ Valid(q, m, tokens[i].key, tokens[i].v)
        BY <2>1, KeySets DEF Fitting, Fits
  <2>3. PICK w \in Int : Read(f, tokens[i].v) = {w} /\ w * Scale(f) = Setting(key, tokens[i].v)
        BY <2>1, <2>2, ReadValid
  <2>4. for = {i}
        BY <1>1, <1>6, <2>1, <2>3 DEF Distinct
  <2>5. last = i
    <3> HIDE DEF for
    <3>1. i <= i
          BY <1>1
    <3>2. i \in for /\ \A j \in for : j <= i
          BY <2>4, <3>1
    <3>3. last \in for
          BY <3>2
    <3> QED BY <2>4, <3>3
  <2>6. e1[f] = CHOOSE w1 \in Read(f, tokens[i].v) : TRUE
    <3> HIDE DEF for, last, e1
    <3> QED BY <1>5, <2>4, <2>5
  <2>7. e1[f] = w
    <3> HIDE DEF e1
    <3> QED BY <2>3, <2>6
  <2>8. ValueAfter(base, tokens, n, key) = Setting(key, tokens[i].v)
        BY <1>1, <2>1, ValueSet
  <2> HIDE DEF e1
  <2> QED BY <2>3, <2>7, <2>8
<1>8. CASE \A i \in DOMAIN tokens : tokens[i].key # key
  <2>1. for = {}
        BY <1>6, <1>8
  <2>2. e1[f] = e[f]
    <3> HIDE DEF for, last, e1
    <3> QED BY <1>5, <2>1
  <2>3. ValueAfter(base, tokens, n, key) = base[key]
        BY <1>1, <1>8, ValueKept
  <2>4. e[f] \in Int /\ e[f] * Scale(f) = base[key]
        BY DEF Shades
  <2> HIDE DEF e1
  <2> QED BY <2>2, <2>3, <2>4
<1> QED BY <1>7, <1>8

\* An airtime judged on a shadow is the airtime of the configuration.
LEMMA GateIsAirtime ==
  ASSUME NEW e, NEW k, k.mode \in Modes, Shades(e, k)
  PROVE  AirtimeOk(e, k.mode) <=> AirOk(p, k)
<1>1. CASE k.mode = "LORA"
  <2>1. /\ e.sf \in Int /\ e.sf * 1000 = k.val["SF"] /\ e.bw \in Int /\ e.bw * 1 = k.val["BW"]
        /\ e.cr \in Int /\ e.cr * 1000 = k.val["CR"]
        /\ e.pre \in Int /\ e.pre * 1000 = k.val["PREAMBLE"]
        BY <1>1, Fields, KeySets DEF Shades, Scale, Modes
  <2>2. \A w \in Int : (w * 1000) \div 1000 = w /\ w * 1 = w
        OBVIOUS
  <2>3. /\ e.sf = k.val["SF"] \div 1000 /\ e.bw = k.val["BW"]
        /\ e.cr = k.val["CR"] \div 1000 /\ e.pre = k.val["PREAMBLE"] \div 1000
        BY <2>1, <2>2
  <2> QED BY <1>1, <2>3 DEF AirtimeOk, AirOk
<1>2. CASE k.mode = "FSK"
  <2>1. /\ e.br \in Int /\ e.br * 1 = k.val["BR"]
        /\ e.fpre \in Int /\ e.fpre * 1000 = k.val["PREAMBLE"]
        BY <1>2, Fields, KeySets DEF Shades, Scale, Modes
  <2>2. \A w \in Int : (w * 1000) \div 1000 = w /\ w * 1 = w
        OBVIOUS
  <2>3. e.br = k.val["BR"] /\ e.fpre = k.val["PREAMBLE"] \div 1000
        BY <2>1, <2>2
  <2> QED BY <1>2, <2>3 DEF AirtimeOk, AirOk
<1> QED BY <1>1, <1>2 DEF Modes

\* The boot defaults of a band are a configuration.
LEMMA DefaultsConfig ==
  ASSUME NEW q \in Profiles, NEW m \in Modes
  PROVE  /\ IsConfig(Defaults(q, m)) /\ Defaults(q, m).mode = m
         /\ Defaults(q, m).val \in [ModeKeys(m) -> Int]
<1>1. IsProfile(q)
      BY ConfigAssumption
<1>2. \A key \in ModeKeys("LORA") : q.band[key] \in Int
      BY <1>1 DEF IsProfile
<1>3. CASE m = "LORA"
      BY <1>2, <1>3 DEF Defaults, IsConfig, Modes
<1>4. CASE m = "FSK"
  <2>1. q.band["FREQ"] \in Int /\ q.band["POWER"] \in Int
        BY <1>2 DEF ModeKeys, Common
  <2>2. \A key \in ModeKeys(m) : Defaults(q, m).val[key] \in Int
    <3> SUFFICES ASSUME NEW key \in ModeKeys(m) PROVE Defaults(q, m).val[key] \in Int
        OBVIOUS
    <3>1. CASE key \in {"FREQ", "POWER"}
          BY <1>4, <2>1, <3>1 DEF Defaults
    <3>2. CASE key \in {"BR", "FREQDEV", "PREAMBLE"}
          BY <1>4, <3>2 DEF Defaults
    <3>3. CASE key \notin {"FREQ", "POWER", "BR", "FREQDEV", "PREAMBLE"}
          BY <1>4, <3>3 DEF Defaults, None
    <3> QED BY <3>1, <3>2, <3>3
  <2>3. Defaults(q, m).val = [key \in ModeKeys(m) |-> Defaults(q, m).val[key]]
        BY DEF Defaults
  <2> QED BY <1>4, <2>2, <2>3, DefaultsShape DEF IsConfig
<1> QED BY <1>3, <1>4 DEF Modes

\* config_apply_effective_load_defaults puts the shadow on the boot defaults,
\* in both modes.
LEMMA DefaultsShades ==
  ASSUME p \in Profiles, NEW m \in Modes
  PROVE  EffDefaults \in Shadow /\ Shades(EffDefaults, Defaults(p, m))
<1>1. IsProfile(p)
      BY ConfigAssumption
<1>2. /\ p.band.SF \in Int /\ p.band.BW \in Int /\ p.band.CR \in Int /\ p.band.PREAMBLE \in Int
      /\ p.band.SF % 1000 = 0 /\ p.band.CR % 1000 = 0 /\ p.band.PREAMBLE % 1000 = 0
      BY <1>1, KeySets DEF IsProfile, Modes
<1>3. EffDefaults \in Shadow
      BY <1>2 DEF EffDefaults, Shadow
<1>4. \A w \in Int : w % 1000 = 0 => (w \div 1000) * 1000 = w
      OBVIOUS
<1>5. CASE m = "LORA"
  <2>1. \A key \in ModeKeys(m) : Defaults(p, m).val[key] = p.band[key]
        BY <1>5 DEF Defaults
  <2>2. Shadows(EffDefaults, Defaults(p, m))
        BY <1>2, <1>4, <1>5, <2>1, KeySets, DefaultsShape DEF Shadows, EffDefaults, Modes
  <2> QED BY <1>3, <2>2, ShadesAre, DefaultsShape
<1>6. CASE m = "FSK"
  <2>1. Defaults(p, m).val["BR"] = 4800 /\ Defaults(p, m).val["PREAMBLE"] = 16000
        BY <1>6, KeySets DEF Defaults, Modes
  <2>2. Shadows(EffDefaults, Defaults(p, m))
        BY <1>6, <2>1, DefaultsShape DEF Shadows, EffDefaults
  <2> QED BY <1>3, <2>2, ShadesAre, DefaultsShape
<1> QED BY <1>5, <1>6 DEF Modes

\* The validator's verdict on one token.
LEMMA TokenJudged ==
  ASSUME NEW c, c.tokens \in Seq(Token), TargetMode(c) \in Modes, NEW i \in DOMAIN c.tokens
  PROVE  /\ TokenVerdict(c, i) \in {"OK", "ERR UNKNOWN", "ERR INVALID"}
         /\ TokenVerdict(c, i) = "OK" <=>
              /\ \A j \in 1 .. i - 1 : c.tokens[j].key # c.tokens[i].key
              /\ Fits(p, TargetMode(c), c.tokens[i])
<1> DEFINE t == c.tokens[i]
           m == TargetMode(c)
           dup == \E j \in 1 .. i - 1 : c.tokens[j].key = t.key
<1>1. Known(t.key) <=> t.key = "GETRSSI" \/ t.key \in OtherKeys(m) \/ t.key \in ModeKeys(m)
      BY DEF Known, Modes, OtherKeys, ModeKeys, Common, LoraOnly, FskOnly
<1>2. CASE ~Known(t.key)
      BY <1>1, <1>2 DEF TokenVerdict, Fits
<1>6. CASE Known(t.key) /\ dup
      BY <1>6 DEF TokenVerdict
<1>3. CASE Known(t.key) /\ ~dup /\ t.key = "GETRSSI"
      BY <1>3, KeySets DEF TokenVerdict, Fits
<1>4. CASE Known(t.key) /\ ~dup /\ t.key \in OtherKeys(m)
      BY <1>4, KeySets DEF TokenVerdict, Fits
<1>5. CASE Known(t.key) /\ ~dup /\ t.key \notin {"GETRSSI"} \cup OtherKeys(m)
      BY <1>1, <1>5 DEF TokenVerdict, Fits
<1> QED BY <1>2, <1>3, <1>4, <1>5, <1>6

\* Its verdict on all of them: the first that is bad decides.
LEMMA TokensJudged ==
  ASSUME NEW c, c.tokens \in Seq(Token), TargetMode(c) \in Modes
  PROVE  /\ TokensVerdict(c) \in {"OK", "ERR UNKNOWN", "ERR INVALID"}
         /\ TokensVerdict(c) = "OK" <=>
              /\ Distinct(c.tokens)
              /\ \A i \in DOMAIN c.tokens : Fits(p, TargetMode(c), c.tokens[i])
<1> DEFINE bad == {i \in DOMAIN c.tokens : TokenVerdict(c, i) # "OK"}
           first == CHOOSE i \in bad : \A j \in bad : i <= j
<1>1. DOMAIN c.tokens = 1 .. Len(c.tokens) /\ bad \subseteq Nat
      OBVIOUS
<1>2. bad # {} => first \in bad
  <2> SUFFICES ASSUME bad # {} PROVE first \in bad
      OBVIOUS
  <2> HIDE DEF bad
  <2>1. \E i \in bad : \A j \in bad : i <= j
    <3>1. PICK i \in bad : \A j \in bad : ~(<<j, i>> \in OpToRel(<, Nat))
          BY <1>1, NatLessThanWellFounded, WFMin
    <3>2. \A j \in Nat : <<j, i>> \in OpToRel(<, Nat) <=> j < i
          BY <1>1 DEF OpToRel
    <3>3. \A j \in bad : ~(j < i)
          BY <1>1, <3>1, <3>2
    <3> QED BY <1>1, <3>3
  <2> QED BY <2>1
<1>3. TokensVerdict(c) = IF bad = {} THEN "OK" ELSE TokenVerdict(c, first)
      BY Zenon DEF TokensVerdict
<1>4. bad # {} => TokensVerdict(c) \in {"ERR UNKNOWN", "ERR INVALID"}
      BY <1>2, <1>3, TokenJudged
<1>5. bad = {} <=> /\ Distinct(c.tokens)
                   /\ \A i \in DOMAIN c.tokens : Fits(p, TargetMode(c), c.tokens[i])
  <2>1. bad = {} <=> \A i \in DOMAIN c.tokens :
                        /\ \A j \in 1 .. i - 1 : c.tokens[j].key # c.tokens[i].key
                        /\ Fits(p, TargetMode(c), c.tokens[i])
        BY TokenJudged
  <2>2. Distinct(c.tokens) <=> \A i \in DOMAIN c.tokens : \A j \in 1 .. i - 1 : c.tokens[j].key # c.tokens[i].key
    <3>1. ASSUME Distinct(c.tokens), NEW i \in DOMAIN c.tokens, NEW j \in 1 .. i - 1
          PROVE  c.tokens[j].key # c.tokens[i].key
          BY <1>1, <3>1 DEF Distinct
    <3>2. ASSUME \A i \in DOMAIN c.tokens : \A j \in 1 .. i - 1 : c.tokens[j].key # c.tokens[i].key,
                 NEW i \in DOMAIN c.tokens, NEW j \in DOMAIN c.tokens, c.tokens[i].key = c.tokens[j].key
          PROVE  i = j
      <4>1. ~(i \in 1 .. j - 1) /\ ~(j \in 1 .. i - 1)
            BY <3>2
      <4> QED BY <1>1, <4>1
    <3> QED BY <3>1, <3>2 DEF Distinct
  <2> QED BY <2>1, <2>2
<1> QED BY <1>3, <1>4, <1>5

\* The lines of the constants are lines the tokenizer can produce.
LEMMA CommandParsed ==
  ASSUME NEW c, IsCommand(c)
  PROVE  Parsed(c)
<1>1. c.modes \in Seq(STRING)
      BY DEF IsCommand
<1>2. \A s \in Seq(STRING) : s # <<>> => Len(s) \in Nat \ {0}
      BY EmptySeq
<1>3. Len(c.modes) \in Nat /\ (c.modes # <<>> => Len(c.modes) # 0)
      BY <1>1, <1>2
<1>4. Len(c.modes) = 1 => c.modes = <<c.modes[1]>>
      BY <1>1
<1>5. \A n \in Nat : n <= 1 /\ n # 0 => n = 1
      OBVIOUS
<1>6. c.modes # <<>> /\ Len(c.modes) <= 1 => Len(c.modes) = 1 /\ c.modes = <<c.modes[1]>>
      BY <1>3, <1>4, <1>5, Zenon
<1>7. c.tokens \in Seq(Token)
      BY DEF IsCommand, Token, Value
<1>8. \A i \in DOMAIN c.tokens : c.tokens[i] \in Token
      BY <1>7
<1>9. \A i \in DOMAIN c.tokens : IsToken(c.tokens[i])
      BY <1>8 DEF IsCommand, IsToken
<1> QED BY <1>3, <1>6, <1>7, <1>9 DEF IsCommand, Parsed

\* With the shadow on the chip, the first pass accepts exactly what Admits
\* does: what the shadow cannot tell, nobody needs to know.
LEMMA Judged ==
  ASSUME NEW c, Parsed(c), NEW k, IsConfig(k), k.mode = mode, p \in Profiles,
         eff \in Shadow, Shades(eff, k)
  PROVE  /\ Verdict(c) \in {"OK", "ERR UNKNOWN", "ERR MALFORMED", "ERR INVALID"}
         /\ Verdict(c) = "OK" <=> Admits(p, k, c)
<1> DEFINE m == TargetMode(c)
           n == Len(c.tokens)
<1>1. m = CmdMode(k, c)
      BY DEF TargetMode, CmdMode
<1>2. c.tokens \in Seq(Token) /\ \A i \in DOMAIN c.tokens : IsToken(c.tokens[i])
      BY DEF Parsed
<1>3. m \in Modes => /\ TokensVerdict(c) \in {"OK", "ERR UNKNOWN", "ERR INVALID"}
                     /\ TokensVerdict(c) = "OK" <=> Fitting(p, m, c.tokens)
      BY <1>2, TokensJudged DEF Fitting
<1>4. m \in Modes /\ Fitting(p, m, c.tokens) => (AirtimeGate(c) <=> AirOk(p, Result(p, k, c, n)))
  <2> SUFFICES ASSUME m \in Modes, Fitting(p, m, c.tokens)
               PROVE  AirtimeGate(c) <=> AirOk(p, Result(p, k, c, n))
      OBVIOUS
  <2> DEFINE e == IF c.modes = <<>> THEN eff ELSE EffDefaults
             b == Base(p, k, c)
  <2>1. /\ e \in Shadow /\ b \in [ModeKeys(m) -> Int] /\ Shades(e, [mode |-> m, val |-> b])
    <3>1. CASE c.modes = <<>>
          BY <3>1, <1>1 DEF Base, IsConfig, CmdMode
    <3>2. CASE c.modes # <<>>
      <4>1. b = Defaults(p, m).val
            BY <3>2, <1>1 DEF Base
      <4>2. Defaults(p, m) = [mode |-> m, val |-> b]
            BY <4>1, DefaultsShape
      <4>3. b \in [ModeKeys(m) -> Int]
            BY <4>1, DefaultsConfig
      <4> QED BY <3>2, <4>2, <4>3, DefaultsShades
    <3> QED BY <3>1, <3>2
  <2>2. Shades(MergeAll(e, m, c.tokens), Result(p, k, c, n))
        BY <2>1, <1>1, MergeAllShades DEF Result
  <2>3. Result(p, k, c, n).mode = m
        BY <1>1, PartialShape DEF Result
  <2>4. AirtimeOk(MergeAll(e, m, c.tokens), m) <=> AirOk(p, Result(p, k, c, n))
        BY <2>2, <2>3, GateIsAirtime
  <2> QED BY <2>4 DEF AirtimeGate
<1>5. Len(c.modes) \in Nat
      BY DEF Parsed
<1>6. CASE ~c.set
      BY <1>6 DEF Verdict, Admits
<1>9. CASE c.set /\ (~c.params \/ c.malformed)
  <2>1. Verdict(c) = "ERR MALFORMED"
        BY <1>9 DEF Verdict
  <2> QED BY <1>9, <2>1 DEF Admits
<1>7. CASE c.set /\ c.params /\ ~c.malformed /\ (Len(c.modes) > 1 \/ m \notin Modes)
  <2>1. Verdict(c) = "ERR INVALID"
        BY <1>7 DEF Verdict, Modes
  <2>2. ~(Len(c.modes) <= 1) \/ m \notin Modes
        BY <1>5, <1>7
  <2> QED BY <1>1, <2>1, <2>2 DEF Admits
<1>8. CASE c.set /\ c.params /\ ~c.malformed /\ ~(Len(c.modes) > 1) /\ m \in Modes
  <2>1. Admits(p, k, c) <=> Fitting(p, m, c.tokens) /\ AirOk(p, Result(p, k, c, n))
        BY <1>1, <1>2, <1>5, <1>8 DEF Admits, Fitting
  <2>2. CASE TokensVerdict(c) # "OK"
        BY <1>3, <1>8, <2>1, <2>2 DEF Verdict, Modes
  <2>3. CASE TokensVerdict(c) = "OK"
        BY <1>3, <1>4, <1>8, <2>1, <2>3 DEF Verdict, Modes
  <2> QED BY <2>2, <2>3
<1> QED BY <1>6, <1>7, <1>8, <1>9

-----------------------------------------------------------------------------
(* The drivers.                                                             *)

\* The drivers' own checks refuse nothing the validator let through, and no
\* setter of a valid key is one the chip does not have.
LEMMA TakesValid ==
  ASSUME NEW q \in Profiles, NEW m \in Modes, NEW key \in ModeKeys(m), NEW v \in Value, Valid(q, m, key, v)
  PROVE  DriverTakes(q, m, key, v) /\ ~DriverFails(q, m, key)
<1>1. q.family \in {"SX127X", "SX1262"} /\ q.band.min \in Nat \ {0}
      BY ConfigAssumption DEF IsProfile
<1>2. v.form \in STRING /\ v.n \in Int
      BY DEF Value
<1>3. ~DriverFails(q, m, key)
  <2>1. CASE q.family = "SX1262" /\ m = "FSK" /\ key = "OOK"
        BY <2>1 DEF Valid, FskValid
  <2> QED BY <2>1 DEF DriverFails
<1>4. Takes127(q, m, key, v)
  <2>1. CASE key = "FREQ"
    <3>1. CommonValid(q, key, v)
          BY <2>1 DEF Valid, LoraValid, FskValid
    <3>2. PICK f \in AsFloat(v) : q.band.min <= f
          BY <2>1, <3>1 DEF CommonValid
    <3>3. f \in Int
          BY <1>2 DEF AsFloat
    <3>4. f > 0
          BY <1>1, <3>2, <3>3
    <3> QED BY <2>1, <3>4 DEF Takes127
  <2>2. CASE key = "FREQDEV"
    <3>1. m = "FSK"
          BY <2>2 DEF Modes, ModeKeys, Common, LoraOnly
    <3>2. FskValid(q, key, v)
          BY <3>1 DEF Valid
    <3>3. \E d \in AsFloat(v) : 0 < d /\ d <= 200000
          BY <2>2, <3>2 DEF FskValid
    <3> QED BY <2>2, <3>3 DEF Takes127
  <2>3. CASE key = "ENCODING"
    <3>1. m = "FSK"
          BY <2>3 DEF Modes, ModeKeys, Common, LoraOnly
    <3>2. FskValid(q, key, v)
          BY <3>1 DEF Valid
    <3>3. AsInt(v) \cap (IF q.family = "SX1262" THEN {0, 2} ELSE 0 .. 2) # {}
          BY <2>3, <3>2 DEF FskValid
    <3>4. AsInt(v) \cap 0 .. 2 # {}
          BY <3>3
    <3> QED BY <2>3, <3>4 DEF Takes127
  <2>4. CASE key \notin {"FREQ", "FREQDEV", "ENCODING"}
        BY <2>4 DEF Takes127
  <2> QED BY <2>1, <2>2, <2>3, <2>4
<1>5. q.family = "SX1262" => Takes126(q, m, key, v)
  <2> SUFFICES ASSUME q.family = "SX1262" PROVE Takes126(q, m, key, v)
      OBVIOUS
  <2>1. CASE key = "RXBW"
    <3>1. m = "FSK"
          BY <2>1 DEF Modes, ModeKeys, Common, LoraOnly
    <3>2. FskValid(q, key, v)
          BY <3>1 DEF Valid
    <3>3. AsFloat(v) \cap RxBw126 # {}
          BY <2>1, <3>2 DEF FskValid
    <3>4. \A b \in RxBw126 : b > 0
          BY DEF RxBw126
    <3> QED BY <2>1, <3>3, <3>4 DEF Takes126
  <2>2. CASE key # "RXBW"
        BY <1>4, <2>2 DEF Takes126
  <2> QED BY <2>1, <2>2
<1> QED BY <1>1, <1>3, <1>4, <1>5 DEF DriverTakes

-----------------------------------------------------------------------------
(* The replay record.                                                       *)

\* Noting a token changes the record as the setter changes the chip.
Noted(q, m, base, r, t, s) ==
    /\ IsRecord(s) /\ s.mode = r.mode /\ KeysOf(q, m, s.keys)
    /\ Partial(m, base, s.keys, Len(s.keys)) =
         With(Partial(m, base, r.keys, Len(r.keys)), t.key, Setting(t.key, t.v))

\* config_apply_replay_note keeps one entry per key and the record in step,
\* whether the key is new or replaced.
LEMMA NoteKeeps ==
  ASSUME NEW q, NEW m, NEW r, IsRecord(r), KeysOf(q, m, r.keys),
         NEW t, IsToken(t), Fits(q, m, t), t.key \in ModeKeys(m), NEW base, NEW s, s = Note(r, t)
  PROVE  Noted(q, m, base, r, t, s)
<1> DEFINE n == Len(r.keys)
           same == {i \in DOMAIN r.keys : r.keys[i].key = t.key}
<1>1. /\ r.keys \in Seq(Token) /\ t \in Token /\ n \in Nat /\ DOMAIN r.keys = 1 .. n /\ Distinct(r.keys)
      /\ \A i \in 1 .. n : IsToken(r.keys[i]) /\ Fits(q, m, r.keys[i])
      /\ r = [mode |-> r.mode, keys |-> r.keys] /\ Fitting(q, m, r.keys)
      /\ \A i \in DOMAIN r.keys : r.keys[i].key \in ModeKeys(m)
      BY DEF KeysOf, Fitting, IsToken, IsRecord
<1>2. CASE same = {}
  <2> DEFINE us == Append(r.keys, t)
  <2>1. s = [mode |-> r.mode, keys |-> us]
        BY <1>1, <1>2 DEF Note
  <2>2. /\ us \in Seq(Token) /\ Len(us) = n + 1 /\ DOMAIN us = 1 .. n + 1 /\ us[n + 1] = t
        /\ \A i \in 1 .. n : us[i] = r.keys[i]
        BY <1>1
  <2> HIDE DEF us
  <2>3. \A i \in 1 .. n : r.keys[i].key # t.key
        BY <1>1, <1>2
  <2>4. Distinct(us)
    <3> SUFFICES ASSUME NEW i \in 1 .. n + 1, NEW j \in 1 .. n + 1, us[i].key = us[j].key PROVE i = j
        BY <2>2 DEF Distinct
    <3>1. CASE i \in 1 .. n /\ j \in 1 .. n
          BY <1>1, <2>2, <3>1 DEF Distinct
    <3>2. CASE i = n + 1 \/ j = n + 1
          BY <1>1, <2>2, <2>3, <3>2
    <3> QED BY <1>1, <3>1, <3>2
  <2>5. \A i \in 1 .. n + 1 : i \in 1 .. n \/ i = n + 1
        BY <1>1
  <2>6. Fitting(q, m, us) /\ \A i \in DOMAIN us : us[i].key \in ModeKeys(m)
        BY <1>1, <2>2, <2>4, <2>5 DEF Fitting
  <2>7. ValueAfter(base, us, n + 1, t.key) = Setting(t.key, t.v)
    <3>1. n + 1 \in 0 .. Len(us) /\ n + 1 \in 1 .. n + 1
          BY <1>1, <2>2
    <3> QED BY <2>2, <2>4, <3>1, ValueSet
  <2>8. \A key \in ModeKeys(m) : key # t.key =>
           ValueAfter(base, us, n + 1, key) = ValueAfter(base, r.keys, n, key)
    <3> SUFFICES ASSUME NEW key \in ModeKeys(m), key # t.key
                 PROVE  ValueAfter(base, us, n + 1, key) = ValueAfter(base, r.keys, n, key)
        OBVIOUS
    <3>1. n + 1 \in Nat \ {0} /\ (n + 1) - 1 = n
          BY <1>1
    <3>2. ValueAfter(base, us, n + 1, key) = ValueAfter(base, us, n, key)
      <4>1. us[n + 1].key # key
            BY <2>2
      <4>2. ValueAfter(base, us, n + 1, key) = ValueAfter(base, us, (n + 1) - 1, key)
            BY <3>1, <4>1, ValueOther
      <4> QED BY <3>1, <4>2
    <3>3. ValueAfter(base, us, n, key) = ValueAfter(base, r.keys, n, key)
          BY <1>1, <2>2, ValueTokens
    <3> QED BY <3>2, <3>3
  <2>9. Partial(m, base, us, n + 1) = With(Partial(m, base, r.keys, n), t.key, Setting(t.key, t.v))
        BY <2>7, <2>8, PartialUpdate
  <2>10. s.keys = us /\ Len(s.keys) = n + 1
        BY <2>1, <2>2
  <2>11. /\ IsRecord(s) /\ s.mode = r.mode /\ KeysOf(q, m, s.keys)
         /\ Partial(m, base, s.keys, Len(s.keys)) =
              With(Partial(m, base, r.keys, Len(r.keys)), t.key, Setting(t.key, t.v))
        BY <2>1, <2>6, <2>9, <2>10 DEF KeysOf, IsRecord
  <2> QED BY <2>11 DEF Noted
<1>3. CASE same # {}
  <2>1. PICK j \in 1 .. n : r.keys[j].key = t.key
        BY <1>1, <1>3
  <2>2. same = {j}
        BY <1>1, <2>1 DEF Distinct
  <2> DEFINE us == [i \in 1 .. n |-> IF i = j THEN t ELSE r.keys[i]]
  <2>3. s = [mode |-> r.mode, keys |-> us]
    <3>1. [i \in DOMAIN r.keys |-> IF i \in same THEN t ELSE r.keys[i]] = us
          BY <1>1, <2>2
    <3>2. s = [r EXCEPT !.keys = [i \in DOMAIN r.keys |-> IF i \in same THEN t ELSE r.keys[i]]]
          BY <1>3 DEF Note
    <3> HIDE DEF us
    <3> QED BY <1>1, <3>1, <3>2
  <2>4. /\ us \in Seq(Token) /\ Len(us) = n /\ DOMAIN us = 1 .. n /\ us[j] = t
        /\ \A i \in 1 .. n : i # j => us[i] = r.keys[i]
        BY <1>1
  <2> HIDE DEF us
  <2>5. \A i \in 1 .. n : us[i].key = r.keys[i].key
        BY <2>1, <2>4
  <2>6. Distinct(us)
        BY <1>1, <2>4, <2>5 DEF Distinct
  <2>7. Fitting(q, m, us) /\ \A i \in DOMAIN us : us[i].key \in ModeKeys(m)
        BY <1>1, <2>4, <2>6 DEF Fitting
  <2>8. n \in 0 .. Len(us) /\ n \in 0 .. Len(r.keys)
        BY <1>1, <2>4
  <2>9. ValueAfter(base, us, n, t.key) = Setting(t.key, t.v)
        BY <2>4, <2>6, <2>8, ValueSet
  <2>10. \A key \in ModeKeys(m) : key # t.key =>
           ValueAfter(base, us, n, key) = ValueAfter(base, r.keys, n, key)
    <3> SUFFICES ASSUME NEW key \in ModeKeys(m), key # t.key
                 PROVE  ValueAfter(base, us, n, key) = ValueAfter(base, r.keys, n, key)
        OBVIOUS
    <3>1. CASE \E i \in 1 .. n : r.keys[i].key = key
      <4>1. PICK i \in 1 .. n : r.keys[i].key = key
            BY <3>1
      <4>2. us[i] = r.keys[i]
            BY <2>1, <2>4, <4>1
      <4>3. ValueAfter(base, us, n, key) = Setting(key, us[i].v)
            BY <2>4, <2>6, <2>8, <4>1, <4>2, ValueSet
      <4>4. ValueAfter(base, r.keys, n, key) = Setting(key, r.keys[i].v)
            BY <1>1, <2>8, <4>1, ValueSet
      <4> QED BY <4>2, <4>3, <4>4
    <3>2. CASE \A i \in 1 .. n : r.keys[i].key # key
      <4>1. ValueAfter(base, us, n, key) = base[key]
            BY <2>5, <3>2, ValueKept
      <4>2. ValueAfter(base, r.keys, n, key) = base[key]
            BY <3>2, ValueKept
      <4> QED BY <4>1, <4>2
    <3> QED BY <3>1, <3>2
  <2>11. Partial(m, base, us, n) = With(Partial(m, base, r.keys, n), t.key, Setting(t.key, t.v))
        BY <2>9, <2>10, PartialUpdate
  <2>12. /\ IsRecord(s) /\ s.mode = r.mode /\ KeysOf(q, m, s.keys)
         /\ Partial(m, base, s.keys, Len(s.keys)) =
              With(Partial(m, base, r.keys, Len(r.keys)), t.key, Setting(t.key, t.v))
    <3>1. s.keys = us /\ Len(s.keys) = n
          BY <2>3, <2>4
    <3> QED BY <2>3, <2>7, <2>11, <3>1 DEF KeysOf, IsRecord
  <2> QED BY <2>12 DEF Noted
<1> QED BY <1>2, <1>3 DEF Noted

\* Noting an entry the record has changes nothing: a replay without MODE
\* leaves its own record as it is.
LEMMA NoteSame ==
  ASSUME NEW m, NEW keys \in Seq(Token), Distinct(keys), NEW i \in 1 .. Len(keys)
  PROVE  Note([mode |-> m, keys |-> keys], keys[i]) = [mode |-> m, keys |-> keys]
<1> DEFINE same == {j \in DOMAIN keys : keys[j].key = keys[i].key}
<1>1. same = {i}
      BY DEF Distinct
<1>2. [j \in DOMAIN keys |-> IF j \in same THEN keys[i] ELSE keys[j]] = keys
      BY <1>1
<1> QED BY <1>1, <1>2 DEF Note

\* Noting the next of a list rebuilds it: a replay with MODE clears the record
\* and gets it back entry by entry.
LEMMA NoteNext ==
  ASSUME NEW m, NEW keys \in Seq(Token), Distinct(keys), NEW i \in 1 .. Len(keys)
  PROVE  Note([mode |-> m, keys |-> SubSeq(keys, 1, i - 1)], keys[i]) =
           [mode |-> m, keys |-> SubSeq(keys, 1, i)]
<1> DEFINE a == SubSeq(keys, 1, i - 1)
<1>1. DOMAIN a = 1 .. i - 1 /\ \A j \in 1 .. i - 1 : a[j] = keys[j]
      OBVIOUS
<1>2. {j \in DOMAIN a : a[j].key = keys[i].key} = {}
      BY <1>1 DEF Distinct
<1>3. Append(a, keys[i]) = SubSeq(keys, 1, i)
      OBVIOUS
<1> HIDE DEF a
<1>4. Note([mode |-> m, keys |-> a], keys[i]) = [mode |-> m, keys |-> Append(a, keys[i])]
      BY <1>2 DEF Note
<1> QED BY <1>3, <1>4 DEF a

-----------------------------------------------------------------------------
(* LDRO.                                                                    *)

\* The bit that the chip holds is right; RadioLib's cache agrees with it as
\* long as the automatic is on.
Ldro == [bit : BOOLEAN, cache : BOOLEAN, auto : BOOLEAN]
LdroOk(l, k) ==
    /\ l.auto <=> k.val["LDRO"] = LdroAuto
    /\ l.auto => (l.cache <=> l.bit)
    /\ l.bit <=> IF k.val["LDRO"] = LdroAuto
                 THEN LdroRequired(k.val["SF"] \div 1000, k.val["BW"])
                 ELSE k.val["LDRO"] # 0

\* forceLDRO sets bit and cache and ends the automatic.
LEMMA Forced ==
  \A b \in BOOLEAN :
     LET l == ForceLdro(b) IN l \in Ldro /\ l.bit = b /\ l.cache = b /\ l.auto = FALSE
BY DEF ForceLdro, Ldro

\* applyAutoLdro leaves the bit right and the automatic on.
LEMMA AutoApplied ==
  ASSUME NEW l, NEW k
  PROVE  LET a == ApplyAutoLdro(l, k)
             r == LdroRequired(k.val["SF"] \div 1000, k.val["BW"])
         IN  a \in Ldro /\ a.auto /\ (a.cache <=> a.bit) /\ (a.bit <=> r)
<1> DEFINE r == LdroRequired(k.val["SF"] \div 1000, k.val["BW"])
<1>1. r \in BOOLEAN
      BY DEF LdroRequired
<1> HIDE DEF r
<1>2. ApplyAutoLdro(l, k) = [[bit |-> r, cache |-> r, auto |-> FALSE] EXCEPT !.auto = TRUE]
      BY Zenon DEF ApplyAutoLdro, ForceLdro, r
<1>3. ApplyAutoLdro(l, k) = [bit |-> r, cache |-> r, auto |-> TRUE]
      BY <1>2
<1> QED BY <1>1, <1>3 DEF Ldro, r

\* Whatever the chip's bit was before a warm start, begin() leaves it right.
LEMMA LdroBegun ==
  ASSUME p \in Profiles, NEW l
  PROVE  BeginLdro(l) \in Ldro /\ LdroOk(BeginLdro(l), Defaults(p, "LORA"))
<1> DEFINE k == Defaults(p, "LORA")
           b == BeginLdro(l)
<1>1. k.val["LDRO"] = p.band.LDRO
      BY KeySets DEF Defaults
<1>2. CASE p.band.LDRO = LdroAuto
  <2>1. \E l0 : b = ApplyAutoLdro(l0, k)
        BY <1>2 DEF BeginLdro
  <2> HIDE DEF b, k
  <2>2. b \in Ldro /\ LdroOk(b, k)
        BY <1>1, <1>2, <2>1, AutoApplied DEF LdroOk
  <2> QED BY <2>2 DEF b, k
<1>3. CASE p.band.LDRO # LdroAuto
  <2>1. b = ForceLdro(p.band.LDRO # 0)
        BY <1>3 DEF BeginLdro
  <2>2. (p.band.LDRO # 0) \in BOOLEAN
        OBVIOUS
  <2> HIDE DEF b, k
  <2>3. b \in Ldro /\ (b.bit <=> p.band.LDRO # 0) /\ ~b.auto
        BY <2>1, <2>2, Forced
  <2>4. LdroOk(b, k)
        BY <1>1, <1>3, <2>3 DEF LdroOk
  <2> QED BY <2>3, <2>4 DEF b, k
<1> QED BY <1>2, <1>3

\* Every key's setter keeps it right: SF and BW recompute, LDRO forces.
LEMMA LdroSet ==
  ASSUME NEW q, NEW k, IsConfig(k), ldro \in Ldro, NEW t, IsToken(t), t.key \in ModeKeys(k.mode),
         Valid(q, k.mode, t.key, t.v)
  PROVE  LET k1 == With(k, t.key, Setting(t.key, t.v)) IN
         /\ SetLdro(t, k1) \in Ldro
         /\ k.mode = "LORA" /\ LdroOk(ldro, k) => LdroOk(SetLdro(t, k1), k1)
<1> DEFINE k1 == With(k, t.key, Setting(t.key, t.v))
           l1 == SetLdro(t, k1)
           r == LdroRequired(k1.val["SF"] \div 1000, k1.val["BW"])
<1>0. r \in BOOLEAN
      BY DEF LdroRequired
<1>1. /\ k1.val[t.key] = Setting(t.key, t.v)
      /\ \A key \in ModeKeys(k.mode) : key # t.key => k1.val[key] = k.val[key]
      BY DEF IsConfig, With
<1> HIDE DEF k1, r
<1> SUFFICES l1 \in Ldro /\ (k.mode = "LORA" /\ LdroOk(ldro, k) => LdroOk(l1, k1))
    BY DEF k1
<1>2. CASE t.key \in {"SF", "BW"}
  <2>1. l1 = IF ~ldro.auto THEN ldro
             ELSE [ldro EXCEPT !.cache = r, !.bit = IF r # ldro.cache THEN r ELSE ldro.bit]
        BY <1>2 DEF SetLdro, Recompute, r
  <2>2. l1 \in Ldro /\ l1.auto = ldro.auto
        BY <1>0, <2>1 DEF Ldro
  <2>3. ~ldro.auto => l1 = ldro
        BY <2>1
  <2>4. ldro.auto => l1.cache = r /\ l1.bit = IF r # ldro.cache THEN r ELSE ldro.bit
        BY <2>1 DEF Ldro
  <2>5. k.mode = "LORA" => k1.val["LDRO"] = k.val["LDRO"]
        BY <1>1, <1>2, KeySets
  <2> HIDE DEF l1
  <2>6. ASSUME k.mode = "LORA", LdroOk(ldro, k) PROVE LdroOk(l1, k1)
    <3>1. CASE ldro.auto
          BY <1>0, <2>2, <2>4, <2>5, <2>6, <3>1 DEF LdroOk, Ldro, r
    <3>2. CASE ~ldro.auto
          BY <2>3, <2>5, <2>6, <3>2 DEF LdroOk
    <3> QED BY <3>1, <3>2
  <2> QED BY <2>2, <2>6
<1>3. CASE t.key = "LDRO" /\ t.v.form = "auto"
  <2>1. l1 = ApplyAutoLdro(ldro, k1)
        BY <1>3 DEF SetLdro
  <2>2. k1.val["LDRO"] = LdroAuto
        BY <1>1, <1>3 DEF Setting
  <2> HIDE DEF l1
  <2> QED BY <2>1, <2>2, AutoApplied DEF LdroOk
<1>4. CASE t.key = "LDRO" /\ t.v.form # "auto"
  <2>0. Setting("LDRO", t.v) = t.v.n
        BY <1>4 DEF Setting
  <2>1. l1 = ForceLdro(t.v.n # 0)
        BY <1>4, <2>0 DEF SetLdro
  <2>2. k1.val["LDRO"] = t.v.n
        BY <1>1, <1>4, <2>0
  <2>3. k.mode = "LORA"
        BY <1>4 DEF IsConfig, Modes, ModeKeys, Common, FskOnly
  <2>4. AsBool(t.v) # {}
        BY <1>4, <2>3 DEF Valid, LoraValid
  <2>5. t.v.n # LdroAuto
    <3>1. t.v.n \in Int /\ t.v.n \div 1000 \in {0, 1}
          BY <2>4 DEF AsBool, AsInt, IsToken, Token, Value
    <3> QED BY <3>1 DEF LdroAuto
  <2>6. (t.v.n # 0) \in BOOLEAN
        OBVIOUS
  <2> HIDE DEF l1
  <2>7. l1 \in Ldro /\ (l1.bit <=> t.v.n # 0) /\ ~l1.auto
        BY <2>1, <2>6, Forced
  <2> QED BY <2>2, <2>5, <2>7 DEF LdroOk
<1>5. CASE t.key \notin {"SF", "BW", "LDRO"}
  <2>1. l1 = ldro
        BY <1>5 DEF SetLdro
  <2>2. k.mode = "LORA" => k1.val["SF"] = k.val["SF"] /\ k1.val["BW"] = k.val["BW"] /\
          k1.val["LDRO"] = k.val["LDRO"]
        BY <1>1, <1>5, KeySets
  <2> HIDE DEF l1
  <2> QED BY <2>1, <2>2 DEF LdroOk
<1> QED BY <1>2, <1>3, <1>4, <1>5

-----------------------------------------------------------------------------
(* The inductive invariant.                                                 *)

\* The types, and that the mode is the chip's.
ApplyType ==
    /\ p \in Profiles /\ health \in {"READY", "FAILED", "UNPLUGGED", "EXIT"}
    /\ lost \in BOOLEAN /\ replaying \in BOOLEAN /\ torn \in BOOLEAN
    /\ IsConfig(chip) /\ chip.mode = mode
    /\ ldro \in Ldro
    /\ line = <<>> \/ \E c \in Lines : line = <<c>>
    /\ pub = [conf |-> pub.conf, up |-> pub.up] /\ IsConfig(pub.conf) /\ pub.up \in BOOLEAN

\* The airtime shadow is on the chip, in the midst of an apply too.
ShadowInv == eff \in Shadow /\ Shades(eff, chip)

\* The replay record holds valid keys of its mode, each once.
RecordType ==
    /\ IsRecord(record)
    /\ record.mode \in {"none"} \cup Modes
    /\ KeysOf(p, RecordMode(record), record.keys)

\* A ready LoRa radio has the right bit; after an error it may not.
LdroInv == health = "READY" /\ mode = "LORA" => LdroOk(ldro, chip)

\* An apply in its second pass, the mode it sets keys in, and what the first
\* pass has left of the line: fitting tokens only.
Busy(j) == j.do \in {"mode", "getrssi", "keys"}
Target(j, m) == IF j.do = "mode" THEN j.c.modes[1] ELSE m
JobOk(q, m, j) ==
    /\ m \in Modes /\ j.c.modes \in {<<>>, <<m>>}
    /\ j.do = "mode" => j.c.modes # <<>>
    /\ Fitting(q, m, j.c.tokens)
    /\ j.i \in 1 .. Len(j.c.tokens) + 1
    /\ j.do # "keys" => j.i = 1

\* Whose apply it is: a client's, whose line is still there, or the re-init's.
JobInv ==
    /\ job = [do |-> job.do, c |-> job.c, i |-> job.i]
    /\ job.do \in {"none", "replay", "mode", "getrssi", "keys"}
    /\ job.do = "replay" => replaying
    /\ replaying => job.do # "none"
    /\ job.do # "none" => health # "EXIT"
    /\ job.do # "none" /\ ~replaying => line = <<job.c>>
    /\ Busy(job) => JobOk(p, Target(job, mode), job)

\* With the lock free, clients have been shown the chip.
IdleInv ==
    job.do = "none" => /\ pub.up <=> health = "READY"
                       /\ health # "EXIT" => pub.conf = chip

\* The record stands for the chip, outside a replay.
RecordInv == ~replaying /\ health # "EXIT" => Stored(p, record) = chip

\* A client's apply: published is the configuration before it, which admitted
\* the line, and the chip has its first tokens.
ServeInv ==
    job.do # "none" /\ ~replaying =>
       /\ pub.up /\ Admits(p, pub.conf, job.c)
       /\ chip = IF job.do = "mode" THEN pub.conf ELSE Result(p, pub.conf, job.c, job.i - 1)

\* A replay: published is what the record stood for; the line built from it
\* is on the way there, and the record with it.
Rebuilt(q, m, keys, n) == Partial(m, Defaults(q, m).val, keys, n)

ReplayInv ==
    /\ job.do = "replay" =>
          chip = Defaults(p, "LORA") /\ pub.conf = Stored(p, record)
    /\ replaying /\ job.do # "replay" =>
          /\ AirOk(p, pub.conf)
          /\ pub.conf = Rebuilt(p, Target(job, mode), job.c.tokens, Len(job.c.tokens))
          /\ KeysOf(p, Target(job, mode), job.c.tokens)
          /\ job.do # "mode" => chip = Rebuilt(p, mode, job.c.tokens, job.i - 1)
          /\ job.c.modes = <<>> => mode = "LORA" /\ record = [mode |-> "none", keys |-> job.c.tokens]
          /\ job.c.modes # <<>> /\ job.do # "mode" =>
                record = [mode |-> mode, keys |-> SubSeq(job.c.tokens, 1, job.i - 1)]

\* A published configuration fits the airtime, unless it is what a torn
\* command left behind on a radio that is down.
AirInv == pub.up \/ ~torn => AirOk(p, pub.conf)

\* The inductive invariant.
ApplyInv ==
    /\ ApplyType /\ ShadowInv /\ RecordType /\ LdroInv /\ JobInv /\ IdleInv
    /\ RecordInv /\ ServeInv /\ ReplayInv /\ AirInv

\* Every line a client sends is one the tokenizer produces.
LEMMA LinesParsed == \A c \in Lines : Parsed(c)
BY ConfigAssumption, CommandParsed

\* A line without tokens fits every mode.
LEMMA EmptyFits ==
  ASSUME NEW q, NEW m
  PROVE  KeysOf(q, m, <<>>) /\ Fitting(q, m, <<>>) /\ Len(<<>>) = 0
BY DEF KeysOf, Fitting, Distinct

\* A replay starts from the boot defaults of its mode.
LEMMA RebuiltNone ==
  ASSUME NEW q \in Profiles, NEW m \in Modes, NEW keys
  PROVE  Rebuilt(q, m, keys, 0) = Defaults(q, m)
<1>1. Partial(m, Defaults(q, m).val, keys, 0) = [mode |-> m, val |-> Defaults(q, m).val]
      BY DefaultsConfig, PartialNone
<1> QED BY <1>1, DefaultsShape DEF Rebuilt

\* What a record stands for is its complete replay.
LEMMA StoredRebuilt ==
  ASSUME NEW q, NEW r
  PROVE  Stored(q, r) = Rebuilt(q, RecordMode(r), r.keys, Len(r.keys))
BY DEF Stored, Rebuilt

\* A record that is started anew stands for the boot defaults.
LEMMA StoredNone ==
  ASSUME NEW q \in Profiles, NEW m \in Modes \cup {"none"}
  PROVE  LET r == StartMode(m) IN
         /\ Stored(q, r) = Defaults(q, RecordMode(r))
         /\ r = [mode |-> m, keys |-> <<>>] /\ r.mode = m /\ r.keys = <<>>
         /\ KeysOf(q, RecordMode(r), r.keys)
<1> DEFINE r == StartMode(m)
<1>1. r = [mode |-> m, keys |-> <<>>] /\ r.mode = m /\ r.keys = <<>>
      BY DEF StartMode
<1>2. RecordMode(r) \in Modes
      BY <1>1 DEF RecordMode, Modes
<1> HIDE DEF r
<1>3. Stored(q, r) = Defaults(q, RecordMode(r))
      BY <1>1, <1>2, EmptyFits, StoredRebuilt, RebuiltNone
<1>4. KeysOf(q, RecordMode(r), r.keys)
      BY <1>1, EmptyFits
<1> QED BY <1>1, <1>3, <1>4 DEF r

\* The boot defaults of the profile fit the airtime (ConfigAssumption).
LEMMA DefaultAir ==
  ASSUME NEW q \in Profiles
  PROVE  AirOk(q, Defaults(q, "LORA"))
<1>1. \A key \in ModeKeys("LORA") : Defaults(q, "LORA").val[key] = q.band[key]
      BY DEF Defaults
<1>2. Defaults(q, "LORA").mode = "LORA"
      BY DefaultsShape
<1>3. LoraAirtimeOk(q.band.SF \div 1000, q.band.BW, q.band.CR \div 1000,
                    q.band.PREAMBLE \div 1000, PayloadLimit(q, "LORA"))
      BY ConfigAssumption DEF IsProfile
<1> QED BY <1>1, <1>2, <1>3, KeySets DEF AirOk, Modes

\* Publish, in the terms of this module.
LEMMA Published ==
  ASSUME Publish, RecordType', p' = p, health' \in {"READY", "FAILED", "UNPLUGGED", "EXIT"}
  PROVE  /\ pub' = [conf |-> pub'.conf, up |-> pub'.up]
         /\ pub'.up \in BOOLEAN /\ (pub'.up <=> health' = "READY")
         /\ health' = "READY" => pub'.conf = chip'
         /\ health' = "EXIT" => pub'.conf = pub.conf
         /\ health' \in {"FAILED", "UNPLUGGED"} => pub'.conf = Stored(p', record')
<1>1. Recorded(record') = Stored(p, record')
  <2>1. record'.keys \in Seq(Token)
        BY DEF RecordType, KeysOf, Fitting
  <2> QED BY <2>1, SameStored
<1> QED BY <1>1 DEF Publish

\* The invariant holds at boot.
LEMMA InitInv == Init => ApplyInv
<1> SUFFICES ASSUME Init PROVE ApplyInv
    OBVIOUS
<1>1. PICK bit \in BOOLEAN : ldro = BeginLdro([bit |-> bit, cache |-> FALSE, auto |-> TRUE])
      BY DEF Init
<1>2. p \in Profiles /\ "LORA" \in Modes
      BY DEF Init, Modes
<1>3. IsConfig(chip) /\ chip.mode = "LORA" /\ chip = Defaults(p, "LORA")
      BY <1>2, DefaultsConfig DEF Init
<1>4. ldro \in Ldro /\ LdroOk(ldro, chip)
      BY <1>1, <1>2, <1>3, LdroBegun
<1>5. pub.conf = chip /\ pub.up = TRUE /\ pub = [conf |-> pub.conf, up |-> pub.up]
      BY DEF Init
<1>6. ApplyType
      BY <1>2, <1>3, <1>4, <1>5 DEF Init, ApplyType
<1>7. ShadowInv
      BY <1>2, <1>3, DefaultsShades DEF Init, ShadowInv
<1>8. record = StartMode("none") /\ RecordMode(record) = "LORA"
      BY DEF Init, RecordMode, StartMode
<1>9. RecordType /\ Stored(p, record) = chip
      BY <1>2, <1>3, <1>8, StoredNone DEF RecordType, IsRecord
<1>10. JobInv /\ job.do = "none" /\ ~replaying /\ health = "READY"
      BY DEF Init, JobInv, NoJob, Busy
<1>11. AirInv
      BY <1>2, <1>3, <1>5, DefaultAir DEF AirInv
<1> QED BY <1>4, <1>5, <1>6, <1>7, <1>9, <1>10, <1>11
        DEF ApplyInv, LdroInv, IdleInv, RecordInv, ServeInv, ReplayInv

-----------------------------------------------------------------------------
(* Serving a line.                                                          *)

\* A line arriving keeps the invariant.
LEMMA ReceiveInv ==
  ASSUME ApplyInv, NEW c \in Lines, Receive(c)
  PROVE  ApplyInv'
<1>1. /\ UNCHANGED <<p, health, lost, mode, chip, ldro, eff, record, job, replaying, pub, torn>>
      /\ job.do = "none" /\ line' = <<c>>
      BY DEF Receive, Applying
<1>2. ApplyType'
      BY <1>1 DEF ApplyInv, ApplyType
<1>3. JobInv'
      BY <1>1 DEF ApplyInv, JobInv, Busy
<1>4. RecordType' /\ ShadowInv' /\ LdroInv' /\ IdleInv' /\ RecordInv' /\ ServeInv' /\ AirInv'
      BY <1>1 DEF ApplyInv, RecordType, ShadowInv, LdroInv, IdleInv, RecordInv, ServeInv, AirInv
<1>5. ReplayInv'
      BY <1>1 DEF ApplyInv, ReplayInv, JobInv
<1> QED BY <1>2, <1>3, <1>4, <1>5 DEF ApplyInv

\* So does a step that changes none of what it speaks of (ReadReply).
LEMMA StutterInv ==
  ASSUME ApplyInv,
         UNCHANGED <<p, health, lost, mode, chip, ldro, eff, record, job, replaying, line, pub, torn>>
  PROVE  ApplyInv'
<1>1. ApplyType' /\ JobInv'
      BY DEF ApplyInv, ApplyType, JobInv
<1>2. RecordType' /\ ShadowInv' /\ LdroInv' /\ IdleInv' /\ RecordInv' /\ ServeInv' /\ AirInv'
      BY DEF ApplyInv, RecordType, ShadowInv, LdroInv, IdleInv, RecordInv, ServeInv, AirInv
<1>3. ReplayInv'
      BY DEF ApplyInv, ReplayInv
<1> QED BY <1>1, <1>2, <1>3 DEF ApplyInv

\* With the lock free, the verdict on a client's line is Admits of what has
\* been published: the shadow, not the chip, was asked.
LEMMA IdleJudged ==
  ASSUME ApplyInv, job.do = "none", health # "EXIT", line # <<>>
  PROVE  /\ line = <<line[1]>> /\ line[1] \in Lines /\ Parsed(line[1])
         /\ Verdict(line[1]) \in {"OK", "ERR UNKNOWN", "ERR MALFORMED", "ERR INVALID"}
         /\ Verdict(line[1]) = "OK" <=> Admits(p, pub.conf, line[1])
<1>1. PICK c \in Lines : line = <<c>>
      BY DEF ApplyInv, ApplyType
<1>2. line[1] = c /\ Parsed(c)
      BY <1>1, LinesParsed
<1>3. pub.conf = chip /\ IsConfig(chip) /\ chip.mode = mode /\ p \in Profiles /\ eff \in Shadow /\
        Shades(eff, chip)
      BY DEF ApplyInv, ApplyType, IdleInv, ShadowInv
<1> QED BY <1>1, <1>2, <1>3, Judged

\* An admissible command is ready to be applied.
LEMMA Begun ==
  ASSUME NEW q \in Profiles, NEW k, IsConfig(k), NEW c, Parsed(c), Admits(q, k, c)
  PROVE  LET j == Begin(c) IN
         /\ j = [do |-> j.do, c |-> c, i |-> 1] /\ j.c = c /\ j.i = 1
         /\ j.do = IF c.modes = <<>> THEN "getrssi" ELSE "mode"
         /\ Busy(j) /\ JobOk(q, Target(j, k.mode), j)
         /\ Target(j, k.mode) = CmdMode(k, c)
<1> DEFINE j == Begin(c)
<1>1. /\ j = [do |-> j.do, c |-> c, i |-> 1] /\ j.c = c /\ j.i = 1
      /\ j.do = IF c.modes = <<>> THEN "getrssi" ELSE "mode"
      BY DEF Begin
<1> HIDE DEF j
<1>2. c.modes # <<>> => c.modes = <<c.modes[1]>> /\ Len(c.modes) = 1
      BY DEF Parsed, Admits
<1>3. Target(j, k.mode) = CmdMode(k, c)
      BY <1>1, <1>2 DEF Target, CmdMode
<1>4. CmdMode(k, c) \in Modes /\ c.modes \in {<<>>, <<CmdMode(k, c)>>}
      BY <1>2 DEF Admits, CmdMode
<1>5. Fitting(q, CmdMode(k, c), c.tokens)
      BY DEF Fitting, Admits, Parsed
<1>6. Len(c.tokens) \in Nat
      BY <1>5 DEF Fitting
<1>7. 1 \in 1 .. Len(c.tokens) + 1
      BY <1>6
<1>8. Busy(j) /\ JobOk(q, Target(j, k.mode), j)
      BY <1>1, <1>3, <1>4, <1>5, <1>7 DEF Busy, JobOk
<1> QED BY <1>1, <1>3, <1>8 DEF j

\* Before its first token, a line without MODE has changed nothing.
LEMMA ResultNone ==
  ASSUME NEW q, NEW k, IsConfig(k), NEW c, c.modes = <<>>
  PROVE  Result(q, k, c, 0) = k
<1>1. Partial(k.mode, k.val, c.tokens, 0) = [mode |-> k.mode, val |-> k.val]
      BY PartialNone DEF IsConfig
<1> QED BY <1>1 DEF Result, CmdMode, Base, IsConfig

\* The readiness gate and the first pass keep it.
LEMMA JudgeInv ==
  ASSUME ApplyInv, Judge
  PROVE  ApplyInv'
<1>1. /\ UNCHANGED <<p, health, lost, mode, chip, ldro, eff, record, replaying, pub, torn>>
      /\ job.do = "none" /\ line # <<>> /\ health # "EXIT" /\ ~replaying
      BY DEF Judge, Applying, ApplyInv, JobInv
<1> DEFINE c == line[1]
<1>2. line = <<c>> /\ c \in Lines /\ Parsed(c) /\ (Verdict(c) = "OK" => Admits(p, pub.conf, c))
      BY <1>1, IdleJudged
<1>3. RecordType' /\ ShadowInv' /\ LdroInv' /\ RecordInv' /\ AirInv'
      BY <1>1 DEF ApplyInv, RecordType, ShadowInv, LdroInv, RecordInv, AirInv
<1>4. CASE health = "READY" /\ Verdict(c) = "OK" /\ job' = Begin(c) /\ UNCHANGED line
  <2>1. IsConfig(pub.conf) /\ pub.up /\ pub.conf = chip /\ chip.mode = mode /\ p \in Profiles
        BY <1>1, <1>4 DEF ApplyInv, ApplyType, IdleInv
  <2>2. Admits(p, pub.conf, c)
        BY <1>2, <1>4
  <2>3. /\ job' = [do |-> job'.do, c |-> c, i |-> 1] /\ job'.c = c /\ job'.i = 1
        /\ job'.do = IF c.modes = <<>> THEN "getrssi" ELSE "mode"
        /\ Busy(job') /\ JobOk(p, Target(job', mode), job')
        BY <1>2, <1>4, <2>1, <2>2, Begun
  <2> HIDE DEF c
  <2>4. ApplyType'
        BY <1>1, <1>4 DEF ApplyInv, ApplyType
  <2>5. JobInv'
        BY <1>1, <1>2, <1>4, <2>3 DEF JobInv
  <2>6. IdleInv' /\ ReplayInv'
        BY <1>1, <2>3 DEF IdleInv, ReplayInv
  <2>7. c.modes = <<>> => Result(p, pub.conf, c, 0) = pub.conf
        BY <2>1, ResultNone
  <2>8. job'.i - 1 = 0
        BY <2>3
  <2>9. ServeInv'
        BY <1>1, <2>1, <2>2, <2>3, <2>7, <2>8 DEF ServeInv
  <2> QED BY <1>3, <2>4, <2>5, <2>6, <2>9 DEF ApplyInv
<1>5. CASE line' = <<>> /\ UNCHANGED job
  <2>1. ApplyType'
        BY <1>1, <1>5 DEF ApplyInv, ApplyType
  <2>2. JobInv' /\ IdleInv' /\ ServeInv' /\ ReplayInv'
        BY <1>1, <1>5 DEF ApplyInv, JobInv, IdleInv, ServeInv, ReplayInv, Busy
  <2> QED BY <1>3, <2>1, <2>2 DEF ApplyInv
<1> QED BY <1>4, <1>5 DEF Judge

-----------------------------------------------------------------------------
(* The second pass.                                                         *)

\* The mode switch: new defaults, a reset shadow, a record started anew.
LEMMA SwitchModeInv ==
  ASSUME ApplyInv, SwitchMode
  PROVE  ApplyInv'
<1> DEFINE m == job.c.modes[1]
           c == job.c
<1>1. /\ UNCHANGED <<p, health, lost, replaying, line, reply, pub>>
      /\ job.do = "mode" /\ job' = [job EXCEPT !.do = "getrssi"]
      /\ eff' = EffDefaults /\ torn' = FALSE
      BY DEF SwitchMode, Doing
<1>2. /\ m \in Modes /\ c.modes = <<m>> /\ Fitting(p, m, c.tokens) /\ job.i = 1 /\ p \in Profiles
      /\ health # "EXIT" /\ Target(job, mode) = m
      /\ job = [do |-> job.do, c |-> job.c, i |-> job.i] /\ IsConfig(pub.conf)
  <2>1. Busy(job) /\ Target(job, mode) = m
        BY <1>1 DEF Busy, Target
  <2> QED BY <1>1, <2>1 DEF ApplyInv, ApplyType, JobInv, JobOk
<1>3. TargetMode(c) = m
      BY <1>2 DEF TargetMode
<1>4. mode' = m /\ chip' = Defaults(p, m) /\ record' = StartMode(m) /\
        (ldro' = IF m = "LORA" THEN BeginLdro(ldro) ELSE ldro)
      BY <1>3 DEF SwitchMode
<1>5. job' = [do |-> "getrssi", c |-> c, i |-> 1] /\ job'.do = "getrssi" /\ job'.c = c /\ job'.i = 1
      BY <1>1, <1>2
<1>6. c.modes # <<>> /\ Len(c.tokens) \in Nat
      BY <1>2 DEF Fitting
<1> HIDE DEF c, m
<1>7. IsConfig(chip') /\ chip'.mode = m
      BY <1>2, <1>4, DefaultsConfig
<1>8. ldro' \in Ldro /\ (m = "LORA" => LdroOk(ldro', chip'))
  <2>1. CASE m = "LORA"
        BY <1>2, <1>4, <2>1, LdroBegun
  <2>2. CASE m # "LORA"
        BY <1>4, <2>2 DEF ApplyInv, ApplyType
  <2> QED BY <2>1, <2>2
<1>9. ApplyType'
      BY <1>1, <1>2, <1>4, <1>7, <1>8 DEF ApplyInv, ApplyType
<1>10. ShadowInv'
      BY <1>1, <1>2, <1>4, DefaultsShades DEF ShadowInv
<1>11. /\ Stored(p, record') = chip' /\ RecordMode(record') = m /\ record' = [mode |-> m, keys |-> <<>>]
       /\ KeysOf(p, m, record'.keys)
  <2>1. /\ Stored(p, record') = Defaults(p, RecordMode(record')) /\ record' = [mode |-> m, keys |-> <<>>]
        /\ KeysOf(p, RecordMode(record'), record'.keys)
        BY <1>2, <1>4, StoredNone
  <2>2. RecordMode(record') = m
        BY <1>2, <2>1 DEF RecordMode, Modes
  <2> QED BY <1>4, <2>1, <2>2
<1>12. RecordType' /\ RecordInv'
      BY <1>1, <1>2, <1>11 DEF RecordType, IsRecord, RecordInv
<1>13. LdroInv'
      BY <1>4, <1>8 DEF LdroInv
<1>14. JobInv'
  <2>1. Target(job', mode') = m
        BY <1>4, <1>5 DEF Target
  <2>2. 1 \in 1 .. Len(c.tokens) + 1
        BY <1>6
  <2>3. JobOk(p, m, job')
        BY <1>2, <1>5, <2>2 DEF JobOk
  <2>4. ~replaying => line = <<c>>
        BY <1>1 DEF ApplyInv, JobInv, c
  <2> QED BY <1>1, <1>2, <1>5, <2>1, <2>3, <2>4 DEF JobInv
<1>15. IdleInv'
      BY <1>5 DEF IdleInv
<1>16. job'.i - 1 = 0
      BY <1>5
<1>17. ServeInv'
  <2> SUFFICES ASSUME ~replaying
               PROVE  pub.up /\ Admits(p, pub.conf, c) /\ chip' = Result(p, pub.conf, c, 0)
      BY <1>1, <1>5, <1>16 DEF ServeInv
  <2>1. pub.up /\ Admits(p, pub.conf, c)
        BY <1>1 DEF ApplyInv, ServeInv, c
  <2>2. CmdMode(pub.conf, c) = m
        BY <1>2, <1>6 DEF CmdMode
  <2>3. Result(p, pub.conf, c, 0) = Rebuilt(p, m, c.tokens, 0)
        BY <2>2, <1>6 DEF Result, Base, Rebuilt
  <2> QED BY <1>2, <1>4, <2>1, <2>3, RebuiltNone
<1>18. ReplayInv'
  <2> SUFFICES ASSUME replaying
               PROVE  /\ AirOk(p, pub.conf)
                      /\ pub.conf = Rebuilt(p, m, c.tokens, Len(c.tokens))
                      /\ KeysOf(p, m, c.tokens)
                      /\ chip' = Rebuilt(p, m, c.tokens, 0)
                      /\ record' = [mode |-> m, keys |-> SubSeq(c.tokens, 1, 0)]
    <3>1. Target(job', mode') = m
          BY <1>4, <1>5 DEF Target
    <3> QED BY <1>1, <1>4, <1>5, <1>6, <1>16, <3>1 DEF ReplayInv
  <2>1. /\ AirOk(p, pub.conf) /\ pub.conf = Rebuilt(p, m, c.tokens, Len(c.tokens))
        /\ KeysOf(p, m, c.tokens)
        BY <1>1, <1>2 DEF ApplyInv, ReplayInv, c
  <2>2. chip' = Rebuilt(p, m, c.tokens, 0)
        BY <1>2, <1>4, RebuiltNone
  <2>3. SubSeq(c.tokens, 1, 0) = <<>>
        BY <1>2 DEF Fitting
  <2> QED BY <1>11, <2>1, <2>2, <2>3
<1>19. AirInv'
      BY <1>1 DEF ApplyInv, AirInv, ServeInv, ReplayInv
<1> QED BY <1>9, <1>10, <1>12, <1>13, <1>14, <1>15, <1>17, <1>18, <1>19 DEF ApplyInv

\* GETRSSI touches none of it.
LEMMA SetGetrssiInv ==
  ASSUME ApplyInv, SetGetrssi
  PROVE  ApplyInv'
<1>1. /\ UNCHANGED <<p, health, lost, mode, chip, ldro, eff, record, replaying, line, pub, torn>>
      /\ job.do = "getrssi" /\ job' = [job EXCEPT !.do = "keys"]
      BY DEF SetGetrssi, Doing
<1>2. job' = [do |-> "keys", c |-> job.c, i |-> job.i] /\ job'.do = "keys" /\ job'.c = job.c /\
        job'.i = job.i
      BY <1>1 DEF ApplyInv, JobInv
<1>3. Target(job', mode') = mode /\ Target(job, mode) = mode
      BY <1>1, <1>2 DEF Target
<1>4. ApplyType' /\ RecordType' /\ ShadowInv' /\ LdroInv' /\ RecordInv' /\ AirInv'
      BY <1>1 DEF ApplyInv, ApplyType, RecordType, ShadowInv, LdroInv, RecordInv, AirInv
<1>5. JobOk(p, mode, job')
  <2>1. JobOk(p, mode, job)
        BY <1>1, <1>3 DEF ApplyInv, JobInv, Busy
  <2> QED BY <1>2, <2>1 DEF JobOk
<1>6. JobInv'
      BY <1>1, <1>2, <1>3, <1>5 DEF ApplyInv, JobInv
<1>7. IdleInv' /\ ServeInv'
      BY <1>1, <1>2 DEF ApplyInv, IdleInv, ServeInv
<1>8. ReplayInv'
      BY <1>1, <1>2, <1>3 DEF ApplyInv, ReplayInv
<1> QED BY <1>4, <1>6, <1>7, <1>8 DEF ApplyInv

\* The key an apply has come to.
LEMMA KeyFacts ==
  ASSUME ApplyInv, KeysLeft
  PROVE  /\ job.do = "keys" /\ job.i \in 1 .. Len(job.c.tokens) /\ mode \in Modes
         /\ Fitting(p, mode, job.c.tokens) /\ job.c.tokens \in Seq(Token) /\ Distinct(job.c.tokens)
         /\ job.c.modes \in {<<>>, <<mode>>} /\ Target(job, mode) = mode
         /\ IsToken(ThisKey) /\ Fits(p, mode, ThisKey)
         /\ ThisKey.key \in ModeKeys(mode) <=> ~Ignored(ThisKey.key)
         /\ ~Ignored(ThisKey.key) => Valid(p, mode, ThisKey.key, ThisKey.v)
         /\ ~replaying => Result(p, pub.conf, job.c, job.i - 1).mode = mode /\
              CmdMode(pub.conf, job.c) = mode
<1>1. job.do = "keys" /\ Target(job, mode) = mode /\ JobOk(p, mode, job)
      BY DEF KeysLeft, Doing, ApplyInv, JobInv, Target, Busy
<1>2. job.c.tokens \in Seq(Token) /\ Distinct(job.c.tokens) /\ Fitting(p, mode, job.c.tokens)
      BY <1>1 DEF JobOk, Fitting
<1>3. job.i \in 1 .. Len(job.c.tokens)
  <2>1. Len(job.c.tokens) \in Nat /\ job.i \in 1 .. Len(job.c.tokens) + 1 /\ job.i <= Len(job.c.tokens)
        BY <1>1, <1>2 DEF KeysLeft, JobOk
  <2> QED BY <2>1
<1>4. job.i \in DOMAIN job.c.tokens
      BY <1>2, <1>3
<1>5. IsToken(ThisKey) /\ Fits(p, mode, ThisKey)
      BY <1>2, <1>4 DEF Fitting, ThisKey
<1>6. mode \in Modes
      BY <1>1 DEF JobOk
<1>7. /\ ThisKey.key \in ModeKeys(mode) <=> ~Ignored(ThisKey.key)
      /\ ~Ignored(ThisKey.key) => Valid(p, mode, ThisKey.key, ThisKey.v)
      BY <1>5, <1>6, KeySets DEF Fits, Ignored
<1>8. ASSUME ~replaying
      PROVE  Result(p, pub.conf, job.c, job.i - 1).mode = mode /\ CmdMode(pub.conf, job.c) = mode
  <2>1. chip = Result(p, pub.conf, job.c, job.i - 1) /\ chip.mode = mode
        BY <1>1, <1>8 DEF ApplyInv, ServeInv, ApplyType
  <2>2. Result(p, pub.conf, job.c, job.i - 1).mode = CmdMode(pub.conf, job.c)
        BY PartialShape DEF Result
  <2> QED BY <2>1, <2>2
<1> QED BY <1>1, <1>2, <1>3, <1>5, <1>6, <1>7, <1>8 DEF JobOk

\* A token passed over leaves chip, shadow and record in step.
LEMMA IgnoreKeyInv ==
  ASSUME ApplyInv, IgnoreKey
  PROVE  ApplyInv'
<1> DEFINE i == job.i
           c == job.c
<1>1. /\ UNCHANGED <<p, health, lost, mode, chip, ldro, eff, record, replaying, line, pub, torn>>
      /\ KeysLeft /\ Ignored(ThisKey.key) /\ job' = [job EXCEPT !.i = @ + 1]
      BY DEF IgnoreKey
<1>2. /\ job.do = "keys" /\ i \in 1 .. Len(c.tokens) /\ Target(job, mode) = mode
      /\ c.tokens[i].key \notin ModeKeys(mode) /\ JobOk(p, mode, job) /\ c.tokens \in Seq(Token)
  <2>1. JobOk(p, mode, job)
        BY <1>1, KeyFacts DEF ApplyInv, JobInv, Busy
  <2> QED BY <1>1, <2>1, KeyFacts DEF ThisKey
<1>3. job' = [do |-> "keys", c |-> c, i |-> i + 1] /\ job'.do = "keys" /\ job'.c = c /\ job'.i = i + 1
      BY <1>1, <1>2 DEF ApplyInv, JobInv
<1>4. Target(job', mode') = mode
      BY <1>1, <1>3 DEF Target
<1>5. ApplyType' /\ RecordType' /\ ShadowInv' /\ LdroInv' /\ RecordInv' /\ AirInv'
      BY <1>1 DEF ApplyInv, ApplyType, RecordType, ShadowInv, LdroInv, RecordInv, AirInv
<1>6. i + 1 \in 1 .. Len(c.tokens) + 1 /\ (i + 1) - 1 = i /\ i \in Nat \ {0}
      BY <1>2
<1>7. JobOk(p, mode, job')
      BY <1>2, <1>3, <1>6 DEF JobOk
<1>8. JobInv'
      BY <1>1, <1>2, <1>3, <1>4, <1>7 DEF ApplyInv, JobInv
<1>9. IdleInv'
      BY <1>3 DEF IdleInv
<1>10. ServeInv'
  <2>1. ~replaying => Result(p, pub.conf, c, i) = Result(p, pub.conf, c, i - 1)
        BY <1>1, <1>2, <1>6, KeyFacts, PartialIgnored DEF Result
  <2> QED BY <1>1, <1>2, <1>3, <1>6, <2>1 DEF ApplyInv, ServeInv
<1>11. ~replaying
  <2>1. replaying => KeysOf(p, mode, c.tokens)
        BY <1>2 DEF ApplyInv, ReplayInv
  <2>2. i \in DOMAIN c.tokens
        BY <1>2
  <2> QED BY <1>2, <2>1, <2>2 DEF KeysOf
<1>12. ReplayInv'
      BY <1>1, <1>3, <1>11 DEF ReplayInv
<1> QED BY <1>5, <1>8, <1>9, <1>10, <1>12 DEF ApplyInv

\* One setter: chip, LDRO, shadow and record move together.
LEMMA SetKeyInv ==
  ASSUME ApplyInv, SetKey
  PROVE  ApplyInv'
<1> DEFINE i == job.i
           c == job.c
           t == ThisKey
           x == Setting(t.key, t.v)
<1>1. /\ UNCHANGED <<p, health, lost, mode, replaying, line, pub, torn>>
      /\ KeysLeft /\ ~Ignored(t.key) /\ job' = [job EXCEPT !.i = @ + 1]
      /\ chip' = SetChip(t) /\ ldro' = SetLdro(t, chip') /\ eff' = Merge(eff, mode, t)
      /\ record' = Note(record, t)
      BY DEF SetKey
<1>2. /\ job.do = "keys" /\ i \in 1 .. Len(c.tokens) /\ Target(job, mode) = mode /\ mode \in Modes
      /\ t = c.tokens[i] /\ t.key \in ModeKeys(mode) /\ Valid(p, mode, t.key, t.v) /\ IsToken(t)
      /\ Fits(p, mode, t) /\ c.tokens \in Seq(Token) /\ Distinct(c.tokens) /\ JobOk(p, mode, job)
  <2>1. JobOk(p, mode, job)
        BY <1>1, KeyFacts DEF ApplyInv, JobInv, Busy
  <2> QED BY <1>1, <2>1, KeyFacts DEF ThisKey
<1>3. job' = [do |-> "keys", c |-> c, i |-> i + 1] /\ job'.do = "keys" /\ job'.c = c /\ job'.i = i + 1
      BY <1>1, <1>2 DEF ApplyInv, JobInv
<1>4. Target(job', mode') = mode
      BY <1>1, <1>3 DEF Target
<1>5. i + 1 \in 1 .. Len(c.tokens) + 1 /\ (i + 1) - 1 = i /\ i \in Nat \ {0}
      BY <1>2
<1>6. p \in Profiles /\ IsConfig(chip) /\ chip.mode = mode /\ eff \in Shadow /\
        Shades(eff, chip) /\ ldro \in Ldro
      BY DEF ApplyInv, ApplyType, ShadowInv
<1>7. t.v \in Value
      BY <1>2 DEF IsToken, Token
<1>8. chip' = With(chip, t.key, x)
      BY <1>1, <1>2, <1>6, <1>7, TakesValid DEF SetChip, With
<1> HIDE DEF t
<1>9. IsConfig(chip') /\ chip'.mode = mode
  <2>1. x \in Int
        BY <1>7, SettingInt
  <2> HIDE DEF x
  <2> QED BY <1>2, <1>6, <1>8, <2>1 DEF IsConfig, With
<1>10. ShadowInv'
      BY <1>1, <1>2, <1>6, <1>8, MergeShades DEF ShadowInv
<1>11. ldro' \in Ldro /\ (mode = "LORA" /\ LdroOk(ldro, chip) => LdroOk(ldro', chip'))
      BY <1>1, <1>2, <1>6, <1>8, LdroSet
<1>12. ApplyType'
      BY <1>1, <1>9, <1>11 DEF ApplyInv, ApplyType
<1>13. LdroInv'
      BY <1>1, <1>11 DEF ApplyInv, LdroInv
<1>14. JobInv'
  <2>1. JobOk(p, mode, job')
        BY <1>2, <1>3, <1>5 DEF JobOk
  <2> QED BY <1>1, <1>2, <1>3, <1>4, <2>1 DEF ApplyInv, JobInv
<1>15. IdleInv' /\ AirInv'
      BY <1>1, <1>3 DEF ApplyInv, IdleInv, AirInv
<1>16. RecordMode(record) = mode
  <2>1. CASE ~replaying
    <3>1. Stored(p, record) = chip
          BY <1>1, <1>2, <2>1 DEF ApplyInv, RecordInv, JobInv
    <3>2. Stored(p, record).mode = RecordMode(record)
          BY PartialShape DEF Stored
    <3> QED BY <1>6, <3>1, <3>2
  <2>2. CASE replaying
    <3>1. \/ mode = "LORA" /\ record.mode = "none"
          \/ record.mode = mode
          BY <1>2, <2>2 DEF ApplyInv, ReplayInv
    <3> QED BY <1>2, <3>1 DEF RecordMode, Modes
  <2> QED BY <2>1, <2>2
<1>17. /\ IsRecord(record') /\ record'.mode = record.mode /\ KeysOf(p, mode, record'.keys)
       /\ Stored(p, record') = With(Stored(p, record), t.key, x) /\ RecordMode(record') = mode
  <2> DEFINE base == Defaults(p, mode).val
  <2>1. IsRecord(record) /\ KeysOf(p, mode, record.keys)
        BY <1>16 DEF ApplyInv, RecordType
  <2> HIDE DEF base
  <2>2. /\ IsRecord(record') /\ record'.mode = record.mode /\ KeysOf(p, mode, record'.keys)
        /\ Partial(mode, base, record'.keys, Len(record'.keys)) =
             With(Partial(mode, base, record.keys, Len(record.keys)), t.key, x)
    <3>1. Noted(p, mode, base, record, t, record')
          BY <1>1, <1>2, <2>1, NoteKeeps
    <3> QED BY <3>1 DEF Noted
  <2>3. RecordMode(record') = mode
        BY <1>16, <2>2 DEF RecordMode
  <2> QED BY <1>16, <2>2, <2>3 DEF Stored, base
<1>18. RecordType'
      BY <1>1, <1>17 DEF ApplyInv, RecordType
<1>19. RecordInv'
      BY <1>1, <1>8, <1>17 DEF ApplyInv, RecordInv
<1>20. ServeInv'
  <2>1. ~replaying => Result(p, pub.conf, c, i) = With(Result(p, pub.conf, c, i - 1), t.key, x)
    <3> SUFFICES ASSUME ~replaying
                 PROVE  Result(p, pub.conf, c, i) = With(Result(p, pub.conf, c, i - 1), t.key, x)
        OBVIOUS
    <3>1. CmdMode(pub.conf, c) = mode
          BY <1>1, KeyFacts
    <3> QED BY <1>2, <3>1, PartialSet DEF Result
  <2> QED BY <1>1, <1>2, <1>3, <1>5, <1>8, <2>1 DEF ApplyInv, ServeInv
<1>21. ReplayInv'
  <2> SUFFICES ASSUME replaying
               PROVE  /\ AirOk(p, pub.conf)
                      /\ pub.conf = Rebuilt(p, mode, c.tokens, Len(c.tokens))
                      /\ KeysOf(p, mode, c.tokens)
                      /\ chip' = Rebuilt(p, mode, c.tokens, i)
                      /\ c.modes = <<>> => mode = "LORA" /\ record' = [mode |-> "none", keys |-> c.tokens]
                      /\ c.modes # <<>> => record' = [mode |-> mode, keys |-> SubSeq(c.tokens, 1, i)]
      BY <1>1, <1>3, <1>4, <1>5 DEF ReplayInv
  <2>1. /\ AirOk(p, pub.conf)
        /\ pub.conf = Rebuilt(p, mode, c.tokens, Len(c.tokens))
        /\ KeysOf(p, mode, c.tokens)
        /\ chip = Rebuilt(p, mode, c.tokens, i - 1)
        /\ c.modes = <<>> => mode = "LORA" /\ record = [mode |-> "none", keys |-> c.tokens]
        /\ c.modes # <<>> => record = [mode |-> mode, keys |-> SubSeq(c.tokens, 1, i - 1)]
        BY <1>2 DEF ApplyInv, ReplayInv
  <2>2. chip' = Rebuilt(p, mode, c.tokens, i)
        BY <1>2, <1>8, <2>1, PartialSet DEF Rebuilt
  <2>3. c.modes = <<>> => record' = [mode |-> "none", keys |-> c.tokens]
        BY <1>1, <1>2, <2>1, NoteSame
  <2>4. c.modes # <<>> => record' = [mode |-> mode, keys |-> SubSeq(c.tokens, 1, i)]
        BY <1>1, <1>2, <2>1, NoteNext
  <2> QED BY <2>1, <2>2, <2>3, <2>4
<1> QED BY <1>10, <1>12, <1>13, <1>14, <1>15, <1>18, <1>19, <1>20, <1>21 DEF ApplyInv

-----------------------------------------------------------------------------
(* The ends of an apply, losses and restarts.                               *)

\* An apply that ends: what is published, and that nothing is under way.
LEMMA EndInv ==
  ASSUME ApplyInv, UNCHANGED <<p, lost, mode, chip, eff, record>>,
         job' = NoJob, replaying' = FALSE, Publish, ldro' \in Ldro, torn' \in BOOLEAN,
         health' \in {"READY", "FAILED", "UNPLUGGED", "EXIT"},
         line' = <<>> \/ line' = line,
         IsConfig(pub'.conf), LdroInv', AirInv',
         health' # "EXIT" => Stored(p, record) = chip
  PROVE  ApplyInv'
<1>1. RecordType' /\ ShadowInv'
      BY DEF ApplyInv, RecordType, ShadowInv
<1>2. /\ pub' = [conf |-> pub'.conf, up |-> pub'.up]
      /\ pub'.up \in BOOLEAN /\ (pub'.up <=> health' = "READY")
      /\ health' # "EXIT" => pub'.conf = chip'
      BY <1>1, Published
<1>3. ApplyType'
      BY <1>2 DEF ApplyInv, ApplyType
<1>4. job'.do = "none" /\ job' = [do |-> job'.do, c |-> job'.c, i |-> job'.i]
      BY DEF NoJob
<1>5. JobInv'
      BY <1>4 DEF JobInv, Busy
<1>6. IdleInv' /\ RecordInv' /\ ServeInv' /\ ReplayInv'
      BY <1>2, <1>4 DEF IdleInv, RecordInv, ServeInv, ReplayInv
<1> QED BY <1>1, <1>3, <1>5, <1>6 DEF ApplyInv

\* The last key is done: the chip holds the whole command.
LEMMA Done ==
  ASSUME ApplyInv, job.do = "keys", ~KeysLeft
  PROVE  /\ job.i - 1 = Len(job.c.tokens) /\ health # "EXIT" /\ Stored(p, record) = chip
         /\ ~replaying => /\ chip = Result(p, pub.conf, job.c, Len(job.c.tokens)) /\ line = <<job.c>>
                          /\ pub.up /\ Admits(p, pub.conf, job.c) /\ AirOk(p, chip)
         /\ replaying => chip = pub.conf /\ AirOk(p, chip)
<1>1. JobOk(p, mode, job) /\ Target(job, mode) = mode /\ health # "EXIT"
      BY DEF ApplyInv, JobInv, Busy, Target
<1>2. Len(job.c.tokens) \in Nat /\ job.c.tokens \in Seq(Token) /\ mode \in Modes
      BY <1>1 DEF JobOk, Fitting
<1>3. job.i - 1 = Len(job.c.tokens)
  <2>1. job.i \in 1 .. Len(job.c.tokens) + 1 /\ ~(job.i <= Len(job.c.tokens))
        BY <1>1 DEF JobOk, KeysLeft, Doing
  <2> QED BY <1>2, <2>1
<1>4. CASE ~replaying
  <2>1. /\ chip = Result(p, pub.conf, job.c, Len(job.c.tokens)) /\ pub.up /\ Admits(p, pub.conf, job.c)
        /\ line = <<job.c>> /\ Stored(p, record) = chip
        BY <1>1, <1>3, <1>4 DEF ApplyInv, ServeInv, JobInv, RecordInv
  <2>2. AirOk(p, Result(p, pub.conf, job.c, Len(job.c.tokens)))
        BY <2>1 DEF Admits
  <2> QED BY <1>1, <1>3, <1>4, <2>1, <2>2
<1>5. CASE replaying
  <2>1. /\ AirOk(p, pub.conf)
        /\ pub.conf = Rebuilt(p, mode, job.c.tokens, Len(job.c.tokens))
        /\ chip = Rebuilt(p, mode, job.c.tokens, job.i - 1)
        /\ job.c.modes = <<>> => mode = "LORA" /\ record = [mode |-> "none", keys |-> job.c.tokens]
        /\ job.c.modes # <<>> => record = [mode |-> mode, keys |-> SubSeq(job.c.tokens, 1, job.i - 1)]
        BY <1>1, <1>5 DEF ApplyInv, ReplayInv
  <2>2. chip = pub.conf
        BY <1>3, <2>1
  <2>3. SubSeq(job.c.tokens, 1, Len(job.c.tokens)) = job.c.tokens
        BY <1>2
  <2>4. record.keys = job.c.tokens /\ RecordMode(record) = mode
    <3>1. CASE job.c.modes = <<>>
          BY <2>1, <3>1 DEF RecordMode
    <3>2. CASE job.c.modes # <<>>
      <4>1. record = [mode |-> mode, keys |-> job.c.tokens]
            BY <1>3, <2>1, <2>3, <3>2
      <4> QED BY <1>2, <4>1 DEF RecordMode, Modes
    <3> QED BY <3>1, <3>2
  <2>5. Stored(p, record) = chip
        BY <1>3, <2>1, <2>4, StoredRebuilt
  <2> QED BY <1>1, <1>3, <1>5, <2>1, <2>2, <2>5
<1> QED BY <1>4, <1>5

\* The end of an apply, a client's or the re-init's.
LEMMA FinishInv ==
  ASSUME ApplyInv, Finish
  PROVE  ApplyInv'
<1>1. /\ UNCHANGED <<p, health, lost, mode, chip, ldro, eff, record, torn>>
      /\ job.do = "keys" /\ ~KeysLeft /\ job' = NoJob /\ replaying' = FALSE /\ Publish
      /\ line' = <<>> \/ line' = line
      BY DEF Finish, Doing, Answer
<1>2. health # "EXIT" /\ Stored(p, record) = chip /\ AirOk(p, chip)
      BY <1>1, Done
<1>3. RecordType'
      BY <1>1 DEF ApplyInv, RecordType
<1>4. ldro' \in Ldro /\ torn' \in BOOLEAN /\
        health' \in {"READY", "FAILED", "UNPLUGGED", "EXIT"} /\ IsConfig(chip)
      BY <1>1 DEF ApplyInv, ApplyType
<1>5. pub'.conf = chip
      BY <1>1, <1>2, <1>3, <1>4, Published
<1>6. LdroInv' /\ AirInv'
      BY <1>1, <1>2, <1>5 DEF ApplyInv, LdroInv, AirInv
<1> QED BY <1>1, <1>2, <1>4, <1>5, <1>6, EndInv

\* A failing setter, a client's or the replay's: the radio is out of use or the
\* process ends; the chip and the record still agree.
LEMMA HardwareErrorInv ==
  ASSUME ApplyInv, HardwareError
  PROVE  ApplyInv'
<1>1. /\ UNCHANGED <<p, lost, mode, chip, eff, record>>
      /\ job.do # "none" /\ job' = NoJob /\ replaying' = FALSE /\ Publish
      /\ line' = <<>> \/ line' = line
      /\ health' = IF replaying THEN "EXIT" ELSE "FAILED"
      /\ torn' = (torn \/ Recorded(record) # pub.conf)
      BY DEF HardwareError, Doing, Answer, KeysLeft
<1>2. PICK bit \in BOOLEAN : ldro' = [ldro EXCEPT !.bit = bit]
      BY DEF HardwareError
<1>3. ldro' \in Ldro
      BY <1>2 DEF ApplyInv, ApplyType, Ldro
<1>4. RecordType'
      BY <1>1 DEF ApplyInv, RecordType
<1>5. Recorded(record) = Stored(p, record)
  <2>1. record.keys \in Seq(Token)
        BY DEF ApplyInv, RecordType, KeysOf, Fitting
  <2> QED BY <2>1, SameStored
<1>6. health' # "EXIT" => Stored(p, record) = chip
      BY <1>1 DEF ApplyInv, RecordInv, JobInv
<1>7. torn' \in BOOLEAN /\ health' \in {"READY", "FAILED", "UNPLUGGED", "EXIT"}
      BY <1>1 DEF ApplyInv, ApplyType
<1>8. /\ health' = "EXIT" => pub'.conf = pub.conf
      /\ health' # "EXIT" => pub'.conf = Stored(p, record) /\ pub'.conf = chip
      /\ ~pub'.up
      BY <1>1, <1>4, <1>6, <1>7, Published
<1>9. IsConfig(pub'.conf)
      BY <1>8 DEF ApplyInv, ApplyType
<1>10. LdroInv'
      BY <1>1 DEF LdroInv
<1>11. AirInv'
  <2> SUFFICES ASSUME ~torn' PROVE AirOk(p, pub'.conf)
      BY <1>1, <1>8 DEF AirInv
  <2>1. ~torn /\ Stored(p, record) = pub.conf
        BY <1>1, <1>5 DEF ApplyInv, ApplyType
  <2>2. pub'.conf = pub.conf
        BY <1>8, <2>1
  <2> QED BY <2>1, <2>2 DEF ApplyInv, AirInv
<1> QED BY <1>1, <1>3, <1>6, <1>7, <1>9, <1>10, <1>11, EndInv

\* A stick lost in an apply or outside one.
LEMMA LoseInv ==
  ASSUME ApplyInv, Lose
  PROVE  ApplyInv'
<1>1. /\ UNCHANGED <<p, mode, chip, ldro, eff, record, job, replaying, line, torn>>
      /\ health # "EXIT" /\ lost' = TRUE /\ health' = "UNPLUGGED"
      /\ IF job.do # "none" THEN UNCHANGED pub ELSE Publish
      BY DEF Lose, Applying
<1>2. RecordType' /\ ShadowInv' /\ LdroInv' /\ RecordInv'
      BY <1>1 DEF ApplyInv, RecordType, ShadowInv, LdroInv, RecordInv
<1>3. job.do = "none" =>
         pub'.conf = pub.conf /\ pub'.conf = chip /\ pub' = [conf |-> pub'.conf, up |-> pub'.up] /\
           pub'.up = FALSE
  <2> SUFFICES ASSUME job.do = "none"
               PROVE  pub'.conf = pub.conf /\ pub'.conf = chip /\
                        pub' = [conf |-> pub'.conf, up |-> pub'.up] /\ pub'.up = FALSE
      OBVIOUS
  <2>1. Stored(p, record) = chip /\ pub.conf = chip
        BY <1>1 DEF ApplyInv, RecordInv, IdleInv, JobInv
  <2> QED BY <1>1, <1>2, <2>1, Published
<1>4. ApplyType'
  <2>1. CASE job.do = "none"
        BY <1>1, <1>3, <2>1 DEF ApplyInv, ApplyType
  <2>2. CASE job.do # "none"
        BY <1>1, <2>2 DEF ApplyInv, ApplyType
  <2> QED BY <2>1, <2>2
<1>5. JobInv'
      BY <1>1 DEF ApplyInv, JobInv
<1>6. IdleInv'
      BY <1>1, <1>3 DEF IdleInv
<1>7. ServeInv'
      BY <1>1 DEF ApplyInv, ServeInv
<1>8. ReplayInv'
      BY <1>1 DEF ApplyInv, ReplayInv, JobInv
<1>9. AirInv'
      BY <1>1, <1>3 DEF ApplyInv, AirInv
<1> QED BY <1>2, <1>4, <1>5, <1>6, <1>7, <1>8, <1>9 DEF ApplyInv

\* The re-init: boot defaults on the new stick, the record still the old one's.
LEMMA ReinitInv ==
  ASSUME ApplyInv, Reinit
  PROVE  ApplyInv'
<1>1. /\ UNCHANGED <<p, record, line, pub, torn>> /\ job.do = "none" /\ line = <<>> /\ health # "EXIT"
      /\ lost' = FALSE /\ health' = "READY" /\ mode' = "LORA" /\ chip' = Defaults(p, "LORA")
      /\ ldro' = BeginLdro(ldro) /\ eff' = EffDefaults /\ replaying' = TRUE
      /\ job' = [NoJob EXCEPT !.do = IF record = StartMode("none") THEN "keys" ELSE "replay"]
      BY DEF Reinit, Applying
<1>2. p \in Profiles /\ "LORA" \in Modes /\ pub.conf = chip /\ Stored(p, record) = chip /\ ~replaying
      BY <1>1 DEF ApplyInv, ApplyType, IdleInv, RecordInv, JobInv, Modes
<1>3. IsConfig(chip') /\ chip'.mode = "LORA" /\ ldro' \in Ldro /\ LdroOk(ldro', chip')
      BY <1>1, <1>2, DefaultsConfig, LdroBegun
<1>4. ApplyType'
      BY <1>1, <1>2, <1>3 DEF ApplyInv, ApplyType
<1>5. ShadowInv'
      BY <1>1, <1>2, DefaultsShades DEF ShadowInv
<1>6. RecordType' /\ AirInv' /\ LdroInv' /\ RecordInv' /\ ServeInv'
      BY <1>1, <1>3 DEF ApplyInv, RecordType, AirInv, LdroInv, RecordInv, ServeInv
<1>7. /\ job' = [do |-> job'.do, c |-> Nothing, i |-> 1] /\ job'.c = Nothing /\ job'.i = 1
      /\ job'.do = IF record = StartMode("none") THEN "keys" ELSE "replay"
      BY <1>1 DEF NoJob
<1>8. Nothing.modes = <<>> /\ Nothing.tokens = <<>>
      BY DEF Nothing
<1>9. Target(job', mode') = "LORA"
      BY <1>1, <1>7 DEF Target
<1>10. JobOk(p, "LORA", job') \/ ~Busy(job')
  <2>1. 1 \in 1 .. 0 + 1
        OBVIOUS
  <2> QED BY <1>2, <1>7, <1>8, <2>1, EmptyFits DEF JobOk, Busy
<1>11. JobInv'
      BY <1>1, <1>7, <1>9, <1>10 DEF JobInv
<1>12. IdleInv'
      BY <1>7 DEF IdleInv
<1>13. job'.i - 1 = 0
      BY <1>7
<1>14. CASE record # StartMode("none")
  <2>1. ReplayInv'
        BY <1>1, <1>2, <1>7, <1>14 DEF ReplayInv
  <2> QED BY <1>4, <1>5, <1>6, <1>11, <1>12, <2>1 DEF ApplyInv
<1>15. CASE record = StartMode("none")
  <2>1. record = [mode |-> "none", keys |-> <<>>] /\ RecordMode(record) = "LORA" /\
          Stored(p, record) = Defaults(p, "LORA")
    <3>1. /\ Stored(p, record) = Defaults(p, RecordMode(record))
          /\ record = [mode |-> "none", keys |-> <<>>]
          BY <1>2, <1>15, StoredNone
    <3> QED BY <3>1 DEF RecordMode
  <2>2. Rebuilt(p, "LORA", <<>>, 0) = Defaults(p, "LORA") /\ Len(<<>>) = 0 /\ KeysOf(p, "LORA", <<>>)
        BY <1>2, RebuiltNone, EmptyFits
  <2>3. pub.conf = Defaults(p, "LORA") /\ AirOk(p, pub.conf)
        BY <1>2, <2>1, DefaultAir
  <2>4. ReplayInv'
        BY <1>1, <1>7, <1>8, <1>9, <1>13, <1>15, <2>1, <2>2, <2>3 DEF ReplayInv
  <2> QED BY <1>4, <1>5, <1>6, <1>11, <1>12, <2>4 DEF ApplyInv
<1> QED BY <1>14, <1>15

\* What the replay's line stands for, seen from the boot defaults.
LEMMA ReplayJudged ==
  ASSUME ApplyInv, job.do = "replay"
  PROVE  LET c == ReplayCommand IN
         /\ c.tokens = record.keys /\ c.modes = (IF record.mode = "none" THEN <<>> ELSE <<record.mode>>)
         /\ Parsed(c) /\ CmdMode(chip, c) = RecordMode(record) /\ RecordMode(record) \in Modes
         /\ Result(p, chip, c, Len(c.tokens)) = pub.conf
         /\ Verdict(c) = "OK" <=> Admits(p, chip, c)
         /\ Verdict(c) = "OK" <=> AirOk(p, pub.conf)
<1> DEFINE c == ReplayCommand
           m == RecordMode(record)
<1>1. /\ c.set = TRUE /\ c.params = TRUE /\ c.malformed = FALSE /\ c.tokens = record.keys
      /\ c.modes = (IF record.mode = "none" THEN <<>> ELSE <<record.mode>>)
      BY DEF ReplayCommand
<1> HIDE DEF c
<1>2. /\ record.mode \in {"none"} \cup Modes /\ Fitting(p, m, record.keys) /\ KeysOf(p, m, record.keys)
      /\ chip = Defaults(p, "LORA") /\ pub.conf = Stored(p, record) /\ p \in Profiles
      /\ IsConfig(chip) /\ chip.mode = mode
      BY DEF ApplyInv, ApplyType, RecordType, ReplayInv, KeysOf
<1>3. chip.mode = "LORA"
      BY <1>2, DefaultsShape
<1>4. m \in Modes
      BY <1>2 DEF RecordMode, Modes
<1>5. CmdMode(chip, c) = m /\ Len(c.modes) <= 1
      BY <1>1, <1>3 DEF CmdMode, RecordMode
<1>6. Parsed(c)
  <2>1. Len(c.modes) \in Nat
    <3>1. Len(<<>>) = 0 /\ Len(<<record.mode>>) = 1
          OBVIOUS
    <3> QED BY <1>1, <3>1
  <2>2. c.modes # <<>> => Len(c.modes) = 1 /\ c.modes = <<c.modes[1]>>
        BY <1>1
  <2> QED BY <1>1, <1>2, <2>1, <2>2 DEF Parsed, Fitting
<1>7. Base(p, chip, c) = Defaults(p, m).val
      BY <1>1, <1>2, <1>5 DEF Base, RecordMode
<1>8. Result(p, chip, c, Len(c.tokens)) = pub.conf
      BY <1>1, <1>2, <1>5, <1>7 DEF Result, Stored
<1>9. Verdict(c) = "OK" <=> Admits(p, chip, c)
  <2>1. eff \in Shadow /\ Shades(eff, chip)
        BY DEF ApplyInv, ShadowInv
  <2> QED BY <1>2, <1>6, <2>1, Judged
<1>10. Admits(p, chip, c) <=> AirOk(p, pub.conf)
      BY <1>1, <1>2, <1>4, <1>5, <1>8 DEF Admits, Fitting
<1> QED BY <1>1, <1>4, <1>5, <1>6, <1>8, <1>9, <1>10 DEF c

\* The replay of the record through the first pass, accepted or refused.
LEMMA ReplayStepInv ==
  ASSUME ApplyInv, Replay
  PROVE  ApplyInv'
<1> DEFINE c == ReplayCommand
           m == RecordMode(record)
<1>1. /\ UNCHANGED <<p, lost, mode, chip, ldro, eff, record, line, torn>> /\ job.do = "replay"
      /\ replaying
      /\ IF Verdict(c) = "OK" THEN job' = Begin(c) /\ UNCHANGED <<health, replaying, pub>>
         ELSE job' = NoJob /\ health' = "EXIT" /\ replaying' = FALSE /\ Publish
      BY DEF Replay, Doing, ApplyInv, JobInv
<1>2. /\ c.tokens = record.keys /\ c.modes = (IF record.mode = "none" THEN <<>> ELSE <<record.mode>>)
      /\ Parsed(c) /\ CmdMode(chip, c) = m /\ m \in Modes
      /\ Verdict(c) = "OK" => Admits(p, chip, c) /\ AirOk(p, pub.conf)
      BY <1>1, ReplayJudged
<1> HIDE DEF c
<1>3. RecordType' /\ ShadowInv'
      BY <1>1 DEF ApplyInv, RecordType, ShadowInv
<1>4. CASE Verdict(c) = "OK"
  <2>1. job' = Begin(c) /\ UNCHANGED <<health, replaying, pub>>
        BY <1>1, <1>4
  <2>2. IsConfig(chip) /\ chip.mode = mode /\ p \in Profiles
        BY DEF ApplyInv, ApplyType
  <2>3. /\ job' = [do |-> job'.do, c |-> c, i |-> 1] /\ job'.c = c /\ job'.i = 1
        /\ job'.do = IF c.modes = <<>> THEN "getrssi" ELSE "mode"
        /\ Busy(job') /\ JobOk(p, Target(job', mode), job') /\ Target(job', mode) = m
        BY <1>2, <1>4, <2>1, <2>2, Begun
  <2>4. ApplyType' /\ LdroInv' /\ RecordInv' /\ ServeInv' /\ AirInv'
        BY <1>1, <2>1 DEF ApplyInv, ApplyType, LdroInv, RecordInv, ServeInv, AirInv
  <2>5. JobInv'
    <3>1. health # "EXIT"
          BY <1>1 DEF ApplyInv, JobInv
    <3> QED BY <1>1, <2>1, <2>3, <3>1 DEF JobInv
  <2>6. IdleInv'
        BY <2>3 DEF IdleInv
  <2>7. job'.i - 1 = 0
        BY <2>3
  <2>8. /\ chip = Defaults(p, "LORA") /\ pub.conf = Stored(p, record) /\ KeysOf(p, m, record.keys)
        /\ IsRecord(record)
        BY <1>1 DEF ApplyInv, ReplayInv, RecordType
  <2>9. pub.conf = Rebuilt(p, m, c.tokens, Len(c.tokens))
        BY <1>2, <2>8, StoredRebuilt
  <2>10. c.modes = <<>> => record.mode = "none" /\ mode = "LORA" /\
           record = [mode |-> "none", keys |-> c.tokens]
    <3>1. c.modes = <<>> => record.mode = "none"
      <4>1. c.modes = (IF record.mode = "none" THEN <<>> ELSE <<record.mode>>)
            BY <1>2
      <4> QED BY <4>1
    <3>2. chip.mode = "LORA"
          BY <2>8, DefaultsShape
    <3> QED BY <1>2, <2>2, <2>8, <3>1, <3>2 DEF IsRecord
  <2>11. c.modes = <<>> => chip = Rebuilt(p, mode, c.tokens, 0)
        BY <2>2, <2>8, <2>10, RebuiltNone DEF Modes
  <2>12. c.modes # <<>> => job'.do = "mode"
        BY <2>3
  <2>13. ReplayInv'
        BY <1>1, <1>2, <1>4, <2>1, <2>3, <2>7, <2>8, <2>9, <2>10, <2>11, <2>12 DEF ReplayInv, Busy
  <2> QED BY <1>3, <2>4, <2>5, <2>6, <2>13 DEF ApplyInv
<1>5. CASE Verdict(c) # "OK"
  <2>1. job' = NoJob /\ health' = "EXIT" /\ replaying' = FALSE /\ Publish
        BY <1>1, <1>5
  <2>2. ldro' \in Ldro /\ torn' \in BOOLEAN /\ IsConfig(pub.conf)
        BY <1>1 DEF ApplyInv, ApplyType
  <2>3. pub'.conf = pub.conf /\ ~pub'.up
        BY <1>1, <1>3, <2>1, Published
  <2>4. LdroInv' /\ AirInv'
        BY <1>1, <2>1, <2>3 DEF ApplyInv, LdroInv, AirInv
  <2> QED BY <1>1, <2>1, <2>2, <2>3, <2>4, EndInv
<1> QED BY <1>4, <1>5

\* The process ends at any point; a new one starts from the boot defaults.
LEMMA RestartInv ==
  ASSUME ApplyInv, Restart
  PROVE  ApplyInv'
<1>1. /\ p' = p /\ health' = "READY" /\ lost' = FALSE /\ mode' = "LORA" /\ chip' = Defaults(p, "LORA")
      /\ ldro' = BeginLdro(ldro) /\ eff' = EffDefaults /\ record' = StartMode("none")
      /\ job' = NoJob /\ replaying' = FALSE /\ line' = <<>> /\ torn' = FALSE /\ Publish
      BY DEF Restart
<1>2. p \in Profiles /\ "LORA" \in Modes
      BY DEF ApplyInv, ApplyType, Modes
<1>3. IsConfig(chip') /\ chip'.mode = "LORA" /\ ldro' \in Ldro /\ LdroOk(ldro', chip')
      BY <1>1, <1>2, DefaultsConfig, LdroBegun
<1>4. RecordMode(record') = "LORA"
      BY <1>1 DEF RecordMode, StartMode
<1>5. RecordType' /\ Stored(p, record') = chip'
      BY <1>1, <1>2, <1>4, StoredNone DEF RecordType, IsRecord
<1>6. pub'.conf = chip' /\ pub'.up = TRUE /\ pub' = [conf |-> pub'.conf, up |-> pub'.up]
      BY <1>1, <1>5, Published
<1>7. ApplyType'
      BY <1>1, <1>2, <1>3, <1>6 DEF ApplyType
<1>8. ShadowInv'
      BY <1>1, <1>2, DefaultsShades DEF ShadowInv
<1>9. AirInv'
      BY <1>1, <1>2, <1>6, DefaultAir DEF AirInv
<1>10. job'.do = "none" /\ job' = [do |-> job'.do, c |-> job'.c, i |-> job'.i]
      BY <1>1 DEF NoJob
<1>11. JobInv'
      BY <1>1, <1>10 DEF JobInv, Busy
<1>12. LdroInv' /\ IdleInv' /\ RecordInv' /\ ServeInv' /\ ReplayInv'
      BY <1>1, <1>3, <1>5, <1>6, <1>10 DEF LdroInv, IdleInv, RecordInv, ServeInv, ReplayInv
<1> QED BY <1>5, <1>7, <1>8, <1>9, <1>11, <1>12 DEF ApplyInv

\* Every step keeps the invariant.
LEMMA NextInv == ApplyInv /\ [Next]_vars => ApplyInv'
<1> SUFFICES ASSUME ApplyInv, [Next]_vars PROVE ApplyInv'
    OBVIOUS
<1>1. ASSUME NEW c \in Commands, Receive(c) PROVE ApplyInv'
      BY <1>1, ReceiveInv DEF Lines
<1>2. ASSUME NEW c \in Probes, Receive(c) PROVE ApplyInv'
      BY <1>2, ReceiveInv DEF Lines
<1>3. CASE ReadReply
      BY <1>3, StutterInv DEF ReadReply
<1>4. CASE UNCHANGED vars
      BY <1>4, StutterInv DEF vars
<1> QED BY <1>1, <1>2, <1>3, <1>4, JudgeInv, SwitchModeInv, SetGetrssiInv, IgnoreKeyInv, SetKeyInv,
           FinishInv, HardwareErrorInv, LoseInv, ReinitInv, ReplayStepInv, RestartInv DEF Next

\* The inductive invariant of the two-pass apply, the replay and the re-init
\* holds for every set of profiles and lines: in particular the record stands
\* for the chip whenever no replay runs, and what is published is what a
\* client's accepted lines have asked for.
THEOREM ApplyInvariant == Spec => []ApplyInv
<1>1. Init => ApplyInv
      BY InitInv
<1>2. ApplyInv /\ [Next]_vars => ApplyInv'
      BY NextInv
<1> QED BY <1>1, <1>2, PTL DEF Spec

\* g_effective never lies: whenever the radio is ready and the lock free,
\* the shadow the airtime gate reads describes the chip, after any sequence of
\* lines, mode switches, hardware errors, losses, replays and restarts.
THEOREM ShadowFollowsChip == Spec => []ShadowIsChip
<1>1. ApplyInv => ShadowIsChip
  <2> SUFFICES ASSUME ApplyInv PROVE ShadowIsChip
      OBVIOUS
  <2>1. eff \in Shadow /\ chip.mode \in Modes /\ Shades(eff, chip) /\ mode = chip.mode
        BY DEF ApplyInv, ApplyType, ShadowInv, IsConfig
  <2>2. Shadows(eff, chip)
        BY <2>1, ShadesAre
  <2> QED BY <2>1, <2>2 DEF ShadowIsChip, Shadows
<1> QED BY <1>1, ApplyInvariant, PTL

\* The low-data-rate bit of an SX127x is the forced one, or the one SF and BW
\* need, for any sequence of SET, failures and warm starts.
THEOREM LdroIsRight == Spec => []LdroFollows
<1>1. ApplyInv => LdroFollows
  <2> SUFFICES ASSUME ApplyInv, health = "READY", mode = "LORA"
               PROVE  ldro.bit = IF chip.val["LDRO"] = LdroAuto
                                 THEN LdroRequired(chip.val["SF"] \div 1000, chip.val["BW"])
                                 ELSE chip.val["LDRO"] # 0
      BY DEF LdroFollows
  <2> DEFINE r == LdroRequired(chip.val["SF"] \div 1000, chip.val["BW"])
  <2>1. LdroOk(ldro, chip) /\ ldro.bit \in BOOLEAN
        BY DEF ApplyInv, LdroInv, ApplyType, Ldro
  <2>2. r \in BOOLEAN
        BY DEF LdroRequired
  <2> HIDE DEF r
  <2>3. ldro.bit <=> IF chip.val["LDRO"] = LdroAuto THEN r ELSE chip.val["LDRO"] # 0
        BY <2>1 DEF LdroOk, r
  <2>4. ldro.bit = IF chip.val["LDRO"] = LdroAuto THEN r ELSE chip.val["LDRO"] # 0
        BY <2>1, <2>2, <2>3
  <2> QED BY <2>4 DEF r
<1> QED BY <1>1, ApplyInvariant, PTL

\* The first pass never refuses the replay of a record of whole commands.
THEOREM WholeReplayIsAccepted == Spec => []WholeReplayAccepted
<1>1. ApplyInv => WholeReplayAccepted
  <2> SUFFICES ASSUME ApplyInv, job.do = "replay", ~torn PROVE Verdict(ReplayCommand) = "OK"
      BY DEF WholeReplayAccepted, Doing
  <2>1. AirOk(p, pub.conf)
        BY DEF ApplyInv, AirInv
  <2> QED BY <2>1, ReplayJudged
<1> QED BY <1>1, ApplyInvariant, PTL

-----------------------------------------------------------------------------
(* The refinement.                                                          *)

\* A step of AtomicConfig, or none, under the refinement mapping.
AtomicStep == [Atomic!Next]_(Atomic!vars)

\* A step clients cannot see.
LEMMA AtomicStutter ==
  ASSUME UNCHANGED <<p, pub, line, reply>>
  PROVE  AtomicStep
BY DEF AtomicStep, Atomic!vars

\* A refusal of the first pass is Refuse; an acceptance is not seen yet.
LEMMA AtomicJudge ==
  ASSUME ApplyInv, Judge
  PROVE  AtomicStep
<1>1. /\ UNCHANGED <<p, pub>> /\ job.do = "none" /\ line # <<>> /\ health # "EXIT"
      BY DEF Judge, Applying
<1> DEFINE c == line[1]
           verdict == IF health # "READY" THEN "ERR RADIO_NOT_READY" ELSE Verdict(c)
<1>2. /\ Verdict(c) \in {"OK", "ERR UNKNOWN", "ERR MALFORMED", "ERR INVALID"}
      /\ Verdict(c) = "OK" <=> Admits(p, pub.conf, c)
      BY <1>1, IdleJudged
<1>3. IsConfig(pub.conf) /\ (pub.up <=> health = "READY")
      BY <1>1 DEF ApplyInv, ApplyType, IdleInv
<1>4. CASE verdict = "OK" /\ UNCHANGED <<line, reply>>
      BY <1>1, <1>4, AtomicStutter
<1>5. CASE verdict # "OK" /\ reply' = verdict /\ line' = <<>>
  <2>1. ~pub.up \/ ~Atomic!Admissible(c)
        BY <1>2, <1>3, <1>5, SameAdmissible
  <2>2. verdict \in {"ERR RADIO_NOT_READY", "ERR INVALID", "ERR MALFORMED", "ERR UNKNOWN"}
        BY <1>2, <1>5
  <2> HIDE DEF verdict
  <2>3. Atomic!Refuse
        BY <1>1, <1>5, <2>1, <2>2 DEF Atomic!Refuse, Atomic!Answer
  <2> QED BY <1>1, <2>3 DEF AtomicStep, Atomic!Next
<1> QED BY <1>4, <1>5 DEF Judge

\* The end of a client's apply is Accept, the end of a replay Return.
LEMMA AtomicFinish ==
  ASSUME ApplyInv, Finish
  PROVE  AtomicStep
<1>1. /\ UNCHANGED <<p, health, chip, record>> /\ job.do = "keys" /\ ~KeysLeft /\ Publish
      /\ IF replaying THEN UNCHANGED <<line, reply>> ELSE line' = <<>> /\ reply' = "OK"
      BY DEF Finish, Doing, Answer
<1>2. /\ health # "EXIT" /\ Stored(p, record) = chip
      /\ ~replaying => /\ chip = Result(p, pub.conf, job.c, Len(job.c.tokens)) /\ line = <<job.c>>
                       /\ pub.up /\ Admits(p, pub.conf, job.c)
      /\ replaying => chip = pub.conf
      BY <1>1, Done
<1>3. /\ RecordType' /\ health' \in {"READY", "FAILED", "UNPLUGGED", "EXIT"}
      /\ IsConfig(pub.conf) /\ pub.up \in BOOLEAN
      BY <1>1 DEF ApplyInv, RecordType, ApplyType
<1>4. pub'.conf = chip /\ pub'.up \in BOOLEAN
      BY <1>1, <1>2, <1>3, Published
<1>5. CASE replaying
  <2>1. UNCHANGED <<line, reply>> /\ pub'.conf = pub.conf
        BY <1>1, <1>2, <1>4, <1>5
  <2>2. CASE pub'.up = pub.up
        BY <1>1, <2>1, <2>2 DEF AtomicStep, Atomic!vars
  <2>3. CASE pub'.up = TRUE /\ pub.up = FALSE
        BY <1>1, <2>1, <2>3 DEF AtomicStep, Atomic!Next, Atomic!Return
  <2>4. CASE pub'.up = FALSE /\ pub.up = TRUE
        BY <1>1, <2>1, <2>4 DEF AtomicStep, Atomic!Next, Atomic!Lose
  <2> QED BY <1>3, <1>4, <2>2, <2>3, <2>4
<1>6. CASE ~replaying
  <2>1. line # <<>> /\ line[1] = job.c
        BY <1>2, <1>6
  <2>2. Atomic!Admissible(line[1]) /\ Atomic!After(line[1], Len(line[1].tokens)) = chip
        BY <1>2, <1>3, <1>6, <2>1, SameAdmissible, SameAfter
  <2>3. Atomic!Accept
        BY <1>1, <1>2, <1>4, <1>6, <2>1, <2>2 DEF Atomic!Accept, Atomic!Answer
  <2> QED BY <1>1, <2>3 DEF AtomicStep, Atomic!Next
<1> QED BY <1>5, <1>6

\* A failing setter is Break, with a part of the command; of a replay, none.
LEMMA AtomicHardwareError ==
  ASSUME ApplyInv, HardwareError
  PROVE  AtomicStep
<1>1. /\ UNCHANGED <<p, chip, record>> /\ job.do \in {"mode", "keys"} /\ Publish
      /\ health' = IF replaying THEN "EXIT" ELSE "FAILED"
      /\ IF replaying THEN UNCHANGED <<line, reply>> ELSE line' = <<>> /\ reply' = "ERR HARDWARE"
      BY DEF HardwareError, Doing, Answer, KeysLeft
<1>2. /\ RecordType' /\ health' \in {"READY", "FAILED", "UNPLUGGED", "EXIT"}
      /\ IsConfig(pub.conf) /\ pub.up \in BOOLEAN
      BY <1>1 DEF ApplyInv, RecordType, ApplyType
<1>3. /\ pub'.up = FALSE
      /\ replaying => pub'.conf = pub.conf
      /\ ~replaying => pub'.conf = Stored(p, record)
      BY <1>1, <1>2, Published
<1>4. CASE replaying
  <2>1. UNCHANGED <<line, reply>> /\ pub'.conf = pub.conf
        BY <1>1, <1>3, <1>4
  <2>2. CASE pub.up = FALSE
        BY <1>1, <1>3, <2>1, <2>2 DEF AtomicStep, Atomic!vars
  <2>3. CASE pub.up = TRUE
        BY <1>1, <1>3, <2>1, <2>3 DEF AtomicStep, Atomic!Next, Atomic!Lose
  <2> QED BY <1>2, <2>2, <2>3
<1>5. CASE ~replaying
  <2> DEFINE c == job.c
  <2>1. /\ line = <<c>> /\ pub.up /\ Admits(p, pub.conf, c) /\ pub'.conf = chip
        /\ chip = IF job.do = "mode" THEN pub.conf ELSE Result(p, pub.conf, c, job.i - 1)
        BY <1>1, <1>3, <1>5 DEF ApplyInv, JobInv, ServeInv, RecordInv
  <2>2. job.i - 1 \in 0 .. Len(c.tokens)
    <3>1. JobOk(p, Target(job, mode), job)
          BY <1>1 DEF ApplyInv, JobInv, Busy
    <3>2. Len(c.tokens) \in Nat /\ job.i \in 1 .. Len(c.tokens) + 1
          BY <3>1 DEF JobOk, Fitting
    <3> QED BY <3>2
  <2>3. line # <<>> /\ line[1] = c
        BY <2>1
  <2> HIDE DEF c
  <2>4. Atomic!Admissible(c) /\ \A n : Atomic!After(c, n) = Result(p, pub.conf, c, n)
        BY <1>2, <2>1, SameAdmissible, SameAfter
  <2>5. pub'.conf = pub.conf \/ \E n \in 0 .. Len(c.tokens) : pub'.conf = Atomic!After(c, n)
        BY <2>1, <2>2, <2>4
  <2>6. Atomic!Break
        BY <1>1, <1>3, <1>5, <2>1, <2>3, <2>4, <2>5 DEF Atomic!Break, Atomic!Answer
  <2> QED BY <1>1, <2>6 DEF AtomicStep, Atomic!Next
<1> QED BY <1>4, <1>5

\* A loss outside an apply is Lose; in one it is not seen until the end.
LEMMA AtomicLose ==
  ASSUME ApplyInv, Lose
  PROVE  AtomicStep
<1>1. /\ UNCHANGED <<p, chip, record, line, reply, job>> /\ health # "EXIT" /\ health' = "UNPLUGGED"
      /\ IF job.do # "none" THEN UNCHANGED pub ELSE Publish
      BY DEF Lose, Applying
<1>2. CASE job.do # "none"
      BY <1>1, <1>2, AtomicStutter
<1>3. CASE job.do = "none"
  <2>1. RecordType' /\ Stored(p, record) = chip /\ pub.conf = chip /\ pub.up \in BOOLEAN
        BY <1>1, <1>3 DEF ApplyInv, ApplyType, RecordType, RecordInv, IdleInv, JobInv
  <2>2. pub'.conf = pub.conf /\ pub'.up = FALSE
        BY <1>1, <1>3, <2>1, Published
  <2>3. CASE pub.up = FALSE
        BY <1>1, <2>2, <2>3 DEF AtomicStep, Atomic!vars
  <2>4. CASE pub.up = TRUE
        BY <1>1, <2>2, <2>4 DEF AtomicStep, Atomic!Next, Atomic!Lose
  <2> QED BY <2>1, <2>3, <2>4
<1> QED BY <1>2, <1>3

\* A replay that is refused ends the process unseen.
LEMMA AtomicReplay ==
  ASSUME ApplyInv, Replay
  PROVE  AtomicStep
<1>1. /\ UNCHANGED <<p, record, line, reply>>
      /\ UNCHANGED pub \/ (health' = "EXIT" /\ Publish)
      BY DEF Replay
<1>2. CASE UNCHANGED pub
      BY <1>1, <1>2, AtomicStutter
<1>3. CASE health' = "EXIT" /\ Publish
  <2>1. RecordType' /\ pub.up \in BOOLEAN
        BY <1>1 DEF ApplyInv, ApplyType, RecordType
  <2>2. pub'.conf = pub.conf /\ pub'.up = FALSE
        BY <1>1, <1>3, <2>1, Published
  <2>3. CASE pub.up = FALSE
        BY <1>1, <2>2, <2>3 DEF AtomicStep, Atomic!vars
  <2>4. CASE pub.up = TRUE
        BY <1>1, <2>2, <2>4 DEF AtomicStep, Atomic!Next, Atomic!Lose
  <2> QED BY <2>1, <2>3, <2>4
<1> QED BY <1>1, <1>2, <1>3

\* A restart is Restart.
LEMMA AtomicRestart ==
  ASSUME ApplyInv, Restart
  PROVE  AtomicStep
<1>1. /\ p' = p /\ health' = "READY" /\ chip' = Defaults(p, "LORA") /\ record' = StartMode("none")
      /\ line' = <<>> /\ reply' = reply /\ Publish
      BY DEF Restart
<1>2. pub'.conf = Atomic!Defaults(p, "LORA") /\ pub'.up = TRUE
      BY <1>1, SameDefaults DEF Publish
<1>3. Atomic!Restart
      BY <1>1, <1>2 DEF Atomic!Restart
<1> QED BY <1>1, <1>3 DEF AtomicStep, Atomic!Next

\* Every step implements a step of AtomicConfig, or is not seen.
LEMMA StepIsAtomic == ApplyInv /\ [Next]_vars => AtomicStep
<1> SUFFICES ASSUME ApplyInv, [Next]_vars PROVE AtomicStep
    OBVIOUS
<1>1. ASSUME NEW c \in Lines, Receive(c) PROVE AtomicStep
  <2>1. /\ UNCHANGED <<p, pub, reply>> /\ line = <<>> /\ reply = "none" /\ line' = <<c>>
        BY <1>1 DEF Receive
  <2>2. Len(line') = 1 /\ line'[1] \in Lines
        BY <2>1
  <2> QED BY <2>1, <2>2 DEF AtomicStep, Atomic!Next, Atomic!Request
<1>2. CASE ReadReply
      BY <1>2 DEF ReadReply, AtomicStep, Atomic!Next, Atomic!ReadReply
<1>3. CASE SwitchMode \/ SetGetrssi \/ IgnoreKey \/ SetKey \/ Reinit \/ UNCHANGED vars
      BY <1>3, AtomicStutter DEF SwitchMode, SetGetrssi, IgnoreKey, SetKey, Reinit, vars
<1> QED BY <1>1, <1>2, <1>3, AtomicJudge, AtomicFinish, AtomicHardwareError, AtomicLose, AtomicReplay,
           AtomicRestart DEF Next, Lines

\* parse_and_apply_config_generic with the shadow, the drivers' checks, the
\* record, the re-init and its replay implements AtomicConfig: clients see each command
\* whole or not at all, a refusal changes nothing, and a lost stick comes back
\* with the configuration that had been acknowledged.
THEOREM CommandsAreAtomic == Spec => ImplementsAtomicConfig
<1>1. Init => Atomic!Init
      BY SameDefaults DEF Init, Atomic!Init
<1>2. ApplyInv /\ [Next]_vars => [Atomic!Next]_(Atomic!vars)
      BY StepIsAtomic DEF AtomicStep
<1> QED BY <1>1, <1>2, ApplyInvariant, PTL DEF Spec, ImplementsAtomicConfig, Atomic!Spec
=============================================================================
