----------------------------- MODULE StickSelect -----------------------------
(***************************************************************************)
(* Selection of the Meshstick (daemon_ch341_select.cpp over the monitor's  *)
(* scan in ch341_monitor.c and pine64's open in ch341_adapter.c): at the   *)
(* daemon's start and again after every loss, next to sticks that arrive,  *)
(* leave, move to another port or are held by somebody else.               *)
(*                                                                         *)
(* A connection is one plugging-in of a stick, <<stick, cookie>>.  Time is *)
(* a set of timers that are off, running or passed: g_cap_first, the       *)
(* ARRIVED burst (quiet, burstcap), g_walk_end_ms (gap), g_retry_at, and   *)
(* one ACCESS deadline per connection.  g_changes and g_scan_changes are   *)
(* only compared, so changed stands for g_changes # g_scan_changes.        *)
(* A blocking step (open, bind) is cut where the bus can change under it.  *)
(***************************************************************************)
EXTENDS Naturals, FiniteSets

CONSTANTS
    Sticks, Ports, Serials,
    Conditions, \* how a stick can be when it is plugged in
    MaxChanges, \* bound: arrivals and departures
    MaxTrouble, \* bound: sticks not ok at one time
    None        \* no serial, no port, no selector, no connection

ASSUME SelectAssumption ==
    /\ None \notin Serials \cup Ports \cup (Sticks \X (0 .. MaxChanges))
    /\ "unread" \notin Serials \cup {None}
    /\ MaxChanges \in Nat /\ MaxTrouble \in Nat /\ IsFiniteSet(Sticks)
    /\ Conditions \subseteq {"ok", "claimed", "slow", "denied", "unreadable"}

Conn == Sticks \X (0 .. MaxChanges)
Any == [by |-> "any", is |-> None]
BySerial(v) == [by |-> "serial", is |-> v]
ByPort(p) == [by |-> "port", is |-> p]
Timers == {"cap", "quiet", "burstcap", "gap", "retry"}

VARIABLES
    (* the bus *)
    serial,     \* [Sticks -> Serials or None], a stick's iSerialNumber string
    at,         \* the port a stick is plugged into, or None
    changes,    \* arrivals and departures so far
    cookie,     \* the cookie of its current connection: each has its own
    cond,       \* ok, claimed by another process, slow or denied (udev), unreadable
    pend,       \* kinds of hotplug events not taken yet
    open,       \* connections pine64 has open for this process
    (* loraham_ch341_mon *)
    bound, left_bound,
    (* daemon_ch341_select.cpp *)
    mode, phase,
    todo, items,            \* the scan: connections to look at, results so far
    changed, final_pending, snapshot_final,
    acc, late, seen,        \* g_access: deadlines, those passed, those seen in this scan
    snap,                   \* g_ruleb and g_snap: sticks a Rule B selection counts, else 0
    held,
    timer,
    dev,                    \* the connection being opened
    (* its callers *)
    run,        \* start, lost, open, refused or stopped
    force,      \* g_force_reopen
    selector,   \* --usb-serial
    first       \* history: the identity of the first stick opened

busVars == <<serial, at, cookie, cond, changes>>
scanVars == <<todo, items, snapshot_final>>
accVars == <<acc, late, seen>>
fixed == <<serial, selector>>
vars == <<serial, at, changes, cookie, cond, pend, open, bound, left_bound, mode, phase, todo, items,
          changed, final_pending, snapshot_final, acc, late, seen, snap, held,
          timer, dev, run, force, selector, first>>

Init ==
    /\ serial \in [Sticks -> Serials \cup {None}]
    /\ at \in [Sticks -> Ports \cup {None}]
    /\ \A s, t \in Sticks : s # t /\ at[s] = at[t] => at[s] = None
    /\ changes = 0 /\ cookie = [s \in Sticks |-> 0]
    /\ cond \in [Sticks -> Conditions \cup {"ok"}]
    /\ \A s \in Sticks : cond[s] = "unreadable" => serial[s] # None
    /\ \A s \in Sticks : at[s] = None => cond[s] = "ok"
    /\ Cardinality({s \in Sticks : cond[s] # "ok"}) <= MaxTrouble
    /\ pend = {} /\ open = {} /\ bound = None /\ left_bound = FALSE
    /\ selector \in Serials \cup {None}
    /\ mode = IF selector = None THEN Any ELSE BySerial(selector)
    /\ phase = "idle" /\ todo = {} /\ items = {}
    /\ changed = FALSE /\ final_pending = FALSE /\ snapshot_final = FALSE
    /\ acc = {} /\ late = {} /\ seen = {}
    /\ snap = 0 /\ held = {}
    /\ timer = [t \in Timers |-> IF t = "retry" THEN "passed" ELSE "off"]
    /\ dev = None /\ run = "start" /\ force = FALSE /\ first = None

-----------------------------------------------------------------------------
(* The bus and the clock.                                                   *)

Plugged(s) == at[s] # None
ConnOf(s) == <<s, cookie[s]>>
\* libusb's device list, restricted to 1A86:5512.
List == {ConnOf(s) : s \in {t \in Sticks : Plugged(t)}}

Plug(s, p) ==
    /\ ~Plugged(s)
    /\ \A t \in Sticks : at[t] # p
    /\ \E c \in Conditions :
          /\ c = "unreadable" => serial[s] # None
          /\ cond' = [cond EXCEPT ![s] = c]
          /\ Cardinality({t \in Sticks : cond'[t] # "ok"}) <= MaxTrouble
    /\ changes < MaxChanges /\ changes' = changes + 1
    /\ cookie' = [cookie EXCEPT ![s] = changes']
    /\ at' = [at EXCEPT ![s] = p]
    /\ pend' = pend \cup {"arrived"}
    /\ UNCHANGED <<open, bound, left_bound, mode, phase, changed, final_pending, held, timer, dev,
                   run, force, first, fixed, scanVars, accVars, snap>>

Unplug(s) ==
    /\ Plugged(s)
    /\ changes < MaxChanges /\ changes' = changes + 1
    /\ at' = [at EXCEPT ![s] = None]
    /\ cond' = [cond EXCEPT ![s] = "ok"]
    /\ pend' = pend \cup {IF ConnOf(s) = bound THEN "bound left" ELSE "left"}
    /\ UNCHANGED <<cookie, open, bound, left_bound, mode, phase, changed, final_pending, held, timer,
                   dev, run, force, first, fixed, scanVars, accVars, snap>>

\* More events than MON_QUEUE in one dispatch: it counts an arrival, and
\* what it lost may be the bound stick's LEFT (left_bound 2).
Flood ==
    /\ pend # {}
    /\ pend' = pend \cup {"arrived"} \cup (IF bound = None THEN {} ELSE {"bound left"})
    /\ UNCHANGED <<busVars, open, bound, left_bound, mode, phase, changed, final_pending, held, timer,
                   dev, run, force, first, selector, scanVars, accVars, snap>>

\* The other process lets go, or udev's rule is applied within the 2 s.
Recover(s) ==
    /\ Plugged(s) /\ cond[s] \in {"claimed", "slow"}
    /\ cond' = [cond EXCEPT ![s] = "ok"]
    /\ UNCHANGED <<serial, at, changes, cookie, pend, open, bound, left_bound, mode, phase, changed,
                   final_pending, held, timer, dev, run, force, first, selector, scanVars, accVars,
                   snap>>

TimerPasses(t) ==
    /\ timer[t] = "running"
    /\ t = "burstcap" => timer["cap"] # "running"     \* stamped no later
    /\ timer' = [timer EXCEPT ![t] = IF t = "gap" THEN "off" ELSE "passed"]
    /\ UNCHANGED <<busVars, pend, open, bound, left_bound, mode, phase, changed, final_pending, held,
                   dev, run, force, first, selector, scanVars, accVars, snap>>

\* The 2 s of a connection are over; a slow one has recovered a retry (200 ms)
\* before, so that a scan has resolved it.
DeadlinePasses(c) ==
    /\ c \in acc \ late
    /\ c \in List => cond[c[1]] \in {"denied", "unreadable"}
    /\ late' = late \cup {c}
    /\ UNCHANGED <<busVars, pend, open, bound, left_bound, mode, phase, changed, final_pending, held,
                   timer, dev, run, force, first, selector, scanVars, acc, seen, snap>>

-----------------------------------------------------------------------------
(* Taking the monitor's events: before every step, and in the windows of    *)
(* the blocking calls.  The operators are the values after the take.        *)

NewArrival == "arrived" \in pend
NewChange == NewArrival \/ "left" \in pend
\* Mutant: events of the blocking windows are taken but not noted.
ChangedBeforeTake == changed

Changed == changed \/ NewChange
LeftBound == bound # None /\ (left_bound \/ "bound left" \in pend)
Timer == [t \in Timers |->
            CASE t = "cap" /\ NewChange /\ timer[t] = "off" -> "running"
              [] t = "burstcap" /\ NewArrival /\ timer[t] = "off" -> "running"
              [] t = "quiet" /\ NewArrival -> "running"
              [] OTHER -> timer[t]]

Take == pend' = {} /\ left_bound' = LeftBound

Stale == Changed /\ ~snapshot_final
RuleB == snap > 0

FinishWait(t, at_) ==
    /\ phase' = "idle"
    /\ timer' = [t EXCEPT !.retry = at_]

\* snapshot_stale() found a change: classify again now.
ClassifyAgain ==
    /\ changed' = Changed
    /\ final_pending' = (final_pending \/ Timer.cap = "passed")
    /\ FinishWait(Timer, "passed")
    /\ UNCHANGED run

Answered == [Timer EXCEPT !.cap = "off", !.quiet = "off", !.burstcap = "off"]

Refuse ==
    \/ Stale /\ ClassifyAgain
    \/ /\ ~Stale
       /\ changed' = Changed
       /\ IF run = "start"
          THEN run' = "refused" /\ FinishWait(Answered, "off")
          ELSE FinishWait(Answered, IF Changed THEN "running" ELSE "off") /\ UNCHANGED run
       /\ UNCHANGED final_pending

\* Mutant: a failed read waits for the next event.
TransientWaits ==
    \/ run = "start" /\ Refuse
    \/ /\ run # "start"
       /\ changed' = Changed
       /\ FinishWait(Timer, "off")
       /\ UNCHANGED <<run, final_pending>>

\* transient(): a read failed.
Transient ==
    \/ run = "start" /\ Refuse
    \/ /\ run # "start"
       /\ changed' = Changed
       /\ FinishWait(Timer, "running")
       /\ UNCHANGED <<run, final_pending>>

\* busy(): present but not to be opened; t is the clock at that time.
Busy(t) ==
    /\ changed' = Changed
    /\ IF run = "start"
       THEN run' = "refused" /\ FinishWait(t, "off")
       ELSE FinishWait(t, "running") /\ UNCHANGED run
    /\ UNCHANGED final_pending

-----------------------------------------------------------------------------
(* The scan.                                                                *)

Selecting == run \in {"start", "lost"}
Due == timer.retry = "passed" \/ (run = "lost" /\ (force \/ NewChange))

ScanBegin ==
    /\ Selecting /\ phase = "idle" /\ Due
    /\ Take /\ force' = FALSE
    /\ changed' = FALSE
    /\ todo' = List /\ items' = {}
    /\ snapshot_final' = final_pending /\ final_pending' = FALSE
    /\ seen' = {}
    /\ phase' = "scan"
    /\ timer' = [Timer EXCEPT !.retry = "off"]
    /\ UNCHANGED <<busVars, open, bound, mode, acc, late, snap, held, dev, run, selector, first>>

\* libusb_get_device_list() failed; that read has seen the changes so far.
ScanFails ==
    /\ Selecting /\ phase = "idle" /\ Due
    /\ Take /\ force' = FALSE
    /\ changed' = FALSE
    /\ IF run = "start"
       THEN run' = "refused" /\ FinishWait(Answered, "off")
       ELSE FinishWait(Timer, "running") /\ UNCHANGED run
    /\ UNCHANGED <<busVars, open, bound, mode, scanVars, accVars, snap, held, dev, final_pending,
                   selector, first>>

\* loraham_ch341_mon_scan_step(): what libusb_open() and the serial tell.
ScanItem(c) ==
    LET s == c[1] IN
    [conn |-> c,
     openable |-> IF c \notin List THEN "gone" ELSE IF cond[s] \in {"slow", "denied"} THEN "no" ELSE "yes",
     serial |-> IF cond[s] \in {"slow", "denied", "unreadable"} THEN "unread" ELSE serial[s]]

\* scan_item_unknown()
Unknown(i) ==
    \/ i.openable = "no"
    \/ mode.by = "serial" /\ i.openable = "yes" /\ i.serial = "unread"

ScanExpired == late \cap seen # {}

ScanStep(c) ==
    /\ Selecting /\ phase = "scan" /\ c \in todo
    /\ ~ScanExpired
    /\ Take /\ changed' = Changed /\ timer' = Timer
    /\ todo' = todo \ {c}
    /\ items' = items \cup {ScanItem(c)}
    /\ IF Unknown(ScanItem(c))
       THEN acc' = acc \cup {c} /\ seen' = seen \cup {c} /\ UNCHANGED late
       ELSE acc' = acc \ {c} /\ seen' = seen \ {c} /\ late' = late \ {c}
    /\ UNCHANGED <<busVars, open, bound, mode, phase, snapshot_final, final_pending, snap, held,
                   dev, run, force, selector, first>>

\* access_expired(): the expiry stands unless the snapshot is stale.
AccessExpired ==
    /\ Refuse
    /\ IF Stale THEN UNCHANGED accVars ELSE acc' = {} /\ late' = {} /\ seen' = {}

ScanExpires ==
    /\ Selecting /\ phase = "scan" /\ todo # {} /\ ScanExpired
    /\ Take
    /\ AccessExpired
    /\ todo' = {} /\ items' = {}
    /\ UNCHANGED <<busVars, open, bound, mode, snapshot_final, snap, held, dev, force, selector, first>>

-----------------------------------------------------------------------------
(* The decision after a scan.                                               *)

Present == {i \in items : i.openable # "gone"}
Unopened == {i \in Present : i.openable # "yes"}
Unclear == {i \in Present : i.openable # "yes" \/ i.serial = "unread"}
NoSerial == {i \in Present \ Unclear : i.serial = None}
Match == {i \in Present \ Unclear : mode.by = "serial" /\ i.serial = mode.is}

OpenNow ==
    IF mode.by = "serial"
    THEN Cardinality(Match) = 1 /\ Unclear = {}
    ELSE Cardinality(Present) = 1 /\ Unopened = {}
AccessBlocks ==
    IF mode.by = "serial"
    THEN Cardinality(Match) <= 1 /\ Unclear # {}
    ELSE Unopened # {} /\ (Cardinality(Present) = 1 \/ Cardinality(NoSerial) <= 1)
WalkNow ==
    /\ mode.by # "serial" /\ Cardinality(Present) > 1
    /\ Unopened = {} /\ Cardinality(NoSerial) = 1

\* The end of the burst, or its cap (on a reopen), and the gap to the last walk.
WalkDue ==
    /\ Timer.gap # "running"
    /\ run = "lost" /\ Timer.burstcap # "off" => "passed" \in {Timer.quiet, Timer.burstcap}

Deciding ==
    /\ Selecting /\ phase = "scan" /\ todo = {}
    /\ Take
    /\ todo' = {} /\ items' = {}
    /\ UNCHANGED <<busVars, open, bound, mode, snapshot_final, held, dev, force, selector, first>>

DropDeadlines == acc' = {} /\ late' = {} /\ seen' = {}
\* A connection this scan did not see unresolved has left.
KeepSeen == acc' = seen /\ late' = late \cap seen /\ UNCHANGED seen

DecideOpen ==
    /\ Deciding /\ OpenNow
    /\ phase' = "open" /\ snap' = 0
    /\ changed' = Changed /\ timer' = Timer
    /\ DropDeadlines
    /\ UNCHANGED <<run, final_pending>>

\* access_wait()
DecideAccess ==
    /\ Deciding /\ ~OpenNow /\ AccessBlocks
    /\ snap' = 0
    /\ \/ Stale /\ ClassifyAgain /\ KeepSeen
       \/ /\ ~Stale /\ late \cap seen = {}
          /\ changed' = Changed
          /\ FinishWait(Timer, "running")
          /\ KeepSeen
          /\ UNCHANGED <<run, final_pending>>
       \/ ~Stale /\ late \cap seen # {} /\ Refuse /\ DropDeadlines

DecideWalk ==
    /\ Deciding /\ WalkNow
    /\ \/ /\ ~WalkDue
          /\ changed' = Changed
          /\ FinishWait(Timer, "running") /\ DropDeadlines
          /\ snap' = 0
          /\ UNCHANGED <<run, final_pending>>
       \/ /\ WalkDue /\ Stale
          /\ ClassifyAgain /\ KeepSeen
          /\ snap' = 0
       \/ /\ WalkDue /\ ~Stale
          /\ changed' = Changed /\ timer' = Answered
          /\ phase' = "walk" /\ snap' = Cardinality(Present)
          /\ DropDeadlines
          /\ UNCHANGED <<run, final_pending>>

\* None, a duplicate, not the wanted one, or several without a selector.
DecideRefuse ==
    /\ Deciding /\ ~OpenNow /\ ~AccessBlocks /\ ~WalkNow
    /\ snap' = 0
    /\ Refuse
    /\ IF Stale THEN KeepSeen ELSE DropDeadlines

-----------------------------------------------------------------------------
(* The open.  pine64 takes the first stick it can claim that has the serial *)
(* asked for; one this process holds already cannot be claimed again.       *)

Claimable(v) ==
    {c \in List \ open : cond[c[1]] \in {"ok", "unreadable"} /\ (v # None => serial[c[1]] = v)}

OpenStep ==
    /\ Selecting /\ phase = "open"
    /\ Take
    /\ \/ Stale /\ ClassifyAgain /\ UNCHANGED <<open, dev>>
       \/ ~Stale /\ Changed /\ Refuse /\ UNCHANGED <<open, dev>>
       \/ /\ ~Changed
          /\ \E c \in Claimable(IF mode.by = "serial" THEN mode.is ELSE None) :
                dev' = c /\ open' = open \cup {c}
          /\ phase' = "check" /\ changed' = Changed /\ timer' = Timer
          /\ UNCHANGED <<run, final_pending>>
    /\ UNCHANGED <<busVars, bound, mode, scanVars, accVars, snap, held, force, selector, first>>

\* loraham_ch341_open() returns NULL: nothing to claim, or pinedio_init() failed.
OpenFails ==
    /\ Selecting /\ phase = "open"
    /\ Take
    /\ \/ Stale /\ ClassifyAgain
       \/ ~Stale /\ Busy(Timer)
    /\ UNCHANGED <<busVars, open, bound, mode, scanVars, accVars, snap, held, dev, force, selector,
                   first>>

\* loraham_ch341_identity(): only a stick that is still there answers.
IdentityRead == dev \in List
IdSerial == IF cond[dev[1]] = "unreadable" THEN "unread" ELSE serial[dev[1]]

\* Mutant: a stick without a serial is taken at any port.
PostOpenAnyPort ==
    /\ IdentityRead /\ IdSerial # "unread"
    /\ mode.by = "serial" => IdSerial = mode.is
    /\ RuleB \/ mode.by = "port" => IdSerial = None

\* post_open_ok()
PostOpenOk ==
    /\ IdentityRead /\ IdSerial # "unread"
    /\ mode.by = "serial" => IdSerial = mode.is
    /\ RuleB => IdSerial = None
    /\ mode.by = "port" => at[dev[1]] = mode.is /\ IdSerial = None

CloseDev == open' = open \ {dev} /\ dev' = None

\* opened(), up to the bind.
Check ==
    /\ phase = "check"
    /\ Take
    /\ \/ /\ Stale
          /\ CloseDev /\ ClassifyAgain
       \/ /\ ~Stale /\ (IF ~RuleB /\ Changed THEN TRUE ELSE IdentityRead /\ ~PostOpenOk)
          /\ CloseDev /\ Refuse
       \/ /\ ~Stale /\ (RuleB \/ ~Changed) /\ ~IdentityRead
          /\ CloseDev /\ Transient
       \/ /\ ~Stale /\ (RuleB \/ ~Changed) /\ PostOpenOk
          /\ phase' = "bind"
          /\ changed' = Changed /\ timer' = Timer
          /\ UNCHANGED <<open, dev, run, final_pending>>
    /\ UNCHANGED <<busVars, bound, mode, scanVars, accVars, snap, held, force, selector, first>>

\* loraham_ch341_mon_bind(): a fresh list has the opened stick.
Bind ==
    /\ phase = "bind" /\ dev \in List
    /\ bound' = dev /\ left_bound' = FALSE
    /\ phase' = "commit"
    /\ UNCHANGED <<busVars, pend, open, mode, changed, final_pending, scanVars, accVars, snap, held,
                   timer, dev, run, force, selector, first>>

\* The list could not be read, or the stick is no longer in it.
BindFails ==
    /\ phase = "bind"
    /\ bound' = None
    /\ CloseDev /\ Take
    /\ \/ Stale /\ ClassifyAgain
       \/ ~Stale /\ Transient
    /\ UNCHANGED <<busVars, mode, scanVars, accVars, snap, held, force, selector, first>>

Identity(s) == IF serial[s] # None THEN BySerial(serial[s]) ELSE ByPort(at[s])

\* opened(), after the bind: nothing is committed on a stale or lost result.
Commit ==
    /\ phase = "commit"
    /\ pend' = {}
    /\ \/ /\ Stale \/ LeftBound \/ (~RuleB /\ Changed)
          /\ bound' = None /\ left_bound' = FALSE
          /\ CloseDev
          /\ \/ Stale /\ ClassifyAgain
             \/ /\ ~Stale /\ LeftBound
                /\ changed' = Changed /\ FinishWait(Timer, "passed")
                /\ UNCHANGED <<run, final_pending>>
             \/ ~Stale /\ ~LeftBound /\ Refuse
          /\ UNCHANGED <<mode, accVars, first>>
       \/ /\ ~Stale /\ ~LeftBound /\ (RuleB \/ ~Changed)
          /\ mode' = IF mode = Any THEN Identity(dev[1]) ELSE mode
          /\ first' = IF first = None THEN Identity(dev[1]) ELSE first
          /\ run' = "open" /\ phase' = "done"
          /\ changed' = Changed /\ timer' = Answered
          /\ DropDeadlines
          /\ UNCHANGED <<open, bound, left_bound, dev, final_pending>>
    /\ UNCHANGED <<busVars, scanVars, snap, held, force, selector>>

-----------------------------------------------------------------------------
(* Rule B: the one stick without a serial among several.                    *)

\* g_attempts: every attempt that does not end the walk leaves a stick held.
Attempts == Cardinality(held)
GapStarts(t) == [t EXCEPT !.gap = "running"]
\* Mutant: g_held is cleared without closing the sticks.
ReleaseForgets(closing) == open' = open \ closing /\ held' = {} /\ dev' = None
ReleaseHeld(closing) == open' = open \ (held \cup closing) /\ held' = {} /\ dev' = None

\* A change, or as many attempts as the snapshot has sticks.
WalkGivesUp ==
    /\ Selecting /\ phase = "walk" /\ (Stale \/ Attempts >= snap)
    /\ Take
    /\ ReleaseHeld({})
    /\ \/ /\ Stale
          /\ changed' = Changed
          /\ final_pending' = (final_pending \/ Timer.cap = "passed")
          /\ FinishWait(GapStarts(Timer), "passed")
          /\ UNCHANGED run
       \/ ~Stale /\ Busy(GapStarts(Timer))
    /\ UNCHANGED <<busVars, bound, mode, scanVars, accVars, snap, force, selector, first>>

WalkOpen ==
    /\ Selecting /\ phase = "walk" /\ ~Stale /\ Attempts < snap
    /\ Take
    /\ \E c \in Claimable(None) : dev' = c /\ open' = open \cup {c}
    /\ phase' = "look" /\ changed' = Changed /\ timer' = Timer
    /\ UNCHANGED <<busVars, bound, mode, scanVars, accVars, snap, held, run, force,
                   final_pending, selector, first>>

\* Nothing claimable is left.
WalkOpenFails ==
    /\ Selecting /\ phase = "walk" /\ ~Stale /\ Attempts < snap
    /\ Take
    /\ ReleaseHeld({})
    /\ Busy(GapStarts(Timer))
    /\ UNCHANGED <<busVars, bound, mode, scanVars, accVars, snap, force, selector, first>>

\* The opened stick's identity, after the events of the open.
WalkLook ==
    /\ phase = "look"
    /\ Take
    /\ changed' = Changed
    /\ \/ /\ Stale
          /\ ReleaseHeld({dev})
          /\ final_pending' = (final_pending \/ Timer.cap = "passed")
          /\ FinishWait(GapStarts(Timer), "passed")
       \/ /\ ~Stale /\ (IF IdentityRead THEN IdSerial # None ELSE TRUE)
          /\ held' = held \cup {dev} /\ dev' = None
          /\ phase' = "walk" /\ timer' = Timer
          /\ UNCHANGED <<open, final_pending>>
       \/ /\ ~Stale /\ IdentityRead /\ IdSerial = None
          /\ open' = open \ held /\ held' = {}
          /\ phase' = "check" /\ timer' = GapStarts(Timer)
          /\ UNCHANGED <<dev, final_pending>>
    /\ UNCHANGED <<busVars, bound, mode, scanVars, accVars, snap, run, force, selector, first>>

-----------------------------------------------------------------------------
(* The callers.                                                             *)

\* The stick in use is gone: daemon_usb_wait.cpp tears the radio down, which
\* closes and unbinds it, and forces one selection.
Lose ==
    /\ run = "open" /\ bound \notin List
    /\ run' = "lost" /\ force' = TRUE /\ phase' = "idle"
    /\ open' = open \ {dev} /\ dev' = None
    /\ bound' = None /\ left_bound' = FALSE
    /\ \E rest \in {pend, pend \ {"bound left"}} :
          pend' = IF "bound left" \in rest THEN (rest \ {"bound left"}) \cup {"left"} ELSE rest
    /\ timer' = [timer EXCEPT !.retry = "off"]
    /\ UNCHANGED <<busVars, mode, changed, final_pending, scanVars, accVars, snap, held, selector,
                   first>>

\* daemon_ch341_shutdown(), between two passes of the loop.
Shutdown ==
    /\ run \in {"lost", "open"} /\ phase \in {"idle", "scan", "open", "walk", "done"}
    /\ run' = "stopped" /\ phase' = "idle" /\ todo' = {} /\ items' = {}
    /\ open' = open \ (held \cup {dev}) /\ held' = {} /\ dev' = None
    /\ bound' = None /\ left_bound' = FALSE
    /\ DropDeadlines
    /\ UNCHANGED <<busVars, pend, mode, changed, final_pending, snapshot_final, snap, timer, force,
                   selector, first>>

Ended == run \in {"refused", "stopped"} /\ UNCHANGED vars

Decide == DecideOpen \/ DecideAccess \/ DecideWalk \/ DecideRefuse
Scan == \E c \in Conn : ScanStep(c)

Bus ==
    /\ run \notin {"refused", "stopped"}
    /\ \/ \E s \in Sticks : Unplug(s) \/ Recover(s) \/ \E p \in Ports : Plug(s, p)
       \/ Flood
Clock ==
    /\ run \notin {"refused", "stopped"}
    /\ (\E t \in Timers : TimerPasses(t)) \/ (\E c \in Conn : DeadlinePasses(c))
Select ==
    \/ ScanBegin \/ ScanFails \/ Scan \/ ScanExpires \/ Decide
    \/ OpenStep \/ OpenFails \/ Check \/ Bind \/ BindFails \/ Commit
    \/ WalkGivesUp \/ WalkOpen \/ WalkOpenFails \/ WalkLook

Next == Bus \/ Clock \/ Select \/ Lose \/ Shutdown \/ Ended

Spec == Init /\ [][Next]_vars

-----------------------------------------------------------------------------
(* Properties.                                                              *)

\* Every stick this process has open is the one in use, the one just being
\* checked or one a Rule B walk holds; a selection that waits, was refused
\* or was cancelled by the shutdown holds none (release_held, close).
HandlesAccounted ==
    /\ open = held \cup (IF dev = None THEN {} ELSE {dev})
    /\ phase = "idle" \/ run \in {"refused", "stopped"} => open = {}

\* The stick in use is the one --usb-serial names and, after a loss, the one
\* used before: by its serial, or without one by its port (commit_open).
SameStick ==
    run = "open" =>
        /\ bound = dev /\ dev \in open
        /\ selector # None => serial[dev[1]] = selector
        /\ first = mode
        /\ bound \in List => Identity(dev[1]) = first

Others == {s \in Sticks : Plugged(s) /\ dev # ConnOf(s)}

\* No stick is taken into use while the bus, as far as its events have been
\* delivered, leaves a choice: a second stick with the serial asked for, or
\* any second stick without a selector.  (A Rule B walk goes by its snapshot.)
NoAmbiguousOpen ==
    [][run # "open" /\ run' = "open" /\ pend = {} /\ ~RuleB =>
         \A s \in Others : mode.by = "serial" /\ serial[s] # mode.is]_vars

\* The attached sticks leave no doubt which one is to be opened, and it can be.
Eligible ==
    LET attached == {s \in Sticks : Plugged(s)}
        plain == {s \in attached : serial[s] = None}
        wanted == IF mode.by = "serial" THEN {s \in attached : serial[s] = mode.is}
                  ELSE IF mode.by = "port" THEN {s \in plain : at[s] = mode.is}
                  ELSE IF Cardinality(attached) = 1 THEN attached ELSE plain
    IN  /\ \A s \in attached : cond[s] = "ok"
        /\ Cardinality(wanted) = 1
        /\ mode.by # "serial" /\ Cardinality(attached) > 1 => Cardinality(plain) = 1

\* A selection waits for the next hotplug event only when the attached sticks
\* give it nothing to open: whatever changes, refusals, failed reads and
\* deadlines came before, a returned stick is not left waiting for an event
\* that never comes (g_retry_at, g_changes, g_force_reopen).
NoForgottenStick ==
    run = "lost" /\ phase = "idle" /\ timer.retry = "off" /\ ~force /\ pend = {} => ~Eligible
=============================================================================
