------------------------- MODULE StickSelectProofs -------------------------
(***************************************************************************)
(* Proofs about StickSelect, for any sticks, ports, serials and number of  *)
(* hotplug events: no handle is forgotten on any way out of a selection,   *)
(* the stick in use is the one asked for and, after a loss, the one used   *)
(* before, none is taken into use while the bus leaves a choice, and a     *)
(* selection that waits for an event only has nothing to open.             *)
(***************************************************************************)
EXTENDS StickSelect, FiniteSetTheorems, TLAPS

Opening == {"open", "check", "bind", "commit"}
Having == {"check", "bind", "commit", "look", "done"}   \* dev is open
Walking == {"walk", "look"}
TimerValues == [Timers -> {"off", "running", "passed"}]

RunInv ==
    /\ phase \in {"idle", "scan"} \cup Opening \cup Having \cup Walking
    /\ run \in {"start", "lost", "open", "refused", "stopped"}
    /\ phase = "done" <=> run = "open"
    /\ run \in {"refused", "stopped"} => phase = "idle"

\* What is open when: the opened stick from the open to the loss, the held
\* ones during a walk.
HandleInv ==
    /\ open = held \cup (IF dev = None THEN {} ELSE {dev})
    /\ dev # None <=> phase \in Having
    /\ dev # None => dev \notin held
    /\ held # {} => phase \in Walking

\* Every connection has its own cookie, so one that has gone never comes back.
CookieInv ==
    /\ changes \in Nat /\ changes <= MaxChanges
    /\ serial \in [Sticks -> Serials \cup {None}] /\ at \in [Sticks -> Ports \cup {None}]
    /\ cookie \in [Sticks -> Nat] /\ \A s \in Sticks : cookie[s] <= changes
    /\ cond \in [Sticks -> {"ok", "claimed", "slow", "denied", "unreadable"}]

Earlier(c) == c \in Sticks \X Nat /\ c[2] <= changes
DevInv == dev # None => Earlier(dev)

\* What is asked for: the selector, or what the first stick was.
ModeInv ==
    /\ mode = Any \/ mode = BySerial(mode.is) \/ mode = ByPort(mode.is)
    /\ mode = BySerial(mode.is) => mode.is # None
    /\ selector # None => mode = BySerial(selector)
    /\ mode = ByPort(mode.is) => first = mode
    /\ first # None => first = mode /\ mode # Any
    /\ run = "open" => first = mode /\ mode # Any

\* What the post-open checks have found stays so as long as the connection
\* is there.
CheckedInv ==
    /\ phase \in {"bind", "commit", "done"} =>
         /\ mode = BySerial(mode.is) => serial[dev[1]] = mode.is
         /\ mode = ByPort(mode.is) /\ dev \in List =>
               at[dev[1]] = mode.is /\ serial[dev[1]] = None
    /\ phase \in {"commit", "done"} => bound = dev
    /\ bound # None => phase \in {"commit", "done"}
    /\ phase = "commit" => dev \in List \/ left_bound \/ "bound left" \in pend

\* What never gets better while the stick is plugged in.
Bad == {"denied", "unreadable"}

\* A connection's deadline passes only when it stays as it is.
DeadlineInv ==
    /\ timer \in TimerValues
    /\ \A c \in todo \cup acc \cup late \cup seen : Earlier(c)
    /\ \A c \in late \cap List : cond[c[1]] \in Bad

\* Without a change since the scan began it tells the bus as it is: every
\* stick is still to be looked at or has one item, and each item is right.
Told(s) == \E i \in items : i.conn = ConnOf(s)
Right(i) ==
    /\ i.openable # "gone"
    /\ i.openable = "yes" => IF i.serial = "unread" THEN cond[i.conn[1]] = "unreadable"
                             ELSE i.serial = serial[i.conn[1]]
ScanTells ==
    /\ todo \cup seen \subseteq List
    /\ \A s \in Sticks : Plugged(s) => ConnOf(s) \in todo \/ Told(s)
    /\ \A i \in items : i.conn \in List /\ i.conn \notin todo /\ Right(i)
    /\ \A i, j \in items : i.conn = j.conn => i = j
ScanInv ==
    /\ IsFiniteSet(items)
    /\ phase = "scan" /\ ~Changed => ScanTells

\* The bus leaves no choice.
NoChoice ==
    \A s, t \in Sticks :
       /\ Plugged(s) /\ Plugged(t)
       /\ mode = BySerial(mode.is) => serial[s] = mode.is /\ serial[t] = mode.is
       => s = t

ChoiceInv ==
    /\ phase \in Opening /\ ~RuleB /\ ~Changed => NoChoice
    /\ phase \in Walking => RuleB
    /\ phase = "open" => ~RuleB

\* A walk looks for the only stick without a serial; a stick that is checked
\* is that one, or has the serial asked for.
OnePlain ==
    \/ \E s \in Sticks : Plugged(s) /\ cond[s] \in Bad
    \/ \A s, t \in Sticks : Plugged(s) /\ Plugged(t) /\ serial[s] = None /\ serial[t] = None
                           => s = t
WalkInv ==
    /\ phase \in Walking \cup {"check"} /\ RuleB => mode.by # "serial" /\ (~Changed => OnePlain)
    /\ phase = "check" => IF RuleB THEN serial[dev[1]] = None
                          ELSE mode.by = "serial" => serial[dev[1]] = mode.is

\* The attached sticks give nothing to open, and will not without an event.
Attached == {s \in Sticks : Plugged(s)}
Plain == {s \in Attached : serial[s] = None}
Wanted == IF mode.by = "serial" THEN {s \in Attached : serial[s] = mode.is}
          ELSE IF mode.by = "port" THEN {s \in Plain : at[s] = mode.is}
          ELSE IF Cardinality(Attached) = 1 THEN Attached ELSE Plain
Hopeless ==
    \/ \E s \in Attached : cond[s] \in Bad
    \/ Cardinality(Wanted) # 1
    \/ mode.by # "serial" /\ Cardinality(Attached) > 1 /\ Cardinality(Plain) # 1
WaitInv ==
    run = "lost" /\ phase = "idle" /\ timer.retry = "off" /\ ~force /\ pend = {} => Hopeless

Inv == /\ RunInv /\ HandleInv /\ CookieInv /\ DevInv /\ ModeInv /\ CheckedInv
       /\ DeadlineInv /\ ScanInv /\ ChoiceInv /\ WalkInv /\ WaitInv

-----------------------------------------------------------------------------
(* Facts about the records and the lists.                                   *)

\* A selector tells what it asks for by.
LEMMA SelectorFields ==
    ASSUME NEW v
    PROVE  /\ BySerial(v).by = "serial" /\ BySerial(v).is = v
           /\ ByPort(v).by = "port" /\ ByPort(v).is = v
           /\ Any.by = "any" /\ BySerial(v) # Any /\ ByPort(v) # Any
           /\ \A u : BySerial(v) # ByPort(u)
<1>1. BySerial(v).by = "serial" /\ BySerial(v).is = v
  BY DEF BySerial
<1>2. \A u : ByPort(u).by = "port" /\ ByPort(u).is = u
  BY DEF ByPort
<1>3. Any.by = "any"
  BY DEF Any
<1> QED
  BY <1>1, <1>2, <1>3

\* The connections on the bus, one for each plugged stick.
LEMMA Listed ==
    ASSUME CookieInv, NEW c \in Sticks \X Nat
    PROVE  c \in List <=> Plugged(c[1]) /\ c[2] = cookie[c[1]]
<1>1. c = <<c[1], c[2]>> /\ c[1] \in Sticks
  OBVIOUS
<1>2. \A s \in Sticks : ConnOf(s) = c <=> s = c[1] /\ cookie[s] = c[2]
  BY <1>1 DEF ConnOf
<1> QED
  BY <1>1, <1>2 DEF List

\* The item of a scanned connection: one in the list is not told as gone.
LEMMA ItemFields ==
    ASSUME CookieInv, NEW c
    PROVE  /\ ScanItem(c).conn = c
           /\ c \in List => Right(ScanItem(c))
<1>1. ScanItem(c).conn = c
  BY DEF ScanItem
<1>2. ScanItem(c).openable = IF c \notin List THEN "gone"
                             ELSE IF cond[c[1]] \in {"slow", "denied"} THEN "no" ELSE "yes"
  BY DEF ScanItem
<1>3. ScanItem(c).serial = IF cond[c[1]] \in {"slow", "denied", "unreadable"} THEN "unread"
                           ELSE serial[c[1]]
  BY DEF ScanItem
<1>4. c \in List => serial[c[1]] # "unread"
  <2> SUFFICES ASSUME c \in List PROVE serial[c[1]] # "unread"
    OBVIOUS
  <2>1. c[1] \in Sticks
    BY DEF List, ConnOf
  <2> QED
    BY <2>1, SelectAssumption DEF CookieInv
<1> QED
  BY <1>1, <1>2, <1>3, <1>4 DEF Right

\* The clock after the events, after an answer and after a walk.
LEMMA ClockTypes ==
    ASSUME timer \in TimerValues
    PROVE  /\ Timer \in TimerValues /\ Answered \in TimerValues
           /\ GapStarts(Timer) \in TimerValues /\ GapStarts(Answered) \in TimerValues
           /\ \A t \in TimerValues, x \in {"off", "running", "passed"} :
                 /\ [t EXCEPT !.retry = x] \in TimerValues
                 /\ [t EXCEPT !.retry = x].retry = x
<1>1. Timer \in TimerValues
  BY DEF Timer, TimerValues
<1>2. \A t \in TimerValues : GapStarts(t) \in TimerValues
  BY DEF TimerValues, Timers, GapStarts
<1>3. Answered \in TimerValues
  BY <1>1 DEF TimerValues, Timers, Answered
<1>4. \A t \in TimerValues, x \in {"off", "running", "passed"} :
        [t EXCEPT !.retry = x] \in TimerValues /\ [t EXCEPT !.retry = x].retry = x
  BY DEF TimerValues, Timers
<1> QED
  BY <1>1, <1>2, <1>3, <1>4

\* What a selection that finishes leaves: a lost stick is looked for again at
\* a time, except after a refusal on what no event has changed.
Waits(again) ==
    /\ phase' = "idle" /\ (run' = run \/ run' = "refused") /\ timer' \in TimerValues
    /\ run' = "lost" /\ timer'.retry = "off" => again

\* Every way a selection finishes waits.
LEMMA Finishes ==
    ASSUME timer \in TimerValues
    PROVE  /\ ClassifyAgain => Waits(FALSE)
           /\ Refuse => Waits(~Changed)
           /\ Transient => Waits(FALSE)
           /\ Busy(Timer) => Waits(FALSE)
           /\ Busy(GapStarts(Timer)) => Waits(FALSE)
<1> DEFINE tm == Timer
           an == Answered
           gp == GapStarts(Timer)
<1>1. tm \in TimerValues /\ an \in TimerValues /\ gp \in TimerValues
  BY ClockTypes
<1>2. ASSUME NEW t \in TimerValues, NEW x \in {"off", "running", "passed"}, FinishWait(t, x)
      PROVE  phase' = "idle" /\ timer' \in TimerValues /\ timer'.retry = x
  BY <1>2, ClockTypes DEF FinishWait
<1>3. ClassifyAgain => Waits(FALSE)
  <2> SUFFICES ASSUME ClassifyAgain PROVE Waits(FALSE)
    OBVIOUS
  <2>1. FinishWait(tm, "passed") /\ run' = run
    BY DEF ClassifyAgain
  <2> QED
    BY <1>1, <1>2, <2>1 DEF Waits
<1>4. Refuse => Waits(~Changed)
  <2> SUFFICES ASSUME Refuse PROVE Waits(~Changed)
    OBVIOUS
  <2>1. CASE ClassifyAgain
    BY <1>3, <2>1 DEF Waits
  <2>2. CASE ~ClassifyAgain
    <3>1. \/ run' = "refused" /\ FinishWait(an, "off")
          \/ run' = run /\ FinishWait(an, IF Changed THEN "running" ELSE "off")
      BY <2>2 DEF Refuse
    <3> QED
      BY <1>1, <1>2, <3>1 DEF Waits
  <2> QED
    BY <2>1, <2>2
<1>5. Transient => Waits(FALSE)
  <2> SUFFICES ASSUME Transient PROVE Waits(FALSE)
    OBVIOUS
  <2>1. CASE run = "start"
    <3>1. Refuse
      BY <2>1 DEF Transient
    <3> QED
      BY <1>4, <2>1, <3>1 DEF Waits
  <2>2. CASE run # "start"
    <3>1. FinishWait(tm, "running") /\ run' = run
      BY <2>2 DEF Transient
    <3> QED
      BY <1>1, <1>2, <3>1 DEF Waits
  <2> QED
    BY <2>1, <2>2
<1>6. ASSUME NEW t \in TimerValues, Busy(t) PROVE Waits(FALSE)
  <2>1. \/ run' = "refused" /\ FinishWait(t, "off")
        \/ run' = run /\ FinishWait(t, "running")
    BY <1>6 DEF Busy
  <2> QED
    BY <1>2, <2>1 DEF Waits
<1> QED
  BY <1>1, <1>3, <1>4, <1>5, <1>6

-----------------------------------------------------------------------------
(* When a selection gives up for good.                                      *)

\* A stick that stays denied or unreadable is in the way.
LEMMA BadStick ==
    ASSUME NEW c \in List, cond[c[1]] \in Bad
    PROVE  Hopeless
<1>1. PICK s \in Sticks : Plugged(s) /\ c = ConnOf(s)
  BY DEF List
<1>2. c[1] = s
  BY <1>1 DEF ConnOf
<1> QED
  BY <1>1, <1>2 DEF Hopeless, Attached

\* An expired deadline of the scan is that of such a stick.
LEMMA ExpiredHopeless ==
    ASSUME Inv, phase = "scan", ~Changed, late \cap seen # {}
    PROVE  Hopeless
<1>1. PICK c : c \in late /\ c \in seen
  OBVIOUS
<1>2. c \in List
  BY <1>1 DEF Inv, ScanInv, ScanTells
<1> QED
  BY <1>1, <1>2, BadStick DEF Inv, DeadlineInv

\* As many sticks as items that tell them.
LEMMA SameNumber ==
    ASSUME Inv, phase = "scan", ~Changed,
           NEW S \in SUBSET items, NEW T \in SUBSET Sticks,
           \A i \in S : i.conn[1] \in T,
           \A t \in T : \E i \in S : i.conn = ConnOf(t)
    PROVE  IsFiniteSet(T) /\ IsFiniteSet(S) /\ Cardinality(T) = Cardinality(S)
<1> DEFINE f == [i \in S |-> i.conn[1]]
<1>1. f \in [S -> T]
  OBVIOUS
<1>2. \A i \in S : i.conn = ConnOf(i.conn[1])
  <2> TAKE i \in S
  <2>1. i.conn \in List
    BY DEF Inv, ScanInv, ScanTells
  <2>2. PICK s \in Sticks : i.conn = ConnOf(s)
    BY <2>1 DEF List
  <2> QED
    BY <2>2 DEF ConnOf
<1>3. \A i, j \in S : f[i] = f[j] => i = j
  BY <1>2 DEF Inv, ScanInv, ScanTells
<1>4. \A t \in T : \E i \in S : f[i] = t
  <2> TAKE t \in T
  <2>1. PICK i \in S : i.conn = ConnOf(t)
    OBVIOUS
  <2>2. ConnOf(t)[1] = t
    BY DEF ConnOf
  <2> QED
    BY <2>1, <2>2
<1>5. f \in Bijection(S, T)
  BY <1>1, <1>3, <1>4 DEF Bijection, Injection, Surjection, IsInjective
<1>6. IsFiniteSet(S)
  BY FS_Subset DEF Inv, ScanInv
<1> QED
  BY <1>5, <1>6, FS_Bijection DEF ExistsBijection

\* A scan whose result is refused leaves nothing to open.
LEMMA RefusedHopeless ==
    ASSUME Inv, phase = "scan", todo = {}, ~Changed, ~OpenNow, ~AccessBlocks, ~WalkNow
    PROVE  Hopeless
<1>1. ScanTells
  BY DEF Inv, ScanInv
<1>2. ASSUME NEW i \in items
      PROVE  /\ i.conn[1] \in Attached /\ Right(i) /\ i.conn = ConnOf(i.conn[1])
             /\ i \in Present
  <2>1. i.conn \in List /\ Right(i)
    BY <1>1 DEF ScanTells
  <2>2. PICK s \in Sticks : Plugged(s) /\ i.conn = ConnOf(s)
    BY <2>1 DEF List
  <2>3. i.conn[1] = s
    BY <2>2 DEF ConnOf
  <2> QED
    BY <2>1, <2>2, <2>3 DEF Attached, Present, Right
<1>3. ASSUME NEW s \in Attached
      PROVE  \E i \in items : i.conn = ConnOf(s) /\ i.conn[1] = s
  BY <1>1 DEF ScanTells, Told, Attached, ConnOf
<1>4. SUFFICES ASSUME \A s \in Attached : cond[s] \notin Bad
               PROVE  Hopeless
  BY DEF Hopeless
<1>5. \A i \in items : i.openable = "yes" => i.serial # "unread" /\ i.serial = serial[i.conn[1]]
  BY <1>2, <1>4 DEF Right, Bad
<1>6. /\ IsFiniteSet(Attached) /\ IsFiniteSet(Present)
      /\ Cardinality(Attached) = Cardinality(Present)
  <2>1. Present \in SUBSET items /\ Attached \in SUBSET Sticks
    BY DEF Present, Attached
  <2> QED
    BY <1>2, <1>3, <2>1, SameNumber
<1>7. CASE mode.by = "serial"
  <2>1. \/ Cardinality(Match) # 1 /\ Unclear = {}
        \/ ~(Cardinality(Match) <= 1)
    BY <1>7 DEF OpenNow, AccessBlocks
  <2>2. CASE Unclear = {}
    <3>1. Match \in SUBSET items /\ Wanted \in SUBSET Sticks
      BY <1>7 DEF Match, Present, Wanted, Attached
    <3>2. \A i \in Match : i.conn[1] \in Wanted
      BY <1>2, <1>5, <1>7, <2>2 DEF Match, Wanted, Unclear, Present
    <3>3. \A s \in Wanted : \E i \in Match : i.conn = ConnOf(s)
      <4> TAKE s \in Wanted
      <4>1. s \in Attached /\ serial[s] = mode.is
        BY <1>7 DEF Wanted
      <4>2. PICK i \in items : i.conn = ConnOf(s) /\ i.conn[1] = s
        BY <1>3, <4>1
      <4>3. i \in Present /\ i \notin Unclear
        BY <1>2, <2>2
      <4> QED
        BY <1>5, <1>7, <4>1, <4>2, <4>3 DEF Match, Unclear
    <3>4. IsFiniteSet(Match) /\ Cardinality(Wanted) = Cardinality(Match)
      BY <3>1, <3>2, <3>3, SameNumber
    <3>5. Cardinality(Match) \in Nat
      BY <3>4, FS_CardinalityType
    <3>6. Cardinality(Match) # 1
      BY <2>1, <3>5
    <3> QED
      BY <3>4, <3>6 DEF Hopeless
  <2>3. CASE Unclear # {}
    <3>1. ~(Cardinality(Match) <= 1)
      BY <2>1, <2>3
    <3>2. IsFiniteSet(Match)
      BY <1>6, FS_Subset DEF Match
    <3>3. PICK i \in Match, j \in Match : i # j
      <4>1. Cardinality(Match) \in Nat /\ Cardinality(Match) # 0 /\ Cardinality(Match) # 1
        BY <3>1, <3>2, FS_CardinalityType
      <4>2. Match # {}
        BY <4>1, FS_EmptySet
      <4>3. PICK i : i \in Match
        BY <4>2
      <4>4. Match # {i}
        BY <4>1, FS_Singleton
      <4> QED
        BY <4>3, <4>4
    <3>4. /\ i \in items /\ j \in items /\ i.openable = "yes" /\ j.openable = "yes"
          /\ i.serial = mode.is /\ j.serial = mode.is
      BY DEF Match, Unclear, Present
    <3>5. i.conn[1] \in Wanted /\ j.conn[1] \in Wanted
      BY <1>2, <1>5, <1>7, <3>4 DEF Wanted
    <3>6. i.conn[1] # j.conn[1]
      BY <1>1, <1>2, <3>3, <3>4 DEF ScanTells
    <3>7. IsFiniteSet(Wanted)
      BY <1>6, <1>7, FS_Subset DEF Wanted
    <3>8. Cardinality(Wanted) # 1
      BY <3>5, <3>6, <3>7, FS_Singleton
    <3> QED
      BY <3>8 DEF Hopeless
  <2> QED
    BY <2>2, <2>3
<1>8. CASE mode.by # "serial"
  <2>1. Cardinality(Present) \in Nat
    BY <1>6, FS_CardinalityType
  <2>2. CASE Unopened = {}
    <3>1. Unclear = {}
      BY <1>5, <2>2 DEF Unclear, Unopened, Present
    <3>2. NoSerial \in SUBSET items /\ Plain \in SUBSET Sticks
      BY DEF NoSerial, Present, Plain, Attached
    <3>3. \A i \in NoSerial : i.conn[1] \in Plain
      BY <1>2, <1>5, <3>1 DEF NoSerial, Plain, Unclear, Present
    <3>4. \A s \in Plain : \E i \in NoSerial : i.conn = ConnOf(s)
      <4> TAKE s \in Plain
      <4>1. s \in Attached /\ serial[s] = None
        BY DEF Plain
      <4>2. PICK i \in items : i.conn = ConnOf(s) /\ i.conn[1] = s
        BY <1>3, <4>1
      <4>3. i \in Present /\ i \notin Unclear
        BY <1>2, <3>1
      <4> QED
        BY <1>5, <4>1, <4>2, <4>3 DEF NoSerial, Unclear
    <3>5. Cardinality(Plain) = Cardinality(NoSerial)
      BY <3>2, <3>3, <3>4, SameNumber
    <3>6. CASE Cardinality(Present) > 1
      <4>1. Cardinality(NoSerial) # 1
        BY <1>8, <2>2, <3>6 DEF WalkNow
      <4> QED
        BY <1>6, <1>8, <3>5, <3>6, <4>1 DEF Hopeless
    <3>7. CASE ~(Cardinality(Present) > 1)
      <4>1. Cardinality(Present) # 1
        BY <1>8, <2>2 DEF OpenNow
      <4>2. Cardinality(Attached) = 0
        BY <1>6, <2>1, <3>7, <4>1
      <4>3. Attached = {}
        BY <1>6, <4>2, FS_EmptySet
      <4>4. Wanted = {}
        BY <4>3 DEF Wanted, Plain
      <4> QED
        BY <4>4, FS_EmptySet DEF Hopeless
    <3> QED
      BY <3>6, <3>7
  <2>3. CASE Unopened # {}
    <3>1. Cardinality(Present) # 1 /\ ~(Cardinality(NoSerial) <= 1)
      BY <1>8, <2>3 DEF AccessBlocks
    <3>2. IsFiniteSet(NoSerial)
      BY <1>6, FS_Subset DEF NoSerial
    <3>3. PICK i \in NoSerial, j \in NoSerial : i # j
      <4>1. Cardinality(NoSerial) \in Nat /\ Cardinality(NoSerial) # 0 /\ Cardinality(NoSerial) # 1
        BY <3>1, <3>2, FS_CardinalityType
      <4>2. NoSerial # {}
        BY <4>1, FS_EmptySet
      <4>3. PICK i : i \in NoSerial
        BY <4>2
      <4>4. NoSerial # {i}
        BY <4>1, FS_Singleton
      <4> QED
        BY <4>3, <4>4
    <3>4. /\ i \in items /\ j \in items /\ i.openable = "yes" /\ j.openable = "yes"
          /\ i.serial = None /\ j.serial = None
      BY DEF NoSerial, Unclear, Present
    <3>5. i.conn[1] \in Plain /\ j.conn[1] \in Plain
      BY <1>2, <1>5, <3>4 DEF Plain
    <3>6. i.conn[1] # j.conn[1]
      BY <1>1, <1>2, <3>3, <3>4 DEF ScanTells
    <3>7. IsFiniteSet(Plain)
      BY <1>6, FS_Subset DEF Plain
    <3>8. Cardinality(Plain) # 1
      BY <3>5, <3>6, <3>7, FS_Singleton
    <3>9. Cardinality(Present) # 0
      BY <1>6, <2>3, FS_EmptySet DEF Unopened
    <3>10. Cardinality(Attached) > 1
      BY <1>6, <2>1, <3>1, <3>9
    <3> QED
      BY <1>8, <3>8, <3>10 DEF Hopeless
  <2> QED
    BY <2>2, <2>3
<1> QED
  BY <1>7, <1>8

-----------------------------------------------------------------------------
(* The bus, as a step of the selection and as its own steps leave it.       *)

\* What a step of the selection finds on the bus it leaves there.
LEMMA SameBus ==
    ASSUME CookieInv, UNCHANGED busVars
    PROVE  /\ CookieInv' /\ List' = List /\ serial' = serial /\ cond' = cond
           /\ \A s \in Sticks : (Plugged(s)' <=> Plugged(s)) /\ ConnOf(s)' = ConnOf(s)
           /\ \A c : Earlier(c)' <=> Earlier(c)
           /\ OnePlain' <=> OnePlain
  BY DEF CookieInv, Earlier, List, Plugged, ConnOf, busVars, OnePlain

\* A hopeless selection stays so.
LEMMA SameHope ==
    ASSUME UNCHANGED <<at, serial, mode>>, \A s \in Attached : cond[s] \in Bad => cond'[s] \in Bad,
           Hopeless
    PROVE  Hopeless'
<1>1. Attached' = Attached /\ Plain' = Plain
  BY DEF Attached, Plain, Plugged
<1>2. Wanted' = Wanted
  BY <1>1 DEF Wanted
<1> QED
  BY <1>1, <1>2 DEF Hopeless

\* The connections on the bus have had their cookies.
LEMMA ListEarlier ==
    ASSUME CookieInv, NEW c \in List
    PROVE  Earlier(c) /\ c # None
<1>1. PICK s \in Sticks : c = <<s, cookie[s]>>
  BY DEF List, ConnOf
<1>2. cookie[s] \in Nat /\ cookie[s] <= changes /\ changes <= MaxChanges /\ changes \in Nat
  BY DEF CookieInv
<1>3. cookie[s] \in 0 .. MaxChanges
  BY <1>2, SelectAssumption
<1>4. c \in Sticks \X (0 .. MaxChanges) /\ c[2] = cookie[s]
  BY <1>1, <1>3
<1> QED
  BY <1>1, <1>2, <1>4, SelectAssumption DEF Earlier

\* The deadlines of connections known before stay right.
LEMMA SameDeadlines ==
    ASSUME CookieInv, DeadlineInv, UNCHANGED busVars, timer' \in TimerValues,
           todo' \cup acc' \cup seen' \subseteq todo \cup acc \cup seen \cup List,
           late' \subseteq late
    PROVE  DeadlineInv'
<1>1. List' = List /\ cond' = cond /\ \A c : Earlier(c)' <=> Earlier(c)
  BY SameBus
<1>2. \A c \in todo \cup acc \cup late \cup seen \cup List : Earlier(c)
  BY ListEarlier DEF DeadlineInv
<1> QED
  BY <1>1, <1>2 DEF DeadlineInv

-----------------------------------------------------------------------------
(* Steps that finish a selection.                                           *)

\* A selection that finishes has closed what it opened.
ToIdle ==
    /\ phase' = "idle" /\ dev' = None /\ held' = {} /\ open' = {} /\ bound' = None
    /\ run' \in {"start", "lost", "refused", "stopped"}
    /\ items' \in {items, {}} /\ timer' \in TimerValues
    /\ todo' \subseteq todo /\ acc' \subseteq acc \cup seen
    /\ seen' \subseteq seen /\ late' \subseteq late
    /\ WaitInv'
    /\ UNCHANGED <<busVars, mode, first, selector>>

\* Such a step preserves the invariant.
LEMMA IdleStep ==
    ASSUME Inv, ToIdle
    PROVE  Inv'
<1> USE DEF ToIdle, Inv
<1>1. RunInv'
  BY DEF RunInv
<1>2. HandleInv'
  BY DEF HandleInv, Having, Walking
<1>3. CookieInv' /\ DevInv'
  BY SameBus DEF DevInv
<1>4. ModeInv'
  BY DEF ModeInv
<1>5. CheckedInv'
  BY DEF CheckedInv
<1>6. ScanInv'
  BY FS_EmptySet DEF ScanInv
<1>7. ChoiceInv' /\ WalkInv'
  BY DEF ChoiceInv, WalkInv, Opening, Walking
<1>8. DeadlineInv'
  BY SameDeadlines
<1> QED
  BY <1>1, <1>2, <1>3, <1>4, <1>5, <1>6, <1>7, <1>8

\* What a step has to do to be one.
Closes ==
    /\ dev' = None /\ held' = {} /\ open' = {} /\ bound' = None
    /\ items' \in {items, {}}
    /\ todo' \subseteq todo /\ acc' \subseteq acc \cup seen
    /\ seen' \subseteq seen /\ late' \subseteq late
    /\ UNCHANGED <<busVars, mode, first, selector>>

\* Then it finishes the selection, hopeless if it leaves no time to look again.
LEMMA ClosesIdle ==
    ASSUME Inv, phase # "done", Closes, Waits(Hopeless)
    PROVE  ToIdle
<1>1. WaitInv'
  <2>1. Hopeless => Hopeless'
    BY SameHope DEF Closes, busVars
  <2> QED
    BY <2>1 DEF WaitInv, Waits
<1>2. run' \in {"start", "lost", "refused", "stopped"}
  BY DEF Inv, RunInv, Waits
<1> QED
  BY <1>1, <1>2 DEF ToIdle, Closes, Waits

\* Which steps finish a selection.
LEMMA Idle ==
    ASSUME Inv
    PROVE  /\ ScanFails => ToIdle
           /\ ScanExpires => ToIdle
           /\ DecideAccess => ToIdle
           /\ DecideRefuse => ToIdle
           /\ OpenFails => ToIdle
           /\ BindFails => ToIdle
           /\ WalkGivesUp => ToIdle
           /\ WalkOpenFails => ToIdle
           /\ Lose => ToIdle
           /\ Shutdown => ToIdle
<1>0. RunInv /\ HandleInv /\ CheckedInv /\ timer \in TimerValues
  BY DEF Inv, DeadlineInv
<1>a. /\ Timer \in TimerValues /\ Answered \in TimerValues /\ GapStarts(Timer) \in TimerValues
      /\ \A t \in TimerValues, x \in {"off", "running", "passed"} :
           [t EXCEPT !.retry = x] \in TimerValues /\ [t EXCEPT !.retry = x].retry = x
  BY <1>0, ClockTypes
<1>b. \A t \in TimerValues : FinishWait(t, "running") \/ FinishWait(t, "passed") =>
         /\ phase' = "idle" /\ timer' \in TimerValues /\ timer'.retry # "off"
  BY <1>a DEF FinishWait
<1>c. /\ phase \notin Having => dev = None
      /\ phase \notin Walking => held = {}
      /\ phase \notin {"commit", "done"} => bound = None
      /\ open = held \cup (IF dev = None THEN {} ELSE {dev})
  BY <1>0 DEF HandleInv, CheckedInv
<1>1. ASSUME ScanFails PROVE ToIdle
  <2>1. Closes /\ phase # "done"
    BY <1>1, <1>c DEF ScanFails, Closes, Having, Walking, scanVars, accVars
  <2>2. Waits(Hopeless)
    <3>1. \/ run' = "refused" /\ FinishWait(Answered, "off")
          \/ run' = run /\ FinishWait(Timer, "running")
      BY <1>1 DEF ScanFails
    <3> QED
      BY <1>a, <1>b, <3>1 DEF Waits, FinishWait
  <2> QED
    BY <2>1, <2>2, ClosesIdle
<1>2. ASSUME ScanExpires PROVE ToIdle
  <2>1. Closes /\ phase = "scan" /\ late \cap seen # {}
    BY <1>2, <1>c
    DEF ScanExpires, AccessExpired, ScanExpired, Closes, Having, Walking, accVars
  <2>2. Waits(~Changed)
    BY <1>2, <1>0, Finishes DEF ScanExpires, AccessExpired
  <2>3. Waits(Hopeless)
    BY <2>1, <2>2, ExpiredHopeless DEF Waits
  <2> QED
    BY <2>1, <2>3, ClosesIdle
<1>3. ASSUME DecideAccess PROVE ToIdle
  <2>1. Closes /\ phase = "scan"
    BY <1>3, <1>c
    DEF DecideAccess, Deciding, Closes, Having, Walking, KeepSeen, DropDeadlines
  <2>2. Waits(FALSE) \/ (Waits(~Changed) /\ late \cap seen # {})
    BY <1>3, <1>0, <1>a, <1>b, Finishes DEF DecideAccess, Waits
  <2>3. Waits(Hopeless)
    BY <2>1, <2>2, ExpiredHopeless DEF Waits
  <2> QED
    BY <2>1, <2>3, ClosesIdle
<1>4. ASSUME DecideRefuse PROVE ToIdle
  <2>1. Closes /\ phase = "scan" /\ todo = {} /\ ~OpenNow /\ ~AccessBlocks /\ ~WalkNow
    BY <1>4, <1>c
    DEF DecideRefuse, Deciding, Closes, Having, Walking, KeepSeen, DropDeadlines
  <2>2. Waits(~Changed)
    BY <1>4, <1>0, Finishes DEF DecideRefuse
  <2>3. Waits(Hopeless)
    BY <2>1, <2>2, RefusedHopeless DEF Waits
  <2> QED
    BY <2>1, <2>3, ClosesIdle
<1>5. ASSUME OpenFails PROVE ToIdle
  <2>1. Closes /\ phase # "done"
    BY <1>5, <1>c DEF OpenFails, Closes, Having, Walking, scanVars, accVars
  <2>2. Waits(FALSE)
    BY <1>5, <1>0, Finishes DEF OpenFails
  <2> QED
    BY <2>1, <2>2, ClosesIdle DEF Waits
<1>6. ASSUME BindFails PROVE ToIdle
  <2>1. Closes /\ phase # "done"
    BY <1>6, <1>c DEF BindFails, CloseDev, Closes, Having, Walking, scanVars, accVars
  <2>2. Waits(FALSE)
    BY <1>6, <1>0, Finishes DEF BindFails
  <2> QED
    BY <2>1, <2>2, ClosesIdle DEF Waits
<1>7. ASSUME WalkGivesUp PROVE ToIdle
  <2>1. Closes /\ phase # "done"
    BY <1>7, <1>c DEF WalkGivesUp, ReleaseHeld, Closes, Having, Walking, scanVars, accVars
  <2>2. Waits(FALSE)
    BY <1>7, <1>0, <1>a, <1>b, Finishes DEF WalkGivesUp, Waits
  <2> QED
    BY <2>1, <2>2, ClosesIdle DEF Waits
<1>8. ASSUME WalkOpenFails PROVE ToIdle
  <2>1. Closes /\ phase # "done"
    BY <1>8, <1>c DEF WalkOpenFails, ReleaseHeld, Closes, Having, Walking, scanVars, accVars
  <2>2. Waits(FALSE)
    BY <1>8, <1>0, Finishes DEF WalkOpenFails
  <2> QED
    BY <2>1, <2>2, ClosesIdle DEF Waits
<1>9. ASSUME Lose PROVE ToIdle
  <2>1. /\ phase = "done" /\ phase' = "idle" /\ run' = "lost" /\ force' = TRUE
        /\ timer' = [timer EXCEPT !.retry = "off"]
    BY <1>9, <1>0 DEF Lose, RunInv
  <2>2. Closes
    BY <1>9, <1>c, <2>1 DEF Lose, Closes, Walking, scanVars, accVars
  <2> QED
    BY <1>0, <1>a, <2>1, <2>2 DEF ToIdle, Closes, WaitInv
<1>10. ASSUME Shutdown PROVE ToIdle
  <2>1. phase' = "idle" /\ run' = "stopped" /\ timer' = timer
    BY <1>10 DEF Shutdown
  <2>2. Closes
    BY <1>10, <1>c DEF Shutdown, Closes, DropDeadlines
  <2> QED
    BY <1>0, <2>1, <2>2 DEF ToIdle, Closes, WaitInv
<1> QED
  BY <1>1, <1>2, <1>3, <1>4, <1>5, <1>6, <1>7, <1>8, <1>9, <1>10

-----------------------------------------------------------------------------
(* The bus and the clock.                                                   *)

\* The bus and the clock leave the selection alone.
Around ==
    UNCHANGED <<open, bound, left_bound, mode, phase, dev, held, run, selector, serial, first,
                snap, todo, items, changed, acc, seen, force>>

\* What the bus does to the connections: one that is new has a cookie no
\* earlier one had, and none comes or leaves in silence.
BusEffect ==
    /\ Around
    /\ changes' \in Nat /\ changes <= changes' /\ changes' <= MaxChanges
    /\ at' \in [Sticks -> Ports \cup {None}] /\ cookie' \in [Sticks -> Nat]
    /\ cond' \in [Sticks -> {"ok", "claimed", "slow", "denied", "unreadable"}]
    /\ pend \subseteq pend' /\ (pend' = {} => at' = at)
    /\ \A s \in Sticks :
         /\ cookie'[s] <= changes'
         /\ Plugged(s) => cookie'[s] = cookie[s]
         /\ at'[s] # None => \/ at'[s] = at[s] /\ cookie'[s] = cookie[s]
                             \/ cookie'[s] > changes /\ "arrived" \in pend'
         /\ Plugged(s) /\ at'[s] = None =>
                (IF ConnOf(s) = bound THEN "bound left" ELSE "left") \in pend'
         /\ Plugged(s) /\ at'[s] # None /\ cond[s] \in Bad => cond'[s] = cond[s]

\* What the clock does: a deadline passes for a connection that is gone or
\* stays as it is.
ClockEffect ==
    /\ timer' \in TimerValues
    /\ timer.retry = "off" \/ timer'.retry # "off"
    /\ \/ late' = late
       \/ /\ UNCHANGED busVars
          /\ \E c \in acc : late' = late \cup {c} /\ (c \in List => cond[c[1]] \in Bad)

\* The steps that have these effects.
LEMMA BusSteps ==
    ASSUME CookieInv, timer \in TimerValues
    PROVE  /\ Bus => BusEffect /\ ClockEffect
           /\ Clock => BusEffect /\ ClockEffect
           /\ Ended => BusEffect /\ ClockEffect
           /\ vars' = vars => BusEffect /\ ClockEffect
<1> USE SelectAssumption DEF CookieInv
<1>0. ASSUME UNCHANGED <<timer, late>> PROVE ClockEffect
  BY <1>0 DEF ClockEffect
<1>1. ASSUME UNCHANGED <<at, changes, cookie>>, Around, pend \subseteq pend',
             cond' \in [Sticks -> {"ok", "claimed", "slow", "denied", "unreadable"}],
             \A s \in Sticks : cond[s] \in Bad => cond'[s] = cond[s]
      PROVE  BusEffect
  <2>1. /\ changes' \in Nat /\ changes <= changes' /\ changes' <= MaxChanges
        /\ at' \in [Sticks -> Ports \cup {None}] /\ cookie' \in [Sticks -> Nat]
    BY <1>1
  <2>2. ASSUME NEW s \in Sticks
        PROVE  /\ cookie'[s] <= changes'
               /\ cookie'[s] = cookie[s] /\ at'[s] = at[s]
    BY <1>1
  <2> QED
    BY <1>1, <2>1, <2>2 DEF BusEffect, Plugged
<1>2. ASSUME NEW s \in Sticks, NEW p \in Ports, Plug(s, p) PROVE BusEffect /\ ClockEffect
  <2>1. Around /\ pend' = pend \cup {"arrived"} /\ UNCHANGED <<timer, late>>
    BY <1>2 DEF Plug, Around, fixed, scanVars, accVars
  <2>2. /\ at[s] = None /\ at' = [at EXCEPT ![s] = p]
        /\ changes < MaxChanges /\ changes' = changes + 1
        /\ cookie' = [cookie EXCEPT ![s] = changes']
    BY <1>2 DEF Plug, Plugged
  <2>3. /\ changes' \in Nat /\ changes <= changes' /\ changes' <= MaxChanges
        /\ at' \in [Sticks -> Ports \cup {None}] /\ cookie' \in [Sticks -> Nat]
    BY <2>2
  <2>4. PICK c \in Conditions : cond' = [cond EXCEPT ![s] = c]
    BY <1>2 DEF Plug
  <2>5. /\ cond' \in [Sticks -> {"ok", "claimed", "slow", "denied", "unreadable"}]
        /\ \A t \in Sticks : t # s => cond'[t] = cond[t]
    BY <2>4
  <2>6. ASSUME NEW t \in Sticks, t # s
        PROVE  at'[t] = at[t] /\ cookie'[t] = cookie[t] /\ cookie'[t] <= changes'
    BY <2>2, <2>3, <2>6
  <2>7. at'[s] = p /\ cookie'[s] = changes' /\ changes' > changes /\ changes' <= changes'
    BY <2>2, <2>3
  <2> QED
    BY <1>0, <2>1, <2>2, <2>3, <2>5, <2>6, <2>7 DEF BusEffect, Plugged
<1>3. ASSUME NEW s \in Sticks, Unplug(s) PROVE BusEffect /\ ClockEffect
  <2>1. /\ Around /\ pend' = pend \cup {IF ConnOf(s) = bound THEN "bound left" ELSE "left"}
        /\ UNCHANGED <<timer, late>>
    BY <1>3 DEF Unplug, Around, fixed, scanVars, accVars
  <2>2. /\ at' = [at EXCEPT ![s] = None] /\ cookie' = cookie
        /\ cond' = [cond EXCEPT ![s] = "ok"]
        /\ changes < MaxChanges /\ changes' = changes + 1
    BY <1>3 DEF Unplug
  <2>3. /\ changes' \in Nat /\ changes <= changes' /\ changes' <= MaxChanges
        /\ at' \in [Sticks -> Ports \cup {None}] /\ cookie' \in [Sticks -> Nat]
        /\ cond' \in [Sticks -> {"ok", "claimed", "slow", "denied", "unreadable"}]
    BY <2>2
  <2>4. ASSUME NEW t \in Sticks
        PROVE  /\ cookie'[t] = cookie[t] /\ cookie'[t] <= changes'
               /\ t # s => at'[t] = at[t] /\ cond'[t] = cond[t]
    BY <2>2, <2>3
  <2>5. at'[s] = None
    BY <2>2
  <2> QED
    BY <1>0, <2>1, <2>3, <2>4, <2>5 DEF BusEffect, Plugged
<1>4. ASSUME NEW s \in Sticks, Recover(s) PROVE BusEffect /\ ClockEffect
  <2>1. cond' = [cond EXCEPT ![s] = "ok"] /\ cond[s] \in {"claimed", "slow"}
    BY <1>4 DEF Recover
  <2>2. UNCHANGED <<at, changes, cookie, timer, late, pend>> /\ Around
    BY <1>4 DEF Recover, Around, scanVars, accVars
  <2>3. /\ cond' \in [Sticks -> {"ok", "claimed", "slow", "denied", "unreadable"}]
        /\ \A t \in Sticks : cond[t] \in Bad => cond'[t] = cond[t]
    BY <2>1 DEF Bad
  <2> QED
    BY <1>0, <1>1, <2>2, <2>3
<1>5. ASSUME Flood PROVE BusEffect /\ ClockEffect
  BY <1>0, <1>1, <1>5 DEF Flood, Around, scanVars, accVars, busVars
<1>6. ASSUME NEW t \in Timers, TimerPasses(t) PROVE BusEffect /\ ClockEffect
  <2>1. /\ timer[t] = "running" /\ late' = late
        /\ timer' = [timer EXCEPT ![t] = IF t = "gap" THEN "off" ELSE "passed"]
    BY <1>6 DEF TimerPasses, accVars
  <2>2. timer' \in TimerValues /\ (timer.retry = "off" \/ timer'.retry # "off")
    BY <2>1 DEF TimerValues, Timers
  <2> QED
    BY <1>1, <1>6, <2>1, <2>2
    DEF ClockEffect, TimerPasses, Around, scanVars, accVars, busVars
<1>7. ASSUME NEW c \in Conn, DeadlinePasses(c) PROVE BusEffect /\ ClockEffect
  BY <1>1, <1>7 DEF ClockEffect, DeadlinePasses, Around, scanVars, busVars, Bad
<1>8. ASSUME vars' = vars PROVE BusEffect /\ ClockEffect
  BY <1>0, <1>1, <1>8 DEF vars, Around
<1> QED
  BY <1>2, <1>3, <1>4, <1>5, <1>6, <1>7, <1>8 DEF Bus, Clock, Ended

\* A connection on the bus was there before, at the same port, and as bad;
\* one that leaves while it is bound is announced.
LEMMA NoReturn ==
    ASSUME CookieInv, BusEffect, CookieInv',
           NEW c, Earlier(c)
    PROVE  /\ c \in List' => c \in List /\ at'[c[1]] = at[c[1]]
           /\ c \in List' /\ cond[c[1]] \in Bad => cond'[c[1]] = cond[c[1]]
           /\ c \in List /\ c \notin List' /\ c = bound => "bound left" \in pend'
<1>1. c \in List' <=> at'[c[1]] # None /\ c[2] = cookie'[c[1]]
  <2>1. c = <<c[1], c[2]>> /\ c[1] \in Sticks
    BY DEF Earlier
  <2>2. \A s \in Sticks : <<s, cookie'[s]>> = c <=> s = c[1] /\ cookie'[s] = c[2]
    BY <2>1
  <2> QED
    BY <2>1, <2>2 DEF List, ConnOf, Plugged
<1>2. c \in List <=> at[c[1]] # None /\ c[2] = cookie[c[1]]
  BY Listed DEF Plugged, Earlier
<1>3. PICK s \in Sticks, n \in Nat : c[1] = s /\ c[2] = n /\ c = <<s, n>> /\ n <= changes
  BY DEF Earlier
<1>4. cookie'[s] \in Nat /\ cookie[s] \in Nat /\ changes \in Nat
  BY DEF CookieInv
<1>5. /\ at[s] # None => cookie'[s] = cookie[s]
      /\ at'[s] # None => (at'[s] = at[s] /\ cookie'[s] = cookie[s]) \/ cookie'[s] > changes
      /\ at[s] # None /\ at'[s] = None /\ <<s, cookie[s]>> = bound => "bound left" \in pend'
      /\ at[s] # None /\ at'[s] # None /\ cond[s] \in Bad => cond'[s] = cond[s]
  BY DEF BusEffect, Plugged, ConnOf
<1>6. /\ c \in List' <=> at'[s] # None /\ n = cookie'[s]
      /\ c \in List <=> at[s] # None /\ n = cookie[s]
  BY <1>1, <1>2, <1>3
<1>7. ~(n > changes)
  BY <1>3, <1>4
<1>8. c \in List' => c \in List /\ at'[s] = at[s]
  BY <1>5, <1>6, <1>7
<1>9. c \in List /\ c \notin List' /\ c = bound => "bound left" \in pend'
  BY <1>3, <1>5, <1>6
<1>10. c \in List' /\ cond[s] \in Bad => cond'[s] = cond[s]
  BY <1>5, <1>6, <1>8
<1> QED
  BY <1>3, <1>8, <1>9, <1>10

\* While nothing is bound, a bus whose events tell no change has not changed.
LEMMA QuietBus ==
    ASSUME CookieInv, BusEffect, ~Changed', bound = None
    PROVE  /\ List' = List
           /\ \A s \in Sticks : /\ (Plugged(s)' <=> Plugged(s))
                                /\ Plugged(s) => ConnOf(s)' = ConnOf(s)
                                /\ Plugged(s) /\ cond[s] \in Bad => cond'[s] = cond[s]
<1>1. "arrived" \notin pend' /\ "left" \notin pend'
  BY DEF Changed, NewChange, NewArrival
<1>2. \A s \in Sticks : Plugged(s) => ConnOf(s) # bound
  BY ListEarlier DEF List
<1>3. \A s \in Sticks : /\ (Plugged(s)' <=> Plugged(s))
                        /\ Plugged(s) => ConnOf(s)' = ConnOf(s)
                        /\ Plugged(s) /\ cond[s] \in Bad => cond'[s] = cond[s]
  <2> TAKE s \in Sticks
  <2>1. /\ Plugged(s) => cookie'[s] = cookie[s]
        /\ at'[s] # None => at'[s] = at[s] /\ cookie'[s] = cookie[s]
        /\ Plugged(s) => at'[s] # None
        /\ Plugged(s) /\ at'[s] # None /\ cond[s] \in Bad => cond'[s] = cond[s]
    BY <1>1, <1>2 DEF BusEffect
  <2> QED
    BY <2>1 DEF Plugged, ConnOf
<1> QED
  BY <1>3 DEF List

\* The bus and the clock preserve the invariant.
LEMMA BusStep ==
    ASSUME Inv, BusEffect, ClockEffect
    PROVE  Inv'
<1> USE DEF Inv
<1>1. /\ UNCHANGED <<open, bound, left_bound, mode, phase, dev, held, run, selector, serial,
                     first, snap, todo, items, changed, acc, seen, force>>
      /\ pend \subseteq pend'
  BY DEF BusEffect, Around
<1>2. RunInv' /\ HandleInv' /\ ModeInv'
  BY <1>1 DEF RunInv, HandleInv, ModeInv
<1>3. CookieInv'
  BY <1>1 DEF CookieInv, BusEffect
<1>4. ASSUME NEW c, Earlier(c) PROVE Earlier(c)'
  <2>1. changes \in Nat /\ changes' \in Nat /\ changes <= changes'
    BY DEF CookieInv, BusEffect
  <2>2. PICK n \in Nat : c[2] = n /\ n <= changes
    BY <1>4 DEF Earlier
  <2> QED
    BY <1>4, <2>1, <2>2 DEF Earlier
<1>5. DevInv'
  BY <1>1, <1>4 DEF DevInv
<1>6. CheckedInv'
  <2>1. ASSUME dev # None
        PROVE  /\ dev \in List' => dev \in List /\ at'[dev[1]] = at[dev[1]]
               /\ dev \in List /\ dev \notin List' /\ dev = bound => "bound left" \in pend'
    BY <1>3, <2>1, NoReturn DEF DevInv
  <2> QED
    BY <1>1, <2>1 DEF CheckedInv, HandleInv, Having
<1>7. DeadlineInv'
  <2>1. \A c \in todo' \cup acc' \cup late' \cup seen' : Earlier(c) /\ Earlier(c)'
    BY <1>1, <1>4 DEF DeadlineInv, ClockEffect
  <2>2. ASSUME NEW c \in late', c \in List'
        PROVE  cond'[c[1]] \in Bad
    <3>1. c \in List /\ (cond[c[1]] \in Bad => cond'[c[1]] = cond[c[1]])
      BY <1>3, <2>1, <2>2, NoReturn
    <3> QED
      BY <2>2, <3>1 DEF ClockEffect, DeadlineInv
  <2> QED
    BY <2>1, <2>2 DEF DeadlineInv, ClockEffect
<1>8. ~Changed' => ~Changed
  BY <1>1 DEF Changed, NewChange, NewArrival
<1>9. ASSUME ~Changed'
      PROVE  \A s \in Sticks : Plugged(s)' => Plugged(s) /\ ConnOf(s)' = ConnOf(s)
  BY <1>1, <1>9 DEF Changed, NewChange, NewArrival, BusEffect, Plugged, ConnOf
<1>10. ScanInv'
  <2>1. SUFFICES ASSUME phase = "scan", ~Changed' PROVE ScanTells'
    BY <1>1 DEF ScanInv
  <2>2. bound = None
    BY <2>1 DEF CheckedInv
  <2>3. /\ List' = List
        /\ \A s \in Sticks : /\ (Plugged(s)' <=> Plugged(s))
                             /\ Plugged(s) => ConnOf(s)' = ConnOf(s)
                             /\ Plugged(s) /\ cond[s] \in Bad => cond'[s] = cond[s]
    BY <2>1, <2>2, QuietBus
  <2>4. ScanTells
    BY <1>8, <2>1 DEF ScanInv
  <2>5. ASSUME NEW i \in items PROVE Right(i)'
    <3>1. i.conn \in List /\ Right(i)
      BY <2>4 DEF ScanTells
    <3>2. PICK s \in Sticks : Plugged(s) /\ i.conn[1] = s
      BY <3>1 DEF List, ConnOf
    <3> QED
      BY <1>1, <2>3, <3>1, <3>2 DEF Right, Bad
  <2> QED
    BY <1>1, <2>3, <2>4, <2>5 DEF ScanTells, Told
<1>11. ChoiceInv'
  BY <1>1, <1>8, <1>9 DEF ChoiceInv, NoChoice, RuleB
<1>12. WalkInv'
  <2>1. ASSUME phase \in Walking \cup {"check"}, ~Changed', OnePlain PROVE OnePlain'
    <3>1. bound = None
      BY <2>1 DEF CheckedInv, Walking
    <3> QED
      BY <1>1, <2>1, <3>1, QuietBus DEF OnePlain
  <2> QED
    BY <1>1, <1>8, <2>1 DEF WalkInv, RuleB
<1>13. WaitInv'
  <2>1. SUFFICES ASSUME run = "lost", phase = "idle", timer'.retry = "off", ~force, pend' = {}
                 PROVE  Hopeless'
    BY <1>1 DEF WaitInv
  <2>2. Hopeless /\ at' = at
    BY <1>1, <2>1 DEF WaitInv, ClockEffect, BusEffect
  <2>3. \A s \in Attached : cond[s] \in Bad => cond'[s] \in Bad
    BY <2>2 DEF BusEffect, Attached, Plugged
  <2> QED
    BY <1>1, <2>2, <2>3, SameHope
<1> QED
  BY <1>2, <1>3, <1>5, <1>6, <1>7, <1>10, <1>11, <1>12, <1>13

-----------------------------------------------------------------------------
(* The steps of a selection, while the bus stands still.                    *)

\* Taking the events keeps what they told.
LEMMA TakeKeeps ==
    ASSUME Take, changed' = Changed
    PROVE  Changed' <=> Changed
  BY DEF Take, Changed, NewChange, NewArrival

\* A scan begins with the connections of the list.
LEMMA ScanBeginStep ==
    ASSUME Inv, ScanBegin
    PROVE  Inv'
<1> USE DEF Inv
<1>1. /\ Selecting /\ phase = "idle" /\ phase' = "scan"
      /\ todo' = List /\ items' = {} /\ seen' = {} /\ acc' = acc /\ late' = late
      /\ UNCHANGED <<busVars, open, bound, mode, snap, held, dev, run, selector, first>>
  BY DEF ScanBegin
<1>2. /\ CookieInv' /\ List' = List
      /\ \A s \in Sticks : (Plugged(s)' <=> Plugged(s)) /\ ConnOf(s)' = ConnOf(s)
  BY <1>1, SameBus
<1>3. RunInv' /\ HandleInv' /\ DevInv'
  BY <1>1, SameBus DEF RunInv, HandleInv, DevInv, Selecting, Having, Walking
<1>4. ModeInv' /\ CheckedInv'
  BY <1>1 DEF ModeInv, CheckedInv
<1>5. ScanInv'
  <2>1. IsFiniteSet(items')
    BY <1>1, FS_EmptySet
  <2>2. \A s \in Sticks : Plugged(s) => ConnOf(s) \in List
    BY DEF List
  <2> QED
    BY <1>1, <1>2, <2>1, <2>2 DEF ScanInv, ScanTells
<1>6. ChoiceInv' /\ WalkInv' /\ WaitInv'
  BY <1>1 DEF ChoiceInv, WalkInv, WaitInv, Opening, Walking
<1>7. DeadlineInv'
  <2>1. timer \in TimerValues /\ timer' = [Timer EXCEPT !.retry = "off"]
    BY DEF ScanBegin, DeadlineInv
  <2>2. timer' \in TimerValues
    BY <2>1, ClockTypes
  <2> QED
    BY <1>1, <2>2, SameDeadlines
<1> QED
  BY <1>2, <1>3, <1>4, <1>5, <1>6, <1>7

\* The item of a connection tells the stick that has it.
LEMMA ScanStepStep ==
    ASSUME Inv, NEW c \in Conn, ScanStep(c)
    PROVE  Inv'
<1> USE DEF Inv
<1>1. /\ Selecting /\ phase = "scan" /\ phase' = "scan" /\ Take /\ changed' = Changed
      /\ c \in todo /\ todo' = todo \ {c} /\ items' = items \cup {ScanItem(c)}
      /\ acc' \subseteq acc \cup {c} /\ seen' \subseteq seen \cup {c} /\ late' \subseteq late
      /\ timer' = Timer
      /\ UNCHANGED <<busVars, open, bound, mode, snap, held, dev, run, selector, first>>
  BY DEF ScanStep
<1>2. /\ CookieInv' /\ serial' = serial /\ cond' = cond /\ List' = List
      /\ \A s \in Sticks : (Plugged(s)' <=> Plugged(s)) /\ ConnOf(s)' = ConnOf(s)
  BY <1>1, SameBus
<1>3. RunInv' /\ HandleInv' /\ DevInv'
  BY <1>1, SameBus DEF RunInv, HandleInv, DevInv, Selecting, Having, Walking
<1>4. ModeInv' /\ CheckedInv'
  BY <1>1 DEF ModeInv, CheckedInv
<1>5. ScanInv'
  <2>1. IsFiniteSet(items')
    BY <1>1, FS_AddElement DEF ScanInv
  <2>2. SUFFICES ASSUME ~Changed' PROVE ScanTells'
    BY <2>1 DEF ScanInv
  <2>3. ScanTells
    BY <1>1, <2>2, TakeKeeps DEF ScanInv
  <2>4. c \in List
    BY <1>1, <2>3 DEF ScanTells
  <2> DEFINE new == ScanItem(c)
  <2>5. new.conn = c /\ Right(new)
    BY <2>4, ItemFields
  <2> HIDE DEF new
  <2>6. \A i : Right(i)' <=> Right(i)
    BY <1>2 DEF Right
  <2>7. (todo \cup seen \subseteq List)'
    BY <1>1, <1>2, <2>3, <2>4 DEF ScanTells
  <2>8. \A s \in Sticks : Plugged(s)' => ConnOf(s)' \in todo' \/ Told(s)'
    BY <1>1, <1>2, <2>3, <2>5 DEF ScanTells, Told, new
  <2>9. \A i \in items' : i.conn \in List' /\ i.conn \notin todo' /\ Right(i)'
    BY <1>1, <1>2, <2>3, <2>4, <2>5, <2>6 DEF ScanTells, new
  <2>10. \A i, j \in items' : i.conn = j.conn => i = j
    BY <1>1, <2>3, <2>5 DEF ScanTells, new
  <2> QED
    BY <2>7, <2>8, <2>9, <2>10 DEF ScanTells
<1>6. ChoiceInv' /\ WalkInv' /\ WaitInv'
  BY <1>1 DEF ChoiceInv, WalkInv, WaitInv, Opening, Walking
<1>7. DeadlineInv'
  <2>1. timer' \in TimerValues
    BY <1>1, ClockTypes DEF DeadlineInv
  <2> QED
    BY <1>1, <2>1, SameDeadlines
<1> QED
  BY <1>2, <1>3, <1>4, <1>5, <1>6, <1>7

\* A finished scan without a change that finds one stick to open leaves no
\* choice on the bus.
LEMMA OneToOpen ==
    ASSUME Inv, phase = "scan", todo = {}, OpenNow, ~Changed
    PROVE  NoChoice
<1> SUFFICES ASSUME NEW s \in Sticks, NEW t \in Sticks, Plugged(s), Plugged(t),
                    mode = BySerial(mode.is) => serial[s] = mode.is /\ serial[t] = mode.is
             PROVE  s = t
  BY DEF NoChoice
<1>1. Told(s) /\ Told(t) /\ \A i \in items : Right(i)
  BY DEF Inv, ScanInv, ScanTells
<1>2. PICK i \in items : /\ i.conn = ConnOf(s) /\ i.openable # "gone"
                         /\ i.openable = "yes" => i.serial \in {"unread", serial[s]}
  BY <1>1 DEF Told, Right, ConnOf
<1>3. PICK j \in items : /\ j.conn = ConnOf(t) /\ j.openable # "gone"
                         /\ j.openable = "yes" => j.serial \in {"unread", serial[t]}
  BY <1>1 DEF Told, Right, ConnOf
<1>4. i \in Present /\ j \in Present
  BY <1>2, <1>3 DEF Present
<1>5. ASSUME NEW S \in SUBSET items, Cardinality(S) = 1, i \in S, j \in S
      PROVE  i = j
  <2>1. IsFiniteSet(S)
    BY FS_Subset DEF Inv, ScanInv
  <2> QED
    BY <1>5, <2>1, FS_Singleton
<1>6. i = j
  <2>1. CASE mode.by = "serial"
    <3>1. Cardinality(Match) = 1 /\ Unclear = {}
      BY <2>1 DEF OpenNow
    <3>2. mode = BySerial(mode.is)
      BY <2>1, SelectorFields DEF Inv, ModeInv
    <3>3. i \in Match /\ j \in Match
      BY <1>2, <1>3, <1>4, <2>1, <3>1, <3>2 DEF Match, Unclear
    <3>4. Match \in SUBSET items
      BY DEF Match, Present
    <3> QED
      BY <1>5, <3>1, <3>3, <3>4
  <2>2. CASE mode.by # "serial"
    <3>1. Cardinality(Present) = 1
      BY <2>2 DEF OpenNow
    <3>2. Present \in SUBSET items
      BY DEF Present
    <3> QED
      BY <1>4, <1>5, <3>1, <3>2
  <2> QED
    BY <2>1, <2>2
<1> QED
  BY <1>2, <1>3, <1>6 DEF ConnOf

\* One that finds one stick without a serial and can read them all leaves no
\* second one.
LEMMA OneToWalk ==
    ASSUME Inv, phase = "scan", todo = {}, WalkNow, ~Changed
    PROVE  OnePlain
<1>1. ScanTells
  BY DEF Inv, ScanInv
<1>2. SUFFICES ASSUME \A s \in Sticks : Plugged(s) => cond[s] \notin Bad,
                      NEW s \in Sticks, NEW t \in Sticks, Plugged(s), Plugged(t),
                      serial[s] = None, serial[t] = None
               PROVE  s = t
  BY DEF OnePlain
<1>3. ASSUME NEW u \in Sticks, Plugged(u), serial[u] = None
      PROVE  \E i \in NoSerial : i.conn = ConnOf(u)
  <2>1. PICK i \in items : i.conn = ConnOf(u)
    BY <1>1, <1>3 DEF ScanTells, Told
  <2>2. Right(i) /\ i.conn[1] = u
    BY <1>1, <2>1 DEF ScanTells, ConnOf
  <2>3. i \in Present /\ i.openable = "yes"
    BY <2>2 DEF Present, Right, WalkNow, Unopened
  <2>4. i.serial # "unread" /\ i.serial = None
    BY <1>2, <1>3, <2>2, <2>3 DEF Right, Bad
  <2> QED
    BY <2>1, <2>3, <2>4 DEF NoSerial, Unclear
<1>4. PICK i \in NoSerial, j \in NoSerial : i.conn = ConnOf(s) /\ j.conn = ConnOf(t)
  BY <1>2, <1>3
<1>5. i = j
  <2>1. IsFiniteSet(NoSerial)
    BY FS_Subset DEF Inv, ScanInv, NoSerial, Present
  <2>2. Cardinality(NoSerial) = 1
    BY DEF WalkNow
  <2> QED
    BY <1>4, <2>1, <2>2, FS_Singleton
<1> QED
  BY <1>4, <1>5 DEF ConnOf

\* The decision to open, and the one to walk.
LEMMA DecideStep ==
    ASSUME Inv, DecideOpen \/ DecideWalk
    PROVE  Inv'
<1> USE DEF Inv
<1>1. /\ Selecting /\ phase = "scan" /\ todo = {} /\ todo' = {} /\ items' = {} /\ Take
      /\ acc' \subseteq seen /\ seen' \subseteq seen /\ late' \subseteq late
      /\ UNCHANGED <<busVars, open, bound, mode, held, dev, selector, first>>
  BY DEF DecideOpen, DecideWalk, Deciding, DropDeadlines, KeepSeen
<1>2. timer \in TimerValues
  BY DEF DeadlineInv
<1>3. \/ ToIdle
      \/ /\ phase' = "open" /\ OpenNow /\ snap' = 0 /\ changed' = Changed /\ run' = run
         /\ timer' = Timer
      \/ /\ phase' = "walk" /\ WalkNow /\ snap' = Cardinality(Present) /\ changed' = Changed
         /\ run' = run /\ timer' = Answered
  <2>1. CASE DecideOpen
    BY <2>1 DEF DecideOpen
  <2>2. CASE DecideWalk /\ phase' # "walk"
    <3>1. Waits(Hopeless)
      <4>1. \/ ClassifyAgain
            \/ FinishWait(Timer, "running") /\ run' = run
        BY <2>2 DEF DecideWalk
      <4>2. CASE ClassifyAgain
        BY <1>2, <4>2, Finishes DEF Waits
      <4>3. CASE FinishWait(Timer, "running") /\ run' = run
        BY <1>2, <4>3, ClockTypes DEF Waits, FinishWait
      <4> QED
        BY <4>1, <4>2, <4>3
    <3>2. Closes
      BY <1>1 DEF Closes, HandleInv, CheckedInv, Having, Walking
    <3> QED
      BY <1>1, <3>1, <3>2, ClosesIdle
  <2>3. CASE DecideWalk /\ phase' = "walk"
    BY <2>3 DEF DecideWalk, ClassifyAgain, FinishWait
  <2> QED
    BY <2>1, <2>2, <2>3
<1>4. CASE ToIdle
  BY <1>4, IdleStep
<1>5. ASSUME phase' \in {"open", "walk"}, run' = run, timer' \in {Timer, Answered},
             ChoiceInv', WalkInv'
      PROVE  Inv'
  <2>1. RunInv' /\ HandleInv' /\ CookieInv' /\ DevInv'
    BY <1>1, <1>5, SameBus
    DEF RunInv, HandleInv, DevInv, Selecting, Having, Walking, Opening
  <2>2. ModeInv' /\ CheckedInv' /\ WaitInv'
    BY <1>1, <1>5 DEF ModeInv, CheckedInv, WaitInv
  <2>3. ScanInv'
    BY <1>1, <1>5, FS_EmptySet DEF ScanInv
  <2>4. DeadlineInv'
    <3>1. timer' \in TimerValues
      BY <1>2, <1>5, ClockTypes
    <3> QED
      BY <1>1, <3>1, SameDeadlines
  <2> QED
    BY <1>5, <2>1, <2>2, <2>3, <2>4
<1>6. CASE /\ phase' = "walk" /\ WalkNow /\ snap' = Cardinality(Present) /\ changed' = Changed
           /\ run' = run /\ timer' = Answered
  <2>1. snap' > 0
    <3>1. IsFiniteSet(Present)
      BY FS_Subset DEF ScanInv, Present
    <3>2. Cardinality(Present) \in Nat /\ Cardinality(Present) > 1
      BY <1>6, <3>1, FS_CardinalityType DEF WalkNow
    <3> QED
      BY <1>6, <3>2
  <2>2. ChoiceInv'
    BY <1>6, <2>1 DEF ChoiceInv, Opening, RuleB
  <2>3. ~Changed' => OnePlain'
    BY <1>1, <1>6, TakeKeeps, OneToWalk, SameBus
  <2>4. WalkInv'
    BY <1>1, <1>6, <2>3 DEF WalkInv, WalkNow
  <2> QED
    BY <1>5, <1>6, <2>2, <2>4
<1>7. CASE /\ phase' = "open" /\ OpenNow /\ snap' = 0 /\ changed' = Changed /\ run' = run
           /\ timer' = Timer
  <2>1. ~Changed' => NoChoice
    BY <1>1, <1>7, TakeKeeps, OneToOpen
  <2>2. NoChoice => NoChoice'
    BY <1>1, SameBus DEF NoChoice
  <2>3. ~(snap' > 0)
    BY <1>7
  <2>4. ChoiceInv' /\ WalkInv'
    BY <1>7, <2>1, <2>2, <2>3 DEF ChoiceInv, WalkInv, Walking, RuleB
  <2> QED
    BY <1>5, <1>7, <2>4
<1> QED
  BY <1>3, <1>4, <1>6, <1>7

\* What stays as it is when a selection goes on from one phase to the next.
GoesOn ==
    /\ Take /\ changed' = Changed /\ timer' \in TimerValues
    /\ UNCHANGED <<busVars, bound, mode, snap, selector, first, run, items, todo, accVars>>

\* A stick is opened, for good or to look at in a walk.
OpensOne(c) ==
    /\ GoesOn /\ c \in List \ open /\ dev' = c /\ open' = open \cup {c} /\ UNCHANGED held
    /\ \/ /\ phase = "open" /\ phase' = "check"
          /\ mode.by = "serial" => mode.is = None \/ serial[c[1]] = mode.is
       \/ phase = "walk" /\ phase' = "look"

\* A stick looked at in a walk is held, or is the one.
Looked ==
    /\ GoesOn /\ phase = "look"
    /\ \/ held' = held \cup {dev} /\ dev' = None /\ phase' = "walk" /\ open' = open
       \/ /\ open' = open \ held /\ held' = {} /\ phase' = "check" /\ dev' = dev
          /\ serial[dev[1]] = None

\* A choice that was none stays none while the selection goes on.
LEMMA GoesOnChoice ==
    ASSUME Inv, GoesOn
    PROVE  /\ CookieInv' /\ (RuleB' <=> RuleB) /\ (Changed' <=> Changed)
           /\ NoChoice => NoChoice'
           /\ OnePlain' <=> OnePlain
           /\ \A c : Earlier(c)' <=> Earlier(c)
           /\ IsFiniteSet(items') /\ DeadlineInv'
<1>1. /\ CookieInv /\ DeadlineInv /\ UNCHANGED <<busVars, mode, snap, items>>
      /\ IsFiniteSet(items) /\ UNCHANGED <<todo, acc, late, seen>> /\ timer' \in TimerValues
  BY DEF Inv, GoesOn, accVars, ScanInv
<1>2. DeadlineInv'
  BY <1>1, SameDeadlines
<1> QED
  BY <1>1, <1>2, SameBus, TakeKeeps DEF GoesOn, NoChoice, RuleB

\* Opening a stick preserves the invariant.
LEMMA OpensStep ==
    ASSUME Inv, NEW c, OpensOne(c)
    PROVE  Inv'
<1> USE DEF Inv
<1>1. /\ GoesOn /\ c \in List \ open /\ dev' = c /\ open' = open \cup {c} /\ held' = held
      /\ \/ /\ phase = "open" /\ phase' = "check"
            /\ mode.by = "serial" => mode.is = None \/ serial[c[1]] = mode.is
         \/ phase = "walk" /\ phase' = "look"
  BY DEF OpensOne
<1>2. UNCHANGED <<bound, mode, snap, selector, first, run, items, serial>>
  BY <1>1 DEF GoesOn, busVars
<1>3. c # None /\ Earlier(c)
  BY <1>1, ListEarlier
<1>4. RunInv' /\ WaitInv'
  BY <1>1, <1>2 DEF RunInv, WaitInv, Having, Walking, Opening
<1>5. HandleInv'
  BY <1>1, <1>3 DEF HandleInv, Having, Walking
<1>6. CookieInv' /\ DevInv' /\ DeadlineInv'
  BY <1>1, <1>3, GoesOnChoice DEF DevInv
<1>7. ModeInv' /\ CheckedInv'
  BY <1>1, <1>2 DEF ModeInv, CheckedInv
<1>8. ScanInv' /\ ChoiceInv'
  BY <1>1, GoesOnChoice DEF ScanInv, ChoiceInv, Opening, Walking
<1>9. WalkInv'
  <2>1. mode.by = "serial" => mode.is # None
    BY SelectorFields DEF ModeInv
  <2>2. CASE phase = "open"
    BY <1>1, <1>2, <2>1, <2>2, GoesOnChoice DEF WalkInv, ChoiceInv, Walking
  <2>3. CASE phase = "walk"
    BY <1>1, <1>2, <2>3, GoesOnChoice DEF WalkInv, Walking
  <2> QED
    BY <1>1, <2>2, <2>3
<1> QED
  BY <1>4, <1>5, <1>6, <1>7, <1>8, <1>9

\* So does the look at one.
LEMMA LookedStep ==
    ASSUME Inv, Looked
    PROVE  Inv'
<1> USE DEF Inv
<1>1. /\ GoesOn /\ phase = "look"
      /\ \/ held' = held \cup {dev} /\ dev' = None /\ phase' = "walk" /\ open' = open
         \/ /\ open' = open \ held /\ held' = {} /\ phase' = "check" /\ dev' = dev
            /\ serial[dev[1]] = None
  BY DEF Looked
<1>2. UNCHANGED <<bound, mode, snap, selector, first, run, items, serial>>
  BY <1>1 DEF GoesOn, busVars
<1>3. RunInv' /\ WaitInv'
  BY <1>1, <1>2 DEF RunInv, WaitInv, Having, Walking, Opening
<1>4. HandleInv'
  BY <1>1 DEF HandleInv, Having, Walking
<1>5. CookieInv' /\ DevInv' /\ DeadlineInv'
  BY <1>1, GoesOnChoice DEF DevInv
<1>6. ModeInv' /\ CheckedInv'
  BY <1>1, <1>2 DEF ModeInv, CheckedInv
<1>7. ScanInv' /\ ChoiceInv'
  BY <1>1, GoesOnChoice DEF ScanInv, ChoiceInv, Opening, Walking
<1>8. WalkInv'
  BY <1>1, <1>2, GoesOnChoice DEF WalkInv, ChoiceInv, Walking
<1> QED
  BY <1>3, <1>4, <1>5, <1>6, <1>7, <1>8

\* The open, the walk's open and the walk's look.
LEMMA OpenStepStep ==
    ASSUME Inv, OpenStep \/ WalkOpen \/ WalkLook
    PROVE  Inv'
<1> USE DEF Inv
<1>0. timer \in TimerValues
  BY DEF DeadlineInv
<1>a. Timer \in TimerValues /\ GapStarts(Timer) \in TimerValues
  BY <1>0, ClockTypes
<1>1. CASE OpenStep
  <2>1. ToIdle \/ \E c : OpensOne(c)
    <3>1. CASE phase' = "check"
      <4>1. PICK c \in Claimable(IF mode.by = "serial" THEN mode.is ELSE None) :
                   dev' = c /\ open' = open \cup {c} /\ changed' = Changed /\ run' = run
                   /\ timer' = Timer
        BY <1>1, <3>1 DEF OpenStep, ClassifyAgain, Refuse, FinishWait
      <4>2. c \in List \ open /\ (mode.by = "serial" => mode.is = None \/ serial[c[1]] = mode.is)
        BY <4>1 DEF Claimable
      <4> QED
        BY <1>1, <1>a, <3>1, <4>1, <4>2 DEF OpenStep, OpensOne, GoesOn, scanVars
    <3>2. CASE phase' # "check"
      <4>1. UNCHANGED <<open, dev, held, items, busVars, mode, first, selector>> /\ phase = "open"
        BY <1>1, <3>2 DEF OpenStep, scanVars
      <4>2. Closes
        BY <1>1, <4>1 DEF Closes, OpenStep, HandleInv, CheckedInv, Having, Walking, scanVars, accVars
      <4>3. ClassifyAgain \/ (Changed /\ Refuse)
        BY <1>1, <3>2 DEF OpenStep
      <4>4. Waits(Hopeless)
        BY <1>0, <4>3, Finishes DEF Waits
      <4> QED
        BY <4>1, <4>2, <4>4, ClosesIdle
    <3> QED
      BY <3>1, <3>2
  <2> QED
    BY <2>1, IdleStep, OpensStep
<1>2. CASE WalkOpen
  <2>1. PICK c \in List \ open : dev' = c /\ open' = open \cup {c}
    BY <1>2 DEF WalkOpen, Claimable
  <2>2. OpensOne(c)
    BY <1>2, <1>a, <2>1 DEF WalkOpen, OpensOne, GoesOn, scanVars
  <2> QED
    BY <2>2, OpensStep
<1>3. CASE WalkLook
  <2>1. /\ phase = "look" /\ Take /\ changed' = Changed
        /\ UNCHANGED <<busVars, bound, mode, items, todo, accVars, snap, run, selector, first>>
    BY <1>3 DEF WalkLook, scanVars
  <2>2. CASE Stale
    <3>1. /\ FinishWait(GapStarts(Timer), "passed") /\ open' = open \ (held \cup {dev})
          /\ held' = {} /\ dev' = None
      BY <1>3, <2>2 DEF WalkLook, ReleaseHeld
    <3>2. Closes
      BY <2>1, <3>1 DEF Closes, HandleInv, CheckedInv, accVars
    <3>3. Waits(Hopeless)
      BY <1>0, <1>a, <2>1, <3>1, ClockTypes DEF Waits, FinishWait
    <3> QED
      BY <2>1, <3>2, <3>3, ClosesIdle, IdleStep
  <2>3. CASE ~Stale
    <3>1. IdSerial = None => serial[dev[1]] = None
      BY SelectAssumption DEF IdSerial
    <3>2. Looked
      BY <1>3, <1>a, <2>1, <2>3, <3>1 DEF WalkLook, Looked, GoesOn
    <3> QED
      BY <3>2, LookedStep
  <2> QED
    BY <2>2, <2>3
<1> QED
  BY <1>1, <1>2, <1>3

-----------------------------------------------------------------------------
(* The checks, the bind and the commit.                                     *)

\* A stick that fails the checks, without a change, leaves nothing to open.
LEMMA CheckedHopeless ==
    ASSUME Inv, phase = "check", ~Changed, dev \in List, ~PostOpenOk
    PROVE  Hopeless
<1> USE DEF Inv
<1>1. PICK d \in Sticks : Plugged(d) /\ dev = ConnOf(d) /\ dev[1] = d
  BY DEF List, ConnOf
<1>2. SUFFICES ASSUME \A s \in Sticks : Plugged(s) => cond[s] \notin Bad
               PROVE  Hopeless
  BY DEF Hopeless, Attached
<1>3. IdSerial = serial[d] /\ IdSerial # "unread"
  BY <1>1, <1>2, SelectAssumption DEF IdSerial, Bad, CookieInv
<1>4. mode.by \in {"any", "serial", "port"}
  BY SelectorFields DEF ModeInv
<1>5. /\ mode.by = "port" /\ (at[d] # mode.is \/ serial[d] # None)
      /\ RuleB => serial[d] = None
  BY <1>1, <1>3 DEF PostOpenOk, IdentityRead, WalkInv, Walking
<1>6. ASSUME NEW s \in Sticks, Plugged(s), serial[s] = None, at[s] = mode.is
      PROVE  FALSE
  <2>1. CASE RuleB
    <3>1. OnePlain
      BY <2>1 DEF WalkInv
    <3>2. s = d
      BY <1>1, <1>2, <1>5, <1>6, <2>1, <3>1 DEF OnePlain
    <3> QED
      BY <1>5, <1>6, <3>2
  <2>2. CASE ~RuleB
    <3>1. NoChoice
      BY <2>2 DEF ChoiceInv, Opening
    <3>2. mode # BySerial(mode.is)
      BY <1>5, SelectorFields
    <3>3. s = d
      BY <1>1, <1>6, <3>1, <3>2 DEF NoChoice
    <3> QED
      BY <1>5, <1>6, <3>3
  <2> QED
    BY <2>1, <2>2
<1>7. Wanted = {}
  BY <1>5, <1>6 DEF Wanted, Plain, Attached
<1> QED
  BY <1>7, FS_EmptySet DEF Hopeless

\* The checks of the opened stick.
LEMMA CheckStep ==
    ASSUME Inv, Check
    PROVE  Inv'
<1> USE DEF Inv
<1>0. timer \in TimerValues
  BY DEF DeadlineInv
<1>1. /\ phase = "check" /\ Take
      /\ UNCHANGED <<busVars, bound, mode, items, todo, accVars, snap, held, selector, first>>
  BY DEF Check, scanVars
<1>2. CASE phase' # "bind"
  <2>1. open' = open \ {dev} /\ dev' = None
    BY <1>2 DEF Check, CloseDev
  <2>2. Closes
    BY <1>1, <2>1 DEF Closes, HandleInv, CheckedInv, Having, Walking, accVars
  <2>3. \/ ClassifyAgain \/ Transient
        \/ Refuse /\ (Changed \/ (dev \in List /\ ~PostOpenOk))
    BY <1>2 DEF Check, IdentityRead
  <2>4. Waits(Hopeless)
    BY <1>0, <1>1, <2>3, Finishes, CheckedHopeless DEF Waits
  <2> QED
    BY <1>1, <2>2, <2>4, ClosesIdle, IdleStep
<1>3. CASE phase' = "bind"
  <2>1. PostOpenOk /\ changed' = Changed /\ UNCHANGED <<open, dev, run>> /\ timer' = Timer
    BY <1>3 DEF Check, ClassifyAgain, Refuse, Transient, FinishWait
  <2>2. GoesOn
    BY <1>0, <1>1, <2>1, ClockTypes DEF GoesOn
  <2>3. RunInv' /\ HandleInv'
    BY <1>1, <1>3, <2>1 DEF RunInv, HandleInv, Having, Walking, Opening
  <2>4. CookieInv' /\ DevInv' /\ ScanInv' /\ ChoiceInv' /\ DeadlineInv'
    BY <1>1, <1>3, <2>1, <2>2, GoesOnChoice DEF DevInv, ScanInv, ChoiceInv, Opening, Walking
  <2>5. ModeInv' /\ WalkInv' /\ WaitInv'
    BY <1>1, <1>3, <2>1 DEF ModeInv, WalkInv, WaitInv, Walking
  <2>6. /\ mode = BySerial(mode.is) => serial[dev[1]] = mode.is
        /\ mode = ByPort(mode.is) => at[dev[1]] = mode.is /\ serial[dev[1]] = None
    <3>1. IdSerial = serial[dev[1]]
      BY <2>1 DEF PostOpenOk, IdSerial
    <3>2. /\ mode = BySerial(mode.is) => mode.by = "serial"
          /\ mode = ByPort(mode.is) => mode.by = "port"
      BY SelectorFields
    <3> QED
      BY <2>1, <3>1, <3>2 DEF PostOpenOk
  <2>7. CheckedInv'
    BY <1>1, <1>3, <2>1, <2>6 DEF CheckedInv, busVars
  <2> QED
    BY <2>3, <2>4, <2>5, <2>7
<1> QED
  BY <1>2, <1>3

\* The monitor binds what was opened.
LEMMA BindStep ==
    ASSUME Inv, Bind
    PROVE  Inv'
<1> USE DEF Inv
<1>1. /\ phase = "bind" /\ dev \in List /\ bound' = dev /\ phase' = "commit"
      /\ UNCHANGED <<busVars, pend, open, mode, changed, items, todo, acc, late, seen, timer, snap,
                     held, dev, run, selector, first>>
  BY DEF Bind, scanVars, accVars
<1>2. RunInv' /\ HandleInv'
  BY <1>1 DEF RunInv, HandleInv, Having, Walking, Opening
<1>3. /\ CookieInv' /\ DevInv' /\ List' = List
      /\ \A s \in Sticks : Plugged(s)' <=> Plugged(s)
  BY <1>1, SameBus DEF DevInv
<1>4. ModeInv'
  BY <1>1 DEF ModeInv
<1>5. CheckedInv'
  BY <1>1, <1>3 DEF CheckedInv, busVars
<1>6. ScanInv' /\ WalkInv' /\ WaitInv'
  BY <1>1 DEF ScanInv, WalkInv, WaitInv, Walking
<1>7. ChoiceInv'
  <2>1. (RuleB' <=> RuleB) /\ (Changed' <=> Changed)
    BY <1>1 DEF RuleB, Changed, NewChange, NewArrival
  <2>2. NoChoice => NoChoice'
    BY <1>1, <1>3 DEF NoChoice, busVars
  <2> QED
    BY <1>1, <2>1, <2>2 DEF ChoiceInv, Opening, Walking
<1>8. DeadlineInv'
  BY <1>1, SameDeadlines DEF DeadlineInv
<1> QED
  BY <1>2, <1>3, <1>4, <1>5, <1>6, <1>7, <1>8

\* A commit into use finds the stick still on the bus.
LEMMA CommitFinds ==
    ASSUME Inv, phase = "commit", ~LeftBound
    PROVE  dev \in List /\ bound = dev
  BY DEF Inv, CheckedInv, LeftBound, HandleInv, Having

\* The commit fixes what the daemon asks for from then on.
LEMMA CommitStep ==
    ASSUME Inv, Commit
    PROVE  Inv'
<1> USE DEF Inv
<1>0. timer \in TimerValues
  BY DEF DeadlineInv
<1>1. /\ phase = "commit" /\ UNCHANGED <<busVars, items, todo, snap, held, selector>>
      /\ acc' \subseteq acc /\ late' \subseteq late /\ seen' \subseteq seen
  BY DEF Commit, scanVars, accVars, DropDeadlines
<1>2. CASE phase' # "done"
  <2>1. /\ open' = open \ {dev} /\ dev' = None /\ UNCHANGED <<mode, first>> /\ bound' = None
        /\ \/ ClassifyAgain
           \/ FinishWait(Timer, "passed") /\ run' = run
           \/ Refuse /\ Changed
    BY <1>2 DEF Commit, CloseDev
  <2>2. Closes
    BY <1>1, <2>1 DEF Closes, HandleInv, Having, Walking
  <2>3. CASE ClassifyAgain \/ (Refuse /\ Changed)
    BY <1>0, <1>1, <2>2, <2>3, Finishes, ClosesIdle, IdleStep DEF Waits
  <2>4. CASE FinishWait(Timer, "passed") /\ run' = run
    <3>1. Waits(Hopeless)
      BY <1>0, <2>4, ClockTypes DEF Waits, FinishWait
    <3> QED
      BY <1>1, <2>2, <3>1, ClosesIdle, IdleStep
  <2> QED
    BY <2>1, <2>3, <2>4
<1>3. CASE phase' = "done"
  <2>1. /\ ~LeftBound /\ run' = "open" /\ UNCHANGED <<open, bound, dev>> /\ timer' = Answered
        /\ mode' = IF mode = Any THEN Identity(dev[1]) ELSE mode
        /\ first' = IF first = None THEN Identity(dev[1]) ELSE first
    BY <1>3 DEF Commit, ClassifyAgain, Refuse, FinishWait
  <2>2. dev \in List /\ bound = dev
    BY <1>1, <2>1, CommitFinds
  <2>3. RunInv' /\ HandleInv'
    BY <1>1, <1>3, <2>1 DEF RunInv, HandleInv, Having, Walking
  <2>4. CookieInv' /\ DevInv' /\ List' = List
    BY <1>1, <2>1, SameBus DEF DevInv
  <2>5. ScanInv' /\ ChoiceInv' /\ WalkInv' /\ WaitInv'
    BY <1>1, <1>3 DEF ScanInv, ChoiceInv, WalkInv, WaitInv, Opening, Walking
  <2> DEFINE v == serial[dev[1]]
             p == at[dev[1]]
  <2>6. Identity(dev[1]) = IF v # None THEN BySerial(v) ELSE ByPort(p)
    BY DEF Identity
  <2>7. /\ mode = BySerial(mode.is) => v = mode.is
        /\ mode = ByPort(mode.is) => p = mode.is /\ v = None
    BY <1>1, <2>2 DEF CheckedInv
  <2> HIDE DEF v, p
  <2>8. mode # Any => mode = Identity(dev[1])
    BY <2>6, <2>7 DEF ModeInv
  <2>9. mode' = Identity(dev[1]) /\ first' = Identity(dev[1])
    BY <2>1, <2>8 DEF ModeInv
  <2>10. /\ mode' = BySerial(mode'.is) => v = mode'.is
         /\ mode' = ByPort(mode'.is) => p = mode'.is /\ v = None
    BY <2>6, <2>9, SelectorFields
  <2>11. ModeInv'
    <3>1. mode' # Any /\ (mode' = BySerial(mode'.is) \/ mode' = ByPort(mode'.is))
      BY <2>6, <2>9, SelectorFields
    <3>2. mode' = BySerial(mode'.is) => mode'.is # None
      BY <2>6, <2>9, SelectorFields
    <3>3. selector # None => mode' = BySerial(selector)
      BY <2>1, SelectorFields DEF ModeInv
    <3> QED
      BY <1>1, <2>1, <2>9, <3>1, <3>2, <3>3 DEF ModeInv
  <2>12. CheckedInv'
    BY <1>1, <1>3, <2>1, <2>2, <2>10 DEF CheckedInv, busVars, v, p
  <2>13. DeadlineInv'
    <3>1. timer' \in TimerValues
      BY <1>0, <2>1, ClockTypes
    <3> QED
      BY <1>1, <3>1, SameDeadlines
  <2> QED
    BY <2>3, <2>4, <2>5, <2>11, <2>12, <2>13
<1> QED
  BY <1>2, <1>3

-----------------------------------------------------------------------------
(* The invariant and the theorems.                                          *)

\* The daemon starts with nothing open and nothing to look at.
LEMMA InitInv == Init => Inv
<1> SUFFICES ASSUME Init PROVE Inv
  OBVIOUS
<1>1. RunInv /\ HandleInv /\ DevInv /\ CheckedInv /\ ChoiceInv /\ WalkInv /\ WaitInv
  BY DEF Init, RunInv, HandleInv, DevInv, CheckedInv, ChoiceInv, WalkInv, WaitInv,
         Having, Walking, Opening
<1>2. CookieInv
  <2>1. /\ changes = 0 /\ cookie = [s \in Sticks |-> 0]
        /\ serial \in [Sticks -> Serials \cup {None}] /\ at \in [Sticks -> Ports \cup {None}]
        /\ cond \in [Sticks -> Conditions \cup {"ok"}]
    BY DEF Init
  <2> QED
    BY <2>1, SelectAssumption DEF CookieInv
<1>3. ModeInv
  <2>1. /\ mode = IF selector = None THEN Any ELSE BySerial(selector)
        /\ first = None /\ run = "start"
    BY DEF Init
  <2> QED
    BY <2>1, SelectorFields DEF ModeInv
<1>4. ScanInv /\ DeadlineInv
  BY FS_EmptySet DEF Init, ScanInv, DeadlineInv, TimerValues
<1> QED
  BY <1>1, <1>2, <1>3, <1>4 DEF Inv

\* Every step preserves the invariant.
LEMMA NextInv == Inv /\ [Next]_vars => Inv'
<1> SUFFICES ASSUME Inv, [Next]_vars PROVE Inv'
  OBVIOUS
<1>0. CookieInv /\ timer \in TimerValues
  BY DEF Inv, DeadlineInv
<1>1. CASE Bus \/ Clock \/ Ended \/ UNCHANGED vars
  BY <1>0, <1>1, BusSteps, BusStep
<1>2. CASE ScanBegin
  BY <1>2, ScanBeginStep
<1>3. CASE Scan
  BY <1>3, ScanStepStep DEF Scan
<1>4. CASE DecideOpen \/ DecideWalk
  BY <1>4, DecideStep
<1>5. CASE OpenStep \/ WalkOpen \/ WalkLook
  BY <1>5, OpenStepStep
<1>6. CASE Check
  BY <1>6, CheckStep
<1>7. CASE Bind
  BY <1>7, BindStep
<1>8. CASE Commit
  BY <1>8, CommitStep
<1>9. CASE ScanFails \/ ScanExpires \/ DecideAccess \/ DecideRefuse \/ OpenFails
           \/ BindFails \/ WalkGivesUp \/ WalkOpenFails \/ Lose \/ Shutdown
  BY <1>0, <1>9, Idle, IdleStep
<1> QED
  BY <1>1, <1>2, <1>3, <1>4, <1>5, <1>6, <1>7, <1>8, <1>9 DEF Next, Select, Decide

\* Every reachable state satisfies the invariant.
LEMMA Invariance == Spec => []Inv
  BY InitInv, NextInv, PTL DEF Spec

\* On every way out of a selection (a refusal, a failed open, check, bind or
\* walk, a loss, the shutdown) every stick this process opened is closed
\* again, and during it each open one is accounted for.
THEOREM NoHandleLost == Spec => []HandlesAccounted
<1>1. Inv => HandlesAccounted
  BY DEF Inv, RunInv, HandleInv, HandlesAccounted, Having, Walking
<1> QED
  BY <1>1, Invariance, PTL

\* The stick in use is the one --usb-serial names and, after any number of
\* losses, returns and moves, the one first used.
THEOREM UsesTheSameStick == Spec => []SameStick
<1>1. Inv => SameStick
  <2> SUFFICES ASSUME Inv, run = "open" PROVE
               /\ bound = dev /\ dev \in open
               /\ selector # None => serial[dev[1]] = selector
               /\ first = mode
               /\ bound \in List => Identity(dev[1]) = first
    BY DEF SameStick
  <2>1. phase = "done" /\ dev # None
    BY DEF Inv, RunInv, HandleInv, Having
  <2>2. bound = dev /\ dev \in open
    BY <2>1 DEF Inv, CheckedInv, HandleInv
  <2>3. first = mode /\ (mode = Any \/ mode = BySerial(mode.is) \/ mode = ByPort(mode.is))
    BY DEF Inv, ModeInv
  <2>4. mode # Any
    BY DEF Inv, ModeInv
  <2>5. /\ mode = BySerial(mode.is) => serial[dev[1]] = mode.is /\ mode.is # None
        /\ mode = ByPort(mode.is) /\ dev \in List =>
               at[dev[1]] = mode.is /\ serial[dev[1]] = None
    BY <2>1 DEF Inv, CheckedInv, ModeInv
  <2>6. selector # None => serial[dev[1]] = selector
    BY <2>5, SelectorFields DEF Inv, ModeInv
  <2>7. bound \in List => Identity(dev[1]) = first
    BY <2>2, <2>3, <2>4, <2>5 DEF Identity
  <2> QED
    BY <2>2, <2>3, <2>6, <2>7
<1> QED
  BY <1>1, Invariance, PTL

\* No stick is taken into use while the delivered events leave a choice: a
\* second one with the serial asked for, or any second one without a selector.
THEOREM NeverOpensAmbiguous == Spec => NoAmbiguousOpen
<1>1. ASSUME Inv, [Next]_vars, run # "open", run' = "open", pend = {}, ~RuleB
      PROVE  \A s \in Others : mode.by = "serial" /\ serial[s] # mode.is
  <2>1. Commit
    <3>0. CookieInv /\ timer \in TimerValues
      BY <1>1 DEF Inv, DeadlineInv
    <3>1. ~(ScanFails \/ ScanExpires \/ DecideAccess \/ DecideRefuse \/ OpenFails
            \/ BindFails \/ WalkGivesUp \/ WalkOpenFails \/ Lose \/ Shutdown)
      BY <1>1, <3>0, Idle DEF ToIdle
    <3>2. ~(Bus \/ Clock \/ Ended \/ UNCHANGED vars)
      BY <1>1, <3>0, BusSteps DEF BusEffect, Around
    <3>3. ~(ScanBegin \/ Scan \/ DecideOpen \/ Bind \/ WalkOpen \/ WalkLook)
      BY <1>1 DEF ScanBegin, Scan, ScanStep, DecideOpen, Bind, WalkOpen, WalkLook
    <3>4. ~(DecideWalk \/ OpenStep \/ Check)
      BY <1>1 DEF DecideWalk, OpenStep, Check, ClassifyAgain, Refuse, Transient
    <3> QED
      BY <1>1, <3>1, <3>2, <3>3, <3>4 DEF Next, Select, Decide
  <2>2. phase = "commit" /\ ~LeftBound /\ ~Changed
    <3>1. ~ClassifyAgain /\ ~Refuse
      BY <1>1 DEF ClassifyAgain, Refuse
    <3> QED
      BY <1>1, <2>1, <3>1 DEF Commit
  <2>3. NoChoice /\ dev \in List
    BY <1>1, <2>2, CommitFinds DEF Inv, ChoiceInv, Opening
  <2>4. PICK d \in Sticks : Plugged(d) /\ dev = ConnOf(d)
    BY <2>3 DEF List
  <2>5. mode = BySerial(mode.is) => serial[d] = mode.is
    <3>1. dev[1] = d
      BY <2>4 DEF ConnOf
    <3> QED
      BY <1>1, <2>2, <3>1 DEF Inv, CheckedInv
  <2> SUFFICES ASSUME NEW s \in Sticks, Plugged(s), dev # ConnOf(s)
               PROVE  mode.by = "serial" /\ serial[s] # mode.is
    BY DEF Others
  <2>6. s # d
    BY <2>4
  <2>7. mode = BySerial(mode.is) /\ serial[s] # mode.is
    BY <2>3, <2>4, <2>5, <2>6 DEF NoChoice
  <2> QED
    BY <2>7, SelectorFields
<1>2. Inv /\ [Next]_vars =>
        [run # "open" /\ run' = "open" /\ pend = {} /\ ~RuleB =>
           \A s \in Others : mode.by = "serial" /\ serial[s] # mode.is]_vars
  BY <1>1
<1> QED
  BY <1>2, Invariance, PTL DEF Spec, NoAmbiguousOpen

\* A selection that waits for the next hotplug event only has nothing to open:
\* every other way to finish, on any sequence of changes, deadlines and failed
\* reads, leaves a time to look again.
THEOREM NeverForgetsAStick == Spec => []NoForgottenStick
<1>1. Hopeless => ~Eligible
  <2>1. Eligible => \A s \in Attached : cond[s] = "ok"
    BY DEF Eligible, Attached
  <2>2. Eligible => Cardinality(Wanted) = 1
    BY DEF Eligible, Wanted, Plain, Attached
  <2>3. Eligible => ~(mode.by # "serial" /\ Cardinality(Attached) > 1 /\ Cardinality(Plain) # 1)
    BY DEF Eligible, Plain, Attached
  <2> QED
    BY <2>1, <2>2, <2>3 DEF Hopeless, Bad
<1>2. Inv => NoForgottenStick
  BY <1>1 DEF Inv, WaitInv, NoForgottenStick
<1> QED
  BY <1>2, Invariance, PTL
=============================================================================
