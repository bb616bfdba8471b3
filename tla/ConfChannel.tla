---------------------------- MODULE ConfChannel ----------------------------
(***************************************************************************)
(* The CONF socket and the monitoring that broadcasts on it.  A pass of    *)
(* the main loop accepts, reads the CONF slots (config_dispatch_clients:   *)
(* stream, lines, one answer per line), drains RX and runs the monitoring  *)
(* tick (daemon_process_monitoring: TX status, CAD, RSSI, LED).  The TX    *)
(* worker's thread transmits meanwhile: it sets tx_busy, counts            *)
(* tx_status_generation and reconciles the LED as well.                    *)
(*                                                                         *)
(* A word is a CR, a LF or the text of one command; a line of one word is  *)
(* that command, a line of several is no command the daemon knows.  What a *)
(* generic SET does to the radio is module ConfigApply's, what GET CHANNEL *)
(* does to it module RadioAccess's, whether the TX queue is idle module    *)
(* TxWorker's: here each is one of the outcomes.                           *)
(***************************************************************************)
EXTENDS Naturals, Sequences, FiniteSets

CONSTANTS
    MaxClients,     \* CONF slots (10)
    LineLen,        \* CONFIG_STREAM_LINE_LEN, in words (256 bytes)
    Capacity,       \* messages an output queue holds
    GenMod,         \* values of tx_status_generation (2^32)
    Keys,           \* runtime keys a client sets
    Scenarios       \* bounds, one of which holds throughout a behaviour:
                    \* cmds, the commands clients send; words, how many
                    \* words the clients of the moment have sent; txs,
                    \* transmissions; gen, where the counter starts

\* The counter never goes all the way round between two ticks; an even
\* modulus keeps the parity when it wraps.
ASSUME ConfAssumption ==
    /\ {MaxClients, LineLen, Capacity, GenMod} \subseteq Nat \ {0}
    /\ GenMod % 2 = 0 /\ LineLen > 1
    /\ \A s \in Scenarios :
         GenMod > 2 * s.txs /\ s.gen \in 0 .. GenMod - 1 /\ s.gen % 2 = 0

VARIABLES
    conf,      \* the CONF slots
    hist,      \* history of a slot's client: words read from it, answers and
               \* TX lines queued for it, the generation it joined at
    scenario,  \* the bounds of this behaviour
    ctrl,      \* the RadioController's settings and latches
    txBusy, gen, bgen,  \* tx_busy, tx_status_generation, ..._broadcast_...
    ledLock, led,       \* led_mutex's holder; led_state (and the pin)
    look,      \* per thread: the desired state computed under the mutex
    wpc, txs,  \* the TX worker: where it is, transmissions so far
    mpc, cursor, current, ret         \* the main loop

connVars == <<conf, hist, scenario>>
txVars == <<txBusy, gen, wpc, txs>>
ledVars == <<ledLock, led, look>>
mainVars == <<mpc, cursor, current, ret>>
confVars == <<connVars, ctrl, txVars, bgen, ledVars, mainVars>>

Slots == 1..MaxClients
Vacant == [open |-> FALSE, line |-> <<>>, out |-> 0]
NoHistory == [said |-> <<>>, told |-> <<>>, from |-> 0, heard |-> <<>>]

ConfInit ==
    /\ conf = [i \in Slots |-> Vacant]
    /\ hist = [i \in Slots |-> NoHistory]
    /\ scenario \in Scenarios
    /\ ctrl = [health |-> "READY", monitor |-> FALSE, latch |-> FALSE,
               streak |-> 0, getrssi |-> FALSE,
               values |-> [k \in Keys |-> 0]]
    /\ txBusy = FALSE /\ gen = scenario.gen /\ bgen = gen
    /\ ledLock = "free" /\ led = FALSE
    /\ look = [t \in {"main", "worker"} |-> FALSE]
    /\ wpc = "idle" /\ txs = 0
    /\ mpc = "accept" /\ cursor = 1 /\ current = 0 /\ ret = "accept"

-----------------------------------------------------------------------------
(* Client slots.                                                           *)

HasClient(i) == conf[i].open
HasClients == \E i \in Slots : HasClient(i)

\* The history of the clients that remain.
Keep(h) == hist' = [i \in Slots |-> IF conf'[i].open THEN h[i] ELSE NoHistory]

\* client_slot_set_fd: the slot starts with an empty line and queue.
JoinsKeepingLine(slot) == [slot EXCEPT !.open = TRUE]
Joins(slot) == [open |-> TRUE, line |-> <<>>, out |-> 0]

\* accept() on the CONF listener, into the first free slot; a connection no
\* slot is free for is closed.
ConfAccept ==
    /\ mpc = "accept"
    /\ \/ UNCHANGED <<conf, hist>>
       \/ \E i \in Slots :
            /\ ~HasClient(i) /\ \A j \in 1..(i - 1) : HasClient(j)
            /\ conf' = [conf EXCEPT ![i] = Joins(@)]
            /\ Keep([hist EXCEPT ![i].from = bgen])
    /\ mpc' = "conf" /\ cursor' = 1
    /\ UNCHANGED <<scenario, ctrl, txVars, bgen, ledVars, current, ret>>

\* A message is queued and flushed at once: the peer's socket takes
\* everything, or nothing yet, or is gone and the slot closed.  A full queue
\* closes the slot; a slot without client keeps nothing.
Sends(slot) ==
    IF ~slot.open THEN {slot}
    ELSE IF slot.out = Capacity THEN {Vacant}
    ELSE {[slot EXCEPT !.out = 0], [slot EXCEPT !.out = @ + 1], Vacant}

Takes(slot) == slot.open /\ slot.out < Capacity

\* client_slot_broadcast_queued.
Broadcast == conf' \in {f \in [Slots -> UNION {Sends(conf[i]) : i \in Slots}] :
                           \A i \in Slots : f[i] \in Sends(conf[i])}

-----------------------------------------------------------------------------
(* config_dispatch_apply_line: the answer to a line and what it changes.   *)

Answers(reply) == {[reply |-> reply, ctrl |-> ctrl]}

SetValue(cmd) ==
    {[reply |-> "OK", ctrl |-> [ctrl EXCEPT !.values[cmd.key] = cmd.value]]}

\* Drain before disable.
SetTxQueue(cmd) ==
    SetValue(cmd) \union (IF cmd.value = 0 THEN Answers("ERR BUSY") ELSE {})

SetCadMonitor(cmd) ==
    {[reply |-> "OK",
      ctrl |-> [ctrl EXCEPT !.monitor = (cmd.value = 1), !.streak = 0,
                            !.latch = @ /\ cmd.value = 1]]}

\* GET CHANNEL does not scan over a pending packet or a transmission.
GetChannel ==
    Answers("CHANNEL PENDING") \union Answers("CHANNEL UNAVAILABLE")
    \union (IF txBusy \/ ctrl.health # "READY" THEN {}
            ELSE Answers("CHANNEL FREE") \union Answers("CHANNEL BUSY"))

\* The generic path: SET GETRSSI, a SET of RF keys, anything else.
Apply(cmd) ==
    IF ctrl.health # "READY" THEN Answers("ERR RADIO_NOT_READY")
    ELSE CASE cmd.op = "getrssi" ->
                {[reply |-> "OK",
                  ctrl |-> [ctrl EXCEPT !.getrssi = (cmd.value = 1)]]}
           [] cmd.op = "rf" ->
                Answers("OK") \union Answers("ERR INVALID")
                \union Answers("ERR BUSY")
                \union {[reply |-> "ERR HARDWARE",
                         ctrl |-> [ctrl EXCEPT !.health = "FAILED"]]}
           [] OTHER -> Answers("ERR UNKNOWN") \union Answers("ERR MALFORMED")

Garbage == [op |-> "other", key |-> "", value |-> 0]
Command(line) == IF Len(line) = 1 THEN line[1] ELSE Garbage

\* In the dispatcher's order.  "bad" is a reserved key with a value it does
\* not take, or with none (config_status_classify_reserved_setter).
Outcomes(line) ==
    LET cmd == Command(line) IN
    CASE cmd.op = "status" -> Answers("STATUS")
      [] cmd.op = "stats" -> Answers("STATS")
      [] cmd.op = "noscan" -> Answers("CHANNEL PENDING")
                              \union Answers("CHANNEL NOTSCANNED")
      [] cmd.op = "channel" -> GetChannel
      [] cmd.op = "set" /\ cmd.key = "TXQUEUE" -> SetTxQueue(cmd)
      [] cmd.op = "set" /\ cmd.key = "CADMONITOR" -> SetCadMonitor(cmd)
      [] cmd.op = "set" /\ cmd.key \notin {"TXQUEUE", "CADMONITOR"} ->
           SetValue(cmd)
      [] cmd.op = "bad" ->
           Answers(IF cmd.value = 0 THEN "ERR MALFORMED" ELSE "ERR INVALID")
      [] OTHER -> Apply(cmd)

\* Applying a configuration waits for the radio mutex, which the worker
\* holds from the first LED update to the end of the transmission.
WorkerHasRadio == wpc \in {"look1", "write1", "air"}
MayDispatch(line) ==
    Command(line).op \in {"rf", "getrssi"} => ~WorkerHasRadio

-----------------------------------------------------------------------------
(* config_stream_feed, word by word.  A read goes on (more) or ends; once  *)
(* begun it goes on even when an answer that found no room has closed the  *)
(* slot: the lines that follow are applied and their answers dropped.      *)

CR == [op |-> "CR", key |-> "", value |-> 0]
LF == [op |-> "LF", key |-> "", value |-> 0]

WordsRead[i \in 0..MaxClients] ==
    IF i = 0 THEN 0 ELSE Len(hist[i].said) + WordsRead[i - 1]

NextSlot ==
    IF cursor = MaxClients THEN mpc' = "flush" /\ cursor' = 1
                           ELSE mpc' = "conf" /\ cursor' = cursor + 1

ReadGoesOn(more) ==
    IF more THEN mpc' = "feeding" /\ UNCHANGED cursor ELSE NextSlot

\* A LF with nothing before it is no line.
EmitsLine(line) == line # <<>>

\* config_stream_emit: the line goes to the dispatcher, the answer to the
\* slot; h is the history with the LF.
Emit(i, h) ==
    /\ MayDispatch(conf[i].line)
    /\ \E s \in Sends([conf[i] EXCEPT !.line = <<>>]) :
         conf' = [conf EXCEPT ![i] = s]
    /\ \E o \in Outcomes(conf[i].line) :
         /\ ctrl' = o.ctrl
         /\ Keep(IF Takes(conf[i]) THEN [h EXCEPT ![i].told = Append(@, o.reply)]
                                   ELSE h)

Feed(w, more) ==
    /\ mpc = "feeding" \/ (mpc = "conf" /\ HasClient(cursor))
    /\ WordsRead[MaxClients] + (IF more THEN 1 ELSE 0) < scenario.words
    /\ LET i == cursor
           line == conf[i].line
           h == [hist EXCEPT ![i].said = Append(@, w)]
       IN  \/ /\ w = CR \/ (w = LF /\ ~EmitsLine(line))
              /\ UNCHANGED <<conf, ctrl>>
              /\ Keep(h)
              /\ ReadGoesOn(more)
           \/ /\ w = LF /\ EmitsLine(line)
              /\ Emit(i, h)
              /\ ReadGoesOn(more)
           \/ /\ w \notin {CR, LF} /\ Len(line) + 1 < LineLen
              /\ conf' = [conf EXCEPT ![i].line = Append(@, w)]
              /\ Keep(h)
              /\ ReadGoesOn(more)
              /\ UNCHANGED ctrl
           \/ /\ w \notin {CR, LF} /\ Len(line) + 1 >= LineLen /\ ~more
              /\ conf' = [conf EXCEPT ![i] = Vacant]   \* EMSGSIZE
              /\ Keep(h)
              /\ NextSlot
              /\ UNCHANGED ctrl
    /\ UNCHANGED <<scenario, txVars, bgen, ledVars, current, ret>>

\* read() returns 0: what is left of a line is one, then the slot is closed.
ConfEof ==
    /\ mpc = "conf" /\ HasClient(cursor)
    /\ LET line == conf[cursor].line IN
         IF line = <<>> THEN UNCHANGED ctrl
         ELSE /\ MayDispatch(line)
              /\ \E o \in Outcomes(line) : ctrl' = o.ctrl
    /\ conf' = [conf EXCEPT ![cursor] = Vacant]
    /\ Keep(hist)
    /\ NextSlot
    /\ UNCHANGED <<scenario, txVars, bgen, ledVars, current, ret>>

NotReady ==
    /\ mpc = "conf"
    /\ NextSlot
    /\ UNCHANGED <<connVars, ctrl, txVars, bgen, ledVars, current, ret>>

\* client_slot_flush_ready_outputs.
ConfFlush ==
    /\ mpc = "flush"
    /\ \E S \in SUBSET {i \in Slots : conf[i].out > 0} :
         conf' = [i \in Slots |-> IF i \in S THEN [conf[i] EXCEPT !.out = 0]
                                             ELSE conf[i]]
    /\ mpc' = "txload"
    /\ UNCHANGED <<hist, scenario, ctrl, txVars, bgen, ledVars,
                   cursor, current, ret>>

-----------------------------------------------------------------------------
(* daemon_process_monitoring.                                              *)

TxLoad ==
    /\ mpc = "txload"
    /\ current' = gen /\ mpc' = "txloop"
    /\ UNCHANGED <<connVars, ctrl, txVars, bgen, ledVars, cursor, ret>>

\* daemon_monitoring_tx_status_next_busy.
NextBusyIsBusy(observed) == txBusy
NextBusy(observed) == observed % 2 = 0

TxAnnounce ==
    /\ mpc = "txloop" /\ bgen # current
    /\ bgen' = (bgen + 1) % GenMod
    /\ Broadcast
    /\ Keep([i \in Slots |->
                [hist[i] EXCEPT !.heard = Append(@, NextBusy(bgen))]])
    /\ UNCHANGED <<scenario, ctrl, txVars, ledVars, mainVars>>

TxAnnounced ==
    /\ mpc = "txloop" /\ bgen = current
    /\ mpc' = "cad" /\ current' = 0        \* a local of the tick
    /\ UNCHANGED <<connVars, ctrl, txVars, bgen, ledVars, cursor, ret>>

ThenSync(label) == mpc' = "sync" /\ ret' = label

Subscribed == HasClients /\ ctrl.monitor

\* Not subscribed: no stale busy latch is kept.
CadUnsubscribed ==
    /\ mpc = "cad" /\ ~Subscribed
    /\ ctrl' = [ctrl EXCEPT !.latch = FALSE, !.streak = 0]
    /\ ThenSync("rssi")
    /\ UNCHANGED <<connVars, txVars, bgen, ledVars, cursor, current>>

\* The timer is not due, the radio not ready or not in LoRa mode, or the
\* probe has no reading.
CadSkips ==
    /\ mpc = "cad" /\ Subscribed
    /\ mpc' = "rssi"
    /\ UNCHANGED <<connVars, ctrl, txVars, bgen, ledVars, cursor,
                   current, ret>>

\* daemon_monitoring_cad_next_busy on a level at or above the threshold, in
\* the dead band below it, or below that.
FreeConfirmSamples == 2
NextCad(level) ==
    IF level = "busy" THEN [latch |-> TRUE, streak |-> 0]
    ELSE IF ~ctrl.latch THEN [latch |-> FALSE, streak |-> 0]
    ELSE IF level = "band" THEN [latch |-> TRUE, streak |-> 0]
    ELSE IF ctrl.streak + 1 >= FreeConfirmSamples
    THEN [latch |-> FALSE, streak |-> 0]
    ELSE [latch |-> TRUE, streak |-> ctrl.streak + 1]

\* daemon_cad_monitor_tick, the edge's broadcast, the LED.
CadTick(level) ==
    /\ mpc = "cad" /\ Subscribed
    /\ ctrl.health = "READY" /\ ~txBusy /\ ~WorkerHasRadio
    /\ LET next == NextCad(level) IN
         /\ ctrl' = [ctrl EXCEPT !.latch = next.latch, !.streak = next.streak]
         /\ IF next.latch # ctrl.latch THEN Broadcast ELSE UNCHANGED conf
    /\ Keep(hist)
    /\ ThenSync("rssi")
    /\ UNCHANGED <<scenario, txVars, bgen, ledVars,
                   cursor, current>>

\* Auto-stop without clients; a reading when it is due and the radio free.
Rssi ==
    /\ mpc = "rssi"
    /\ ctrl' = [ctrl EXCEPT !.getrssi = @ /\ HasClients]
    /\ \/ UNCHANGED conf
       \/ /\ ctrl'.getrssi /\ ctrl.health = "READY"
          /\ ~txBusy /\ ~WorkerHasRadio
          /\ Broadcast
    /\ Keep(hist)
    /\ ThenSync("accept")
    /\ UNCHANGED <<scenario, txVars, bgen, ledVars,
                   cursor, current>>

-----------------------------------------------------------------------------
(* daemon_radio_runtime_sync_led, of either thread.                        *)

Desired == txBusy \/ ctrl.latch

LedUnlocked == TRUE
LedFree == ledLock = "free"

LedLook(t) ==
    /\ LedFree
    /\ ledLock' = t
    /\ look' = [look EXCEPT ![t] = Desired]
    /\ UNCHANGED led

LedWrite(t) ==
    /\ led' = look[t]
    /\ ledLock' = "free"
    /\ look' = [look EXCEPT ![t] = FALSE]

MainLook ==
    /\ mpc = "sync" /\ LedLook("main") /\ mpc' = "write"
    /\ UNCHANGED <<connVars, ctrl, txVars, bgen, cursor, current, ret>>

MainWrite ==
    /\ mpc = "write" /\ LedWrite("main") /\ mpc' = ret /\ ret' = "accept"
    /\ UNCHANGED <<connVars, ctrl, txVars, bgen, cursor, current>>

\* lora_send on the worker's thread: tx_busy.exchange, generation, (with the
\* radio mutex) the LED, the transmission; tx_busy, generation, the LED.
WorkerGoes(from, to) == wpc = from /\ wpc' = to

TxAcquire ==
    /\ WorkerGoes("idle", "count1") /\ txs < scenario.txs /\ ctrl.health = "READY"
    /\ txBusy' = TRUE /\ txs' = txs + 1
    /\ UNCHANGED <<connVars, ctrl, gen, bgen, ledVars, mainVars>>

TxCount ==
    /\ WorkerGoes("count1", "look1") \/ WorkerGoes("count2", "look2")
    /\ gen' = (gen + 1) % GenMod
    /\ UNCHANGED <<connVars, ctrl, txBusy, txs, bgen, ledVars, mainVars>>

WorkerLook ==
    /\ WorkerGoes("look1", "write1") \/ WorkerGoes("look2", "write2")
    /\ LedLook("worker")
    /\ UNCHANGED <<connVars, ctrl, txBusy, gen, txs, bgen, mainVars>>

WorkerWrite ==
    /\ WorkerGoes("write1", "air") \/ WorkerGoes("write2", "idle")
    /\ LedWrite("worker")
    /\ UNCHANGED <<connVars, ctrl, txBusy, gen, txs, bgen, mainVars>>

TxRelease ==
    /\ WorkerGoes("air", "count2")
    /\ txBusy' = FALSE
    /\ UNCHANGED <<connVars, ctrl, gen, txs, bgen, ledVars, mainVars>>

Worker == TxAcquire \/ TxCount \/ WorkerLook \/ WorkerWrite \/ TxRelease

ConfNext ==
    \/ ConfAccept \/ ConfEof \/ NotReady \/ ConfFlush
    \/ \E w \in scenario.cmds \union {CR, LF}, more \in BOOLEAN : Feed(w, more)
    \/ TxLoad \/ TxAnnounce \/ TxAnnounced
    \/ CadUnsubscribed \/ CadSkips
    \/ \E level \in {"busy", "band", "free"} : CadTick(level)
    \/ Rssi \/ MainLook \/ MainWrite \/ Worker

ConfSpec == ConfInit /\ [][ConfNext]_confVars

-----------------------------------------------------------------------------
(* Properties.                                                             *)

\* The lines of a whole stream, for comparison: where the words stand of the
\* line that is open after the first n, where lines end, and what command
\* the line that ends at k is.
LineBefore(words, n) ==
    {j \in 1..n : words[j] \notin {CR, LF} /\ \A l \in j..n : words[l] # LF}
LineEnds(words) ==
    {k \in 1..Len(words) : words[k] = LF /\ LineBefore(words, k - 1) # {}}
CommandAt(words, k) ==
    LET line == LineBefore(words, k - 1)
    IN  IF Cardinality(line) = 1 THEN words[CHOOSE j \in line : TRUE] ELSE Garbage

AnswersTo(cmd) ==
    CASE cmd.op = "status" -> {"STATUS"}
      [] cmd.op = "stats" -> {"STATS"}
      [] cmd.op = "noscan" -> {"CHANNEL PENDING", "CHANNEL NOTSCANNED"}
      [] cmd.op = "channel" -> {"CHANNEL PENDING", "CHANNEL UNAVAILABLE",
                                "CHANNEL FREE", "CHANNEL BUSY"}
      [] OTHER -> {"OK", "ERR BUSY", "ERR INVALID", "ERR MALFORMED",
                   "ERR UNKNOWN", "ERR RADIO_NOT_READY", "ERR HARDWARE"}

\* One answer per line, to the client that sent it (config_dispatch_reply's
\* comment): however its bytes are cut into reads, and whoever had the slot
\* before, a connected client has been answered each of its lines, in order
\* and with the kind of answer the line asks for, and nothing else.
RepliesMatchLines ==
    \A i \in Slots : HasClient(i) =>
        LET said == hist[i].said
            told == hist[i].told
            ends == LineEnds(said)
        IN  /\ Len(told) = Cardinality(ends)
            /\ \A k \in ends :
                 told[Cardinality({e \in ends : e <= k})]
                   \in AnswersTo(CommandAt(said, k))

\* daemon_process_tx_status announces from the generation, not from tx_busy:
\* transmissions that begin or end between two ticks, or during one, reach a
\* connected client as TX=1 and TX=0 in turn, none missing, none twice, and
\* when everything is announced and no transmission is changing state the
\* last of them is the state of tx_busy.
TxStatusExact ==
    /\ \A i \in Slots : HasClient(i) =>
         LET h == hist[i] IN
         /\ (h.from + Len(h.heard)) % GenMod = bgen
         /\ \A n \in 1..Len(h.heard) : h.heard[n] = ((h.from + n - 1) % 2 = 0)
    /\ (bgen = gen /\ wpc \notin {"count1", "count2"}) =>
         txBusy = (bgen % 2 = 1)

\* Two threads drive the LED.  Between two passes, and with the worker not
\* between a change of tx_busy and its own update, the LED shows
\* tx_busy || cad_broadcast_active: neither thread's update is lost to the
\* other's older look, and no latch outlives its subscription.
LedFollows ==
    (mpc = "accept" /\ wpc \in {"idle", "air"}) => led = Desired
=============================================================================
