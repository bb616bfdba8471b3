--------------------------- MODULE FramedChannel ---------------------------
(***************************************************************************)
(* The framed DATA socket of one daemon process: client slots and their    *)
(* generations, the per-slot stream parser, the output queues, and the     *)
(* way of a TX_PACKET to its TX_RESULT: at once on the direct path, through *)
(* the TX queue and the completion queue otherwise.                        *)
(*                                                                         *)
(* The main loop's order is part of the model: accept, framed input (slot  *)
(* by slot), completion drain, CONF, output flush, RX broadcast.  The      *)
(* worker thread (module TxWorker) runs beside it and is here one step     *)
(* that turns the oldest job into a completion.  A read is a number of     *)
(* stream units: part of a frame, the end of a TX_PACKET, a rejected       *)
(* header, part of a payload being skipped.  A message is one entry of     *)
(* the output queue, whose capacity counts messages instead of bytes.      *)
(***************************************************************************)
EXTENDS Naturals, Sequences, FiniteSets

CONSTANTS
    MaxClients,          \* MAX_CLIENTS (10)
    MaxConns,            \* bound: connections accepted
    MaxTx,               \* bound: packets handed to the TX path
    MaxUnits,            \* bound: stream units in one read
    OutCapacity,         \* messages in CLIENT_OUTPUT_QUEUE_CAPACITY
    JobCapacity,         \* jobs queued or executing
    CompletionCapacity,  \* DAEMON_TX_COMPLETION_QUEUE_CAPACITY (16)
    GenModulus           \* 2^32: the width of a slot generation

\* A slot's generation changes at most twice per connection, so the bound on
\* the connections keeps it from wrapping.  A slot closed in mid-read can hold
\* the answers to the rest of the read: 512 bytes are at most 170 frames, whose
\* answers take under 5 KiB of the 64.
ASSUME BoundsAssumption ==
    /\ {MaxClients, MaxUnits, OutCapacity, JobCapacity, CompletionCapacity}
          \subseteq Nat \ {0}
    /\ MaxConns \in Nat /\ MaxTx \in Nat
    /\ MaxUnits <= OutCapacity + 1
    /\ GenModulus \in Nat /\ GenModulus > 2 * MaxConns + 1

VARIABLES
    conn,          \* per slot: the connection behind slot->fd, or NoConn
    generation,    \* per slot: slot->generation
    parse,         \* per slot: client_framed_states[i]
    output,        \* per slot: slot->output
    jobs,          \* TX jobs accepted and not recorded, oldest first
    finished,      \* the oldest is over (job_active is down), not recorded
    completions,   \* the completion queue
    stale,         \* daemon_tx_async_completion_stale (TXQSTALE)
    tx_result_active, tx_queue_active,   \* SET TXRESULT, SET TXQUEUE
    pc,            \* the phase of the main loop
    cursor,        \* the slot it is at
    reader, left,  \* the read being parsed: its connection, units to come
    accepts, sent, \* connections accepted, packets handed over so far
    answers,       \* history: per packet, the TX_RESULTs queued for it
    overflowed,    \* history: packets whose completion was pushed out
    evicted,       \* history: connections the daemon itself closed
    mixed          \* history: a packet was put together from two connections

slotVars == <<conn, generation, parse, output>>
txVars == <<jobs, finished, completions, stale, sent, answers, overflowed,
            mixed>>
settings == <<tx_result_active, tx_queue_active>>
control == <<pc, cursor, reader, left>>
vars == <<slotVars, txVars, settings, control, accepts, evicted>>

Slots == 1..MaxClients
Conns == 1..MaxConns
Packets == 1..MaxTx
NoConn == 0
SlotNone == 0      \* DAEMON_TX_COMPLETION_SLOT_NONE

\* Where a job's result goes: a slot and its generation; tx, conn and asked
\* (TXRESULT was on) remember the request.
Job == [slot : Slots \union {SlotNone}, generation : 0..(GenModulus - 1),
        tx : Packets, conn : Conns \union {NoConn}, asked : BOOLEAN]

\* An RX_PACKET or ERROR frame, or the TX_RESULT of packet tx of connection
\* conn; enabled: TXRESULT was on at the request or at the emission.
Message == [tx : Packets \union {0}, conn : Conns \union {NoConn},
            enabled : BOOLEAN]
Other == [tx |-> 0, conn |-> NoConn, enabled |-> TRUE]

\* The parser's state: which connections' bytes it has taken in since it was
\* last initialised, and whether they are a payload to be skipped.
Fresh == [from |-> {}, skip |-> FALSE]

TypeOK ==
    /\ conn \in [Slots -> Conns \union {NoConn}]
    /\ generation \in [Slots -> 1..(GenModulus - 1)]
    /\ parse \in [Slots -> [from : SUBSET Conns, skip : BOOLEAN]]
    /\ output \in [Slots -> Seq(Message)]
    /\ \A i \in Slots : Len(output[i]) <= OutCapacity
    /\ jobs \in Seq(Job) /\ Len(jobs) <= JobCapacity
    /\ completions \in Seq(Job) /\ Len(completions) <= CompletionCapacity
    /\ stale \in Nat
    /\ finished \in BOOLEAN
    /\ tx_result_active \in BOOLEAN /\ tx_queue_active \in BOOLEAN
    /\ pc \in {"accept", "framed", "feed", "drain", "deliver", "conf",
               "flush", "rx", "broadcast"}
    /\ cursor \in 1..(MaxClients + 1)
    /\ reader \in Conns \union {NoConn} /\ left \in 0..MaxUnits
    /\ accepts \in 0..MaxConns /\ sent \in 0..MaxTx
    /\ answers \in [Packets -> Nat]
    /\ overflowed \subseteq Packets /\ evicted \subseteq Conns
    /\ mixed \in BOOLEAN

Init ==
    /\ conn = [i \in Slots |-> NoConn]
    /\ generation = [i \in Slots |-> 1]
    /\ parse = [i \in Slots |-> Fresh]
    /\ output = [i \in Slots |-> <<>>]
    /\ jobs = <<>> /\ completions = <<>>
    /\ finished = FALSE
    /\ stale = 0
    /\ tx_result_active = FALSE /\ tx_queue_active = TRUE
    /\ pc = "accept" /\ cursor = 1 /\ reader = NoConn /\ left = 0
    /\ accepts = 0 /\ sent = 0
    /\ answers = [t \in Packets |-> 0]
    /\ overflowed = {} /\ evicted = {} /\ mixed = FALSE

-----------------------------------------------------------------------------
(* Client slots.                                                           *)

\* client_slot_next_generation: 0 is never a generation.
NextGeneration(g) == IF (g + 1) % GenModulus = 0 THEN 1
                     ELSE (g + 1) % GenModulus

HasClient(i) == conn[i] # NoConn

\* client_slot_close on a set of slots; the parser states are not theirs.
Close(S) ==
    /\ conn' = [i \in Slots |-> IF i \in S THEN NoConn ELSE conn[i]]
    /\ generation' = [i \in Slots |->
          IF i \in S THEN NextGeneration(generation[i]) ELSE generation[i]]

\* A slot the daemon closes on a client that is still there.
Evict(S) ==
    /\ Close(S)
    /\ evicted' = evicted \union ({conn[i] : i \in S} \ {NoConn})

\* Mutant: only closing a slot changes its generation.
SetFdKeepsGeneration(i, c) ==
    /\ conn' = [conn EXCEPT ![i] = c]
    /\ output' = [output EXCEPT ![i] = <<>>]
    /\ UNCHANGED generation

\* client_slot_set_fd
SetFd(i, c) ==
    /\ conn' = [conn EXCEPT ![i] = c]
    /\ generation' = [generation EXCEPT ![i] = NextGeneration(@)]
    /\ output' = [output EXCEPT ![i] = <<>>]

\* client_slot_add: the first free slot.
FirstFree(i) == ~HasClient(i) /\ \A j \in 1..(i - 1) : HasClient(j)

\* client_output_queue_append; a slot that cannot take the message is closed.
Queue(i, m) ==
    IF Len(output[i]) < OutCapacity
    THEN /\ output' = [output EXCEPT ![i] = Append(@, m)]
         /\ UNCHANGED <<conn, generation, evicted>>
    ELSE /\ output' = [output EXCEPT ![i] = <<>>]
         /\ Evict({i})

-----------------------------------------------------------------------------
(* Accept.                                                                 *)

AcceptClient ==
    /\ pc = "accept"
    /\ accepts < MaxConns
    /\ \E i \in Slots : FirstFree(i) /\ SetFd(i, accepts + 1)
    /\ accepts' = accepts + 1
    /\ pc' = "framed" /\ cursor' = 1
    /\ UNCHANGED <<parse, txVars, settings, reader, left, evicted>>

\* The listener is not ready, or no slot is free and the connection is
\* closed again.
AcceptNone ==
    /\ pc = "accept"
    /\ pc' = "framed" /\ cursor' = 1
    /\ UNCHANGED <<slotVars, txVars, settings, reader, left, accepts, evicted>>

\* A raw DATA chunk is queued: its job has no completion target.
RawChunk ==
    /\ pc = "framed" /\ cursor = 1
    /\ tx_queue_active /\ Len(jobs) < JobCapacity /\ sent < MaxTx
    /\ sent' = sent + 1
    /\ jobs' = Append(jobs, [slot |-> SlotNone, generation |-> 0,
                             tx |-> sent', conn |-> NoConn, asked |-> FALSE])
    /\ UNCHANGED <<slotVars, finished, completions, stale, answers,
                   overflowed, mixed, settings, control, accepts,
                   evicted>>

-----------------------------------------------------------------------------
(* Framed input: daemon_process_framed_data_slots.                         *)

AtSlot == pc = "framed" /\ cursor \in Slots

NextSlot == pc' = "framed" /\ cursor' = cursor + 1

\* An empty slot gets a fresh parser.
SlotEmpty ==
    /\ AtSlot /\ ~HasClient(cursor)
    /\ parse' = [parse EXCEPT ![cursor] = Fresh]
    /\ NextSlot
    /\ UNCHANGED <<conn, generation, output, txVars, settings, reader, left,
                   accepts, evicted>>

SlotNotReady ==
    /\ AtSlot /\ HasClient(cursor)
    /\ NextSlot
    /\ UNCHANGED <<slotVars, txVars, settings, reader, left, accepts, evicted>>

\* Mutant: the parser keeps what the client had begun.
ParserKept == UNCHANGED parse

ParserReset == parse' = [parse EXCEPT ![cursor] = Fresh]

\* The peer closed, or reading failed.
SlotEof ==
    /\ AtSlot /\ HasClient(cursor)
    /\ ParserReset
    /\ Close({cursor})
    /\ output' = [output EXCEPT ![cursor] = <<>>]
    /\ NextSlot
    /\ UNCHANGED <<txVars, settings, reader, left, accepts, evicted>>

SlotRead ==
    /\ AtSlot /\ HasClient(cursor)
    /\ reader' = conn[cursor]
    /\ left' \in 1..MaxUnits
    /\ pc' = "feed"
    /\ UNCHANGED <<slotVars, txVars, settings, cursor, accepts, evicted>>

\* framed_data_tx_feed_state has used one unit of the read.
UnitDone ==
    /\ left' = left - 1
    /\ IF left = 1
       THEN NextSlot /\ reader' = NoConn
       ELSE UNCHANGED <<pc, cursor, reader>>

\* Bytes that complete nothing, of a frame or of a payload being skipped.
FeedPart ==
    /\ pc = "feed"
    /\ parse' = [parse EXCEPT ![cursor].from = @ \union {reader}]
    /\ UnitDone
    /\ UNCHANGED <<conn, generation, output, txVars, settings, accepts, evicted>>

\* The last bytes of a skipped payload.
FeedResync ==
    /\ pc = "feed" /\ parse[cursor].skip
    /\ parse' = [parse EXCEPT ![cursor] = Fresh]
    /\ UnitDone
    /\ UNCHANGED <<conn, generation, output, txVars, settings, accepts, evicted>>

\* A frame is rejected with an ERROR: at its header, its payload to be
\* skipped, or complete but of a type a client does not send.
FeedRejected ==
    /\ pc = "feed" /\ ~parse[cursor].skip
    /\ Queue(cursor, Other)
    /\ parse' \in {[parse EXCEPT ![cursor] = Fresh],
                   [parse EXCEPT ![cursor] = [from |-> {reader},
                                              skip |-> TRUE]]}
    /\ UnitDone
    /\ UNCHANGED <<txVars, settings, accepts>>

\* Mutant: the deferred result does not suppress the immediate one.
ImmediateAlways(failed) == tx_result_active

\* daemon_framed_tx_should_emit_immediate_result
ImmediateResult(failed) == tx_result_active /\ (~tx_queue_active \/ failed)

\* daemon_framed_tx_packet: a TX_PACKET is complete and goes to the TX path,
\* its result to be sent to the slot as it is now.
FeedPacket ==
    /\ pc = "feed" /\ ~parse[cursor].skip
    /\ sent < MaxTx
    /\ sent' = sent + 1
    /\ mixed' = (mixed \/ parse[cursor].from \union {reader} # {reader})
    /\ \E failed \in BOOLEAN :
          /\ IF tx_queue_active /\ ~failed
             THEN /\ Len(jobs) < JobCapacity
                  /\ jobs' = Append(jobs,
                        [slot |-> cursor, generation |-> generation[cursor],
                         tx |-> sent', conn |-> reader,
                         asked |-> tx_result_active])
             ELSE UNCHANGED jobs
          /\ IF ImmediateResult(failed)
             THEN /\ answers' = [answers EXCEPT ![sent'] = @ + 1]
                  /\ Queue(cursor, [tx |-> sent', conn |-> reader,
                                    enabled |-> TRUE])
             ELSE /\ UNCHANGED answers
                  /\ IF failed /\ ~tx_result_active
                     THEN Queue(cursor, Other)
                     ELSE UNCHANGED <<conn, generation, output, evicted>>
    /\ parse' = [parse EXCEPT ![cursor] = Fresh]
    /\ UnitDone
    /\ UNCHANGED <<finished, completions, stale, overflowed,
                   settings, accepts>>

\* Every slot has been looked at.
FramedDone ==
    /\ pc = "framed" /\ cursor = MaxClients + 1
    /\ pc' = "drain" /\ cursor' = 1
    /\ UNCHANGED <<slotVars, txVars, settings, reader, left, accepts, evicted>>

-----------------------------------------------------------------------------
(* The worker thread, seen from here.                                      *)

\* The oldest job has been executed.
WorkerFinish ==
    /\ jobs # <<>> /\ ~finished
    /\ finished' = TRUE
    /\ UNCHANGED <<slotVars, jobs, completions, stale, sent, answers,
                   overflowed, mixed, settings, control,
                   accepts, evicted>>

\* Its result is pushed; a full completion queue forgets its oldest entry.
WorkerRecord ==
    /\ finished
    /\ finished' = FALSE
    /\ jobs' = Tail(jobs)
    /\ IF Len(completions) = CompletionCapacity
       THEN /\ completions' = Append(Tail(completions), Head(jobs))
            /\ overflowed' = overflowed \union {Head(completions).tx}
       ELSE /\ completions' = Append(completions, Head(jobs))
            /\ UNCHANGED overflowed
    /\ UNCHANGED <<slotVars, stale, sent, answers, mixed,
                   settings, control, accepts, evicted>>

-----------------------------------------------------------------------------
(* Completion drain: daemon_drain_framed_tx_completions.                   *)

\* Mutant: every targeted result is taken for a stale one.
AlwaysStale(r) == r.generation # 0

\* DAEMON_TX_COMPLETION_DELIVERY_STALE
IsStale(r) == r.generation # 0 /\ generation[r.slot] # r.generation

\* One result popped: no target, or a closed slot, or a stale one, or queued
\* for its client.
DrainOne ==
    /\ pc = "drain"
    /\ completions # <<>>
    /\ LET r == Head(completions)
           open == r.slot # SlotNone /\ HasClient(r.slot)
           deliver == open /\ ~IsStale(r)
       IN  /\ stale' = stale + (IF open /\ IsStale(r) THEN 1 ELSE 0)
           /\ IF deliver
              THEN /\ Queue(r.slot, [tx |-> r.tx, conn |-> r.conn,
                                     enabled |-> r.asked \/ tx_result_active])
                   /\ answers' = [answers EXCEPT ![r.tx] = @ + 1]
                   /\ pc' = "deliver" /\ cursor' = r.slot
              ELSE UNCHANGED <<conn, generation, output, evicted, answers,
                               pc, cursor>>
    /\ completions' = Tail(completions)
    /\ UNCHANGED <<parse, jobs, finished, sent, overflowed, mixed, settings,
                   reader, left, accepts>>

\* client_slot_flush_output on the slots of S: the kernel takes some of the
\* messages, or sending fails and the slot is closed.
Flush(S) ==
    \E failing \in SUBSET {i \in S : HasClient(i) /\ output[i] # <<>>} :
      \E n \in [S -> 0..OutCapacity] :
        /\ \A i \in S : n[i] <= Len(output[i])
        /\ Evict(failing)
        /\ output' = [i \in Slots |->
              IF i \in failing THEN <<>>
              ELSE IF i \in S THEN SubSeq(output[i], n[i] + 1, Len(output[i]))
              ELSE output[i]]

\* The delivery ends by flushing the slot it was for.
DeliverFlush ==
    /\ pc = "deliver"
    /\ Flush({cursor})
    /\ pc' = "drain" /\ cursor' = 1
    /\ UNCHANGED <<parse, txVars, settings, reader, left, accepts>>

DrainDone ==
    /\ pc = "drain"
    /\ completions = <<>>
    /\ pc' = "conf"
    /\ UNCHANGED <<slotVars, txVars, settings, cursor, reader, left, accepts,
                   evicted>>

-----------------------------------------------------------------------------
(* CONF, flush, RX.                                                        *)

\* What the TXQUEUE gate sees: nothing pending, no job active.
QueueIdle == jobs = <<>> \/ (Len(jobs) = 1 /\ finished)

\* SET TXRESULT=0|1, SET TXQUEUE=1, SET TXQUEUE=0 on an idle queue, or
\* nothing that matters here.
Conf ==
    /\ pc = "conf"
    /\ tx_result_active' \in BOOLEAN
    /\ tx_queue_active' \in (IF QueueIdle THEN BOOLEAN
                             ELSE {tx_queue_active, TRUE})
    /\ pc' = "flush"
    /\ UNCHANGED <<slotVars, txVars, cursor, reader, left, accepts, evicted>>

\* client_slot_flush_ready_outputs: the slots whose sockets can be written.
FlushReady ==
    /\ pc = "flush"
    /\ \E S \in SUBSET {i \in Slots : HasClient(i) /\ output[i] # <<>>} :
          Flush(S)
    /\ pc' = "rx"
    /\ UNCHANGED <<parse, txVars, settings, cursor, reader, left, accepts>>

\* client_slot_broadcast_bytes_queued, up to the flush: every client gets the
\* packet or is closed; a slot without a client has its output emptied.
BroadcastRx ==
    /\ pc = "rx"
    /\ LET full == {i \in Slots : HasClient(i) /\ Len(output[i]) = OutCapacity}
       IN  /\ Evict(full)
           /\ output' = [i \in Slots |->
                 IF ~HasClient(i) \/ i \in full THEN <<>>
                 ELSE Append(output[i], Other)]
    /\ pc' = "broadcast"
    /\ UNCHANGED <<parse, txVars, settings, cursor, reader, left, accepts>>

BroadcastFlush ==
    /\ pc = "broadcast"
    /\ Flush({i \in Slots : HasClient(i)})
    /\ pc' = "accept"
    /\ UNCHANGED <<parse, txVars, settings, cursor, reader, left, accepts>>

\* No packet was received.
NoRx ==
    /\ pc = "rx"
    /\ pc' = "accept"
    /\ UNCHANGED <<slotVars, txVars, settings, cursor, reader, left, accepts,
                   evicted>>

-----------------------------------------------------------------------------

MainStep ==
    \/ AcceptClient \/ AcceptNone
    \/ SlotEmpty \/ SlotNotReady \/ SlotEof \/ SlotRead
    \/ FeedPart \/ FeedResync \/ FeedRejected \/ FeedPacket \/ FramedDone
    \/ DrainOne \/ DeliverFlush \/ DrainDone
    \/ Conf \/ FlushReady \/ BroadcastRx \/ BroadcastFlush \/ NoRx

WorkerStep == WorkerFinish \/ WorkerRecord

\* A raw client writes when it likes: nobody owes the daemon a chunk.
Next == MainStep \/ WorkerStep \/ RawChunk

\* The main loop goes round and the worker works its queue off.
Fairness == WF_vars(MainStep) /\ WF_vars(WorkerStep)

Spec == Init /\ [][Next]_vars /\ Fairness

-----------------------------------------------------------------------------
(* Properties.                                                             *)

\* A TX_RESULT is only ever queued for the connection that sent the packet:
\* a late completion never reaches whoever inherited the slot, not even that
\* of a packet parsed after its client had been closed in mid-read.
ResultReachesItsClient ==
    \A i \in Slots : HasClient(i) =>
        \A k \in DOMAIN output[i] :
            output[i][k].tx # 0 => output[i][k].conn = conn[i]

\* A packet gets at most one TX_RESULT, whether it fails at once, is sent
\* directly or queued, and whatever TXRESULT and TXQUEUE are set to meanwhile.
AtMostOneResult == \A t \in Packets : answers[t] <= 1

\* A client that leaves takes its half-sent frame with it; only one the
\* daemon itself closed can leave bytes in the slot's parser.
OnlyEvictedLeaveBytes ==
    \A i \in Slots :
        HasClient(i) => parse[i].from \subseteq {conn[i]} \union evicted

\* Every queued packet of a client that stays connected gets its TX_RESULT,
\* unless a full completion queue pushed it out.
QueuedPacketAnswered ==
    \A t \in Packets, c \in Conns :
        (\E k \in DOMAIN jobs : jobs[k].tx = t /\ jobs[k].conn = c)
            ~> \/ answers[t] = 1
               \/ t \in overflowed
               \/ \A i \in Slots : conn[i] # c

\* The last two are what the documents say and the code does not hold (the
\* README gives the counterexamples).

\* docs/data-protocol.md, frame type TX_RESULT: "emitted only when enabled
\* with SET TXRESULT=1".
TxResultOnlyWhenEnabled ==
    \A i \in Slots : \A k \in DOMAIN output[i] : output[i][k].enabled

\* docs/data-protocol.md, Framing rules: "One valid TX_PACKET maps to one RF
\* transmit attempt": no packet is put together from two connections' bytes.
PacketFromOneClient == ~mixed

=============================================================================
