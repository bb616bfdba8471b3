---------------------------- MODULE FramedParser ----------------------------
(***************************************************************************)
(* The framed DATA stream parser, byte by byte: framed_data_tx_feed_state  *)
(* and the state of one client slot it keeps between reads.  Bytes are     *)
(* digits of base Base (256), a length is two of them, low first, and the  *)
(* RF payload limit is Base - 1 (255), so that the smallest length that    *)
(* needs the high byte is the smallest that is too large, as in the code.  *)
(*                                                                         *)
(* Where the frames of a whole stream begin and what they come to is said  *)
(* without the parser; it has to report the same however the bytes are cut *)
(* into reads.                                                             *)
(***************************************************************************)
EXTENDS Naturals, Sequences

CONSTANTS
    Base,        \* values of a byte (256)
    MaxStream    \* bound: bytes one client sends

ASSUME BaseAssumption == Base \in Nat /\ Base > 2 /\ MaxStream \in Nat

\* FRAMED_DATA_TYPE_*: every other value is unknown.
RxPacket == 1
TxPacket == 2
TypeKnown(t) == t \in {RxPacket, TxPacket}
MaxRfPayload == Base - 1
HeaderLen == 3
Bytes == 0..(Base - 1)
PayloadLen(header) == header[2] + Base * header[3]
RfPayloadLenValid(n) == n <= MaxRfPayload

VARIABLES
    parser,   \* FramedDataTxState of the slot
    open,     \* the slot has a client
    clean,    \* history: the parser was fresh when it was accepted
    stream,   \* history: all bytes of this client so far
    events,   \* history: what the parser reported of them, one per frame
    frames    \* history: positions at which it was between two frames

parserVars == <<parser, open, clean, stream, events, frames>>

\* framed_data_tx_state_init; skip is the field set after it.
FreshStateNoSkip(skip) == [header |-> <<>>, payload |-> <<>>, expected |-> 0,
                           type |-> 0, skip |-> 0]
FreshState(skip) == [header |-> <<>>, payload |-> <<>>, expected |-> 0,
                     type |-> 0, skip |-> skip]

ParserInit == /\ parser = FreshState(0) /\ open = FALSE /\ clean = TRUE
              /\ stream = <<>> /\ events = <<>> /\ frames = <<1>>

\* What a frame comes to: an error, or a packet for the TX path, with the
\* path's result ("TX failed" is reported of any but 0).
Error(msg) == [kind |-> "error", what |-> <<msg>>, result |-> 0]
Packet(p, result) == [kind |-> "packet", what |-> p, result |-> result]

\* framed_data_tx_header_ready on a complete header: why the frame is
\* rejected, or "none".
Rejection(header) ==
    IF ~TypeKnown(header[1]) THEN "unknown frame type"
    ELSE IF RfPayloadLenValid(PayloadLen(header)) THEN "none"
    ELSE IF header[1] = TxPacket THEN "TX payload too large"
    ELSE "unsupported frame too large"

\* framed_data_tx_complete_frame: the packet goes to the TX path, which may
\* refuse it; a frame of another type is an error.
Completed(type, payload, result) ==
    IF type = TxPacket THEN Packet(payload, result)
                       ELSE Error("unsupported client frame")

\* One byte of framed_data_tx_feed_state: what it reports, and the state
\* after it.
StepSkip(st) == [report |-> <<>>, st |-> [st EXCEPT !.skip = @ - 1]]

StepHeader(st, byte, result) ==
    LET h == Append(st.header, byte) IN
    IF Len(h) < HeaderLen
    THEN [report |-> <<>>, st |-> [st EXCEPT !.header = h]]
    ELSE IF Rejection(h) # "none"
    THEN [report |-> <<Error(Rejection(h))>>, st |-> FreshState(PayloadLen(h))]
    ELSE IF PayloadLen(h) = 0
    THEN [report |-> <<Completed(h[1], <<>>, result)>>, st |-> FreshState(0)]
    ELSE [report |-> <<>>,
          st |-> [st EXCEPT !.header = h, !.type = h[1],
                            !.expected = PayloadLen(h)]]

StepPayload(st, byte, result) ==
    LET p == Append(st.payload, byte) IN
    IF Len(p) = st.expected
    THEN [report |-> <<Completed(st.type, p, result)>>, st |-> FreshState(0)]
    ELSE [report |-> <<>>, st |-> [st EXCEPT !.payload = p]]

Step(st, byte, result) ==
    IF st.skip > 0 THEN StepSkip(st)
    ELSE IF Len(st.header) < HeaderLen THEN StepHeader(st, byte, result)
    ELSE StepPayload(st, byte, result)

\* daemon_process_framed_data_slots: one byte of what was read; EOF or a
\* read error (the state starts afresh, the client is closed).  The daemon
\* may also close the client itself between two of its bytes: the pass that
\* finds the slot empty gives it a fresh state, but a client accepted before
\* that pass inherits the old one (module FramedChannel).
Accepted == /\ ~open
            /\ open' = TRUE /\ clean' = (parser = FreshState(0))
            /\ UNCHANGED <<parser, stream, events, frames>>

Byte(byte, result) ==
    /\ open /\ Len(stream) < MaxStream
    /\ LET s == Step(parser, byte, result) IN
         /\ parser' = s.st
         /\ events' = events \o s.report
    /\ stream' = Append(stream, byte)
    /\ frames' = IF parser' = FreshState(0) THEN Append(frames, Len(stream') + 1)
                                            ELSE frames
    /\ UNCHANGED <<open, clean>>

Forget == /\ open' = FALSE /\ clean' = TRUE
          /\ stream' = <<>> /\ events' = <<>> /\ frames' = <<1>>

Ended == open /\ Forget /\ parser' = FreshState(0)

Evicted == open /\ Forget /\ UNCHANGED parser

EmptySlotPass == /\ ~open /\ parser' = FreshState(0)
                 /\ UNCHANGED <<open, clean, stream, events, frames>>

ParserNext ==
    \/ Accepted \/ Ended \/ Evicted \/ EmptySlotPass
    \/ \E b \in Bytes, result \in {0, 1} : Byte(b, result)

ParserSpec == ParserInit /\ [][ParserNext]_parserVars

-----------------------------------------------------------------------------
(* A whole stream, for comparison: the frame that begins at position i.    *)

FrameAt(s, i) == SubSeq(s, i, i + HeaderLen - 1)
HasHeader(s, i) == i + HeaderLen - 1 <= Len(s)
FrameEnd(s, i) == i + HeaderLen - 1 + PayloadLen(FrameAt(s, i))
IsComplete(s, i) == HasHeader(s, i) /\ FrameEnd(s, i) <= Len(s)
IsRejected(s, i) == HasHeader(s, i) /\ Rejection(FrameAt(s, i)) # "none"

\* What it comes to; a packet may be refused by the TX path.
FrameEvents(s, i) ==
    LET h == FrameAt(s, i) IN
    IF Rejection(h) # "none" THEN {Error(Rejection(h))}
    ELSE {Completed(h[1], SubSeq(s, i + HeaderLen, FrameEnd(s, i)), result) :
            result \in {0, 1}}

\* f is where the frames of s begin, one after the other from its first
\* byte on, up to the frame that is not complete.
Begins(s, f) ==
    /\ f[1] = 1
    /\ \A n \in 1..(Len(f) - 1) :
         IsComplete(s, f[n]) /\ f[n + 1] = FrameEnd(s, f[n]) + 1
    /\ ~IsComplete(s, f[Len(f)])

\* Frame boundaries fall anywhere in the reads: the parser is between two
\* frames exactly where the client's stream, taken as a whole, has them, and
\* has reported of each the packet or the error it comes to, once and in
\* order, whatever is skipped or cut short; of the last, incomplete one it
\* has reported nothing, unless its header is one to reject.
ParserMatchesFrames ==
    (open /\ clean) =>
        LET last == Len(frames) IN
        /\ Begins(stream, frames)
        /\ Len(events) = IF IsRejected(stream, frames[last]) THEN last ELSE last - 1
        /\ \A n \in 1..Len(events) : events[n] \in FrameEvents(stream, frames[n])
=============================================================================
