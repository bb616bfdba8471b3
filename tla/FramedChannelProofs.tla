------------------------- MODULE FramedChannelProofs -------------------------
(***************************************************************************)
(* Proofs about FramedChannel, for any number of slots, connections and    *)
(* packets and any capacity of the three queues; and about the stream      *)
(* parser (FramedParser).                                                  *)
(***************************************************************************)
EXTENDS FramedChannel, FramedParser, SequenceTheorems, TLAPS

\* The slots, their generations and the parsers.
SlotTypeOK ==
    /\ conn \in [Slots -> Conns \union {NoConn}]
    /\ generation \in [Slots -> 1..(GenModulus - 1)]
    /\ parse \in [Slots -> [from : SUBSET Conns, skip : BOOLEAN]]
    /\ accepts \in 0..MaxConns /\ evicted \subseteq Conns

\* The output queues.
OutputTypeOK ==
    /\ output \in [Slots -> Seq(Message)]
    /\ \A i \in Slots : Len(output[i]) <= OutCapacity

\* The way of a packet.
TxTypeOK ==
    /\ jobs \in Seq(Job) /\ Len(jobs) <= JobCapacity
    /\ completions \in Seq(Job) /\ Len(completions) <= CompletionCapacity
    /\ stale \in Nat
    /\ sent \in 0..MaxTx
    /\ answers \in [Packets -> Nat]
    /\ overflowed \subseteq Packets
    /\ finished => jobs # <<>>

FlagTypeOK ==
    /\ finished \in BOOLEAN /\ mixed \in BOOLEAN
    /\ tx_result_active \in BOOLEAN /\ tx_queue_active \in BOOLEAN

LoopTypeOK ==
    /\ pc \in {"accept", "framed", "feed", "drain", "deliver", "conf",
               "flush", "rx", "broadcast"}
    /\ cursor \in 1..(MaxClients + 1)
    /\ reader \in Conns \union {NoConn} /\ left \in 0..MaxUnits

\* Where the main loop is; while a read is parsed it is at a slot.
LoopInv ==
    /\ pc = "feed" => cursor \in Slots /\ reader \in Conns /\ left >= 1
    /\ pc = "deliver" => cursor \in Slots

Typing ==
    /\ SlotTypeOK /\ OutputTypeOK /\ TxTypeOK /\ FlagTypeOK
    /\ LoopTypeOK /\ LoopInv

\* While a read is parsed its slot is its connection's, or the daemon has
\* closed it in the meantime.
ReadInv ==
    pc = "feed" => \/ conn[cursor] = reader
                   \/ conn[cursor] = NoConn /\ reader \in evicted

\* A slot closed in mid-read holds the answers to the rest of the read, so it
\* is not closed a second time.
RoomInv ==
    pc = "feed" /\ conn[cursor] = NoConn =>
       Len(output[cursor]) + left <= OutCapacity

\* A slot's generation has changed once per connection it got and once per
\* connection it lost, so it has not wrapped.
GenerationInv ==
    \A i \in Slots :
       generation[i] <= 2 * accepts + (IF HasClient(i) THEN 0 ELSE 1)

\* A result whose slot still has the generation it was noted with is for the
\* connection in that slot, if there is one (g and c: the slots' generations
\* and connections).
AimedAt(r, g, c) ==
    r.slot # SlotNone =>
       /\ r.generation # 0 /\ r.generation <= g[r.slot]
       /\ r.generation = g[r.slot] /\ c[r.slot] # NoConn => r.conn = c[r.slot]

TargetInv ==
    /\ \A k \in DOMAIN jobs : AimedAt(jobs[k], generation, conn)
    /\ \A k \in DOMAIN completions : AimedAt(completions[k], generation, conn)

\* Packets are numbered in order and stay in order on their way; none on its
\* way has been answered.
Waiting(s) ==
    /\ \A k \in DOMAIN s : s[k].tx <= sent /\ answers[s[k].tx] = 0
    /\ \A k, l \in DOMAIN s : k < l => s[k].tx < s[l].tx

OrderInv ==
    /\ Waiting(jobs) /\ Waiting(completions)
    /\ \A k \in DOMAIN completions, l \in DOMAIN jobs :
          completions[k].tx < jobs[l].tx
    /\ \A t \in Packets : t > sent => answers[t] = 0

\* What a parser holds is its connection's, or an evicted one's.
ParserInv == \A i \in Slots : parse[i].from \subseteq {conn[i]} \union evicted

-----------------------------------------------------------------------------
(* What a step does to the slots and to their output.                      *)

\* The daemon closes the slots of S; the others keep their connection.
Evicting(S) ==
    /\ conn' \in [Slots -> Conns \union {NoConn}]
    /\ generation' \in [Slots -> 1..(GenModulus - 1)]
    /\ evicted' \subseteq Conns /\ evicted \subseteq evicted'
    /\ \A i \in S : /\ conn'[i] = NoConn
                    /\ generation'[i] = NextGeneration(generation[i])
                    /\ HasClient(i) => conn[i] \in evicted'
    /\ \A i \in Slots \ S : /\ conn'[i] = conn[i]
                            /\ generation'[i] = generation[i]

\* Slot i gets message m or loses everything; the others keep their output.
Receives(i, m) ==
    /\ output' \in [Slots -> Seq(Message)]
    /\ \A j \in Slots \ {i} : output'[j] = output[j]
    /\ \/ output'[i] = <<>>
       \/ /\ Len(output[i]) < OutCapacity
          /\ Len(output'[i]) = Len(output[i]) + 1
          /\ \A k \in DOMAIN output'[i] :
                \/ output'[i][k] = m
                \/ k \in DOMAIN output[i] /\ output'[i][k] = output[i][k]

\* No slot gets a message.
Sends ==
    /\ output' \in [Slots -> Seq(Message)]
    /\ \A i \in Slots :
          /\ Len(output'[i]) <= Len(output[i])
          /\ \A k \in DOMAIN output'[i] :
                \E l \in DOMAIN output[i] : output'[i][k] = output[i][l]

\* A step closes slots that have a client, or one in mid-read that is full;
\* a client leaves; or a client comes.
SlotChange ==
    \/ /\ UNCHANGED accepts
       /\ \E S \in SUBSET Slots :
             /\ Evicting(S)
             /\ \A i \in S : \/ HasClient(i)
                             \/ /\ pc = "feed" /\ i = cursor
                                /\ Len(output[i]) = OutCapacity
    \/ SlotEof
    \/ AcceptClient

-----------------------------------------------------------------------------

\* What is left of an output queue after n of its messages were sent.
LEMMA Suffix ==
    ASSUME NEW T, NEW s \in Seq(T), NEW n \in 0..Len(s)
    PROVE  /\ SubSeq(s, n + 1, Len(s)) \in Seq(T)
           /\ Len(SubSeq(s, n + 1, Len(s))) <= Len(s)
           /\ \A k \in DOMAIN SubSeq(s, n + 1, Len(s)) :
                 \E l \in DOMAIN s : SubSeq(s, n + 1, Len(s))[k] = s[l]
<1> DEFINE t == SubSeq(s, n + 1, Len(s))
<1>1. t \in Seq(T)
  OBVIOUS
<1>2. Len(t) = Len(s) - n
  OBVIOUS
<1>3. \A k \in 1..(Len(s) - n) : t[k] = s[n + k]
  OBVIOUS
<1> HIDE DEF t
<1>4. \A k \in DOMAIN t : k \in 1..(Len(s) - n) /\ n + k \in DOMAIN s
  BY <1>1, <1>2
<1>5. \A k \in DOMAIN t : \E l \in DOMAIN s : t[k] = s[l]
  BY <1>3, <1>4
<1>6. Len(t) <= Len(s)
  BY <1>2
<1>7. QED
  BY <1>1, <1>5, <1>6 DEF t

\* The constants' ranges, one by one.
LEMMA Bounds ==
    /\ MaxClients \in Nat /\ MaxClients >= 1
    /\ MaxUnits \in Nat /\ MaxUnits >= 1
    /\ OutCapacity \in Nat /\ OutCapacity >= 1
    /\ JobCapacity \in Nat /\ JobCapacity >= 1
    /\ CompletionCapacity \in Nat /\ CompletionCapacity >= 1
    /\ MaxConns \in Nat /\ MaxTx \in Nat /\ MaxUnits <= OutCapacity + 1
    /\ GenModulus \in Nat /\ GenModulus > 2 * MaxConns + 1
BY BoundsAssumption

\* client_slot_next_generation: never 0, and one more than the last unless it
\* wraps.
LEMMA NextGenerationRange ==
    ASSUME NEW g \in 1..(GenModulus - 1)
    PROVE  /\ NextGeneration(g) \in 1..(GenModulus - 1)
           /\ g + 1 < GenModulus => NextGeneration(g) = g + 1
<1>1. GenModulus \in Nat /\ GenModulus > 1
  BY Bounds
<1>2. CASE g + 1 = GenModulus
  <2>1. (g + 1) % GenModulus = 0
    BY <1>1, <1>2
  <2>2. QED
    BY <1>1, <1>2, <2>1 DEF NextGeneration
<1>3. CASE g + 1 < GenModulus
  <2>1. (g + 1) % GenModulus = g + 1
    BY <1>1, <1>3
  <2>2. QED
    BY <1>1, <1>3, <2>1 DEF NextGeneration
<1>4. QED
  BY <1>1, <1>2, <1>3

\* client_slot_close on a set of slots.
LEMMA EvictEffect ==
    ASSUME SlotTypeOK, NEW S \in SUBSET Slots, Evict(S)
    PROVE  Evicting(S)
<1>1. \A i \in Slots : NextGeneration(generation[i]) \in 1..(GenModulus - 1)
  BY NextGenerationRange DEF SlotTypeOK
<1>2. QED
  BY <1>1 DEF SlotTypeOK, Evict, Close, Evicting, HasClient

\* No slot closed is a set of none closed.
LEMMA NoEvictEffect ==
    ASSUME SlotTypeOK, UNCHANGED <<conn, generation, evicted>>
    PROVE  Evicting({})
BY DEF SlotTypeOK, Evicting

\* client_output_queue_append closes exactly a slot that is full.
LEMMA QueueEffect ==
    ASSUME SlotTypeOK, OutputTypeOK, NEW i \in Slots, NEW m \in Message,
           Queue(i, m)
    PROVE  /\ \/ Evicting({}) /\ output'[i] # <<>>
              \/ Evicting({i}) /\ Len(output[i]) = OutCapacity
                 /\ output'[i] = <<>>
           /\ Receives(i, m)
<1>1. CASE Len(output[i]) < OutCapacity
  <2>1. output' = [output EXCEPT ![i] = Append(output[i], m)]
    BY <1>1 DEF Queue
  <2>2. Evicting({})
    BY <1>1, NoEvictEffect DEF Queue
  <2>3. Receives(i, m)
    BY <1>1, <2>1 DEF OutputTypeOK, Receives
  <2>4. QED
    BY <2>1, <2>2, <2>3 DEF OutputTypeOK
<1>2. CASE ~(Len(output[i]) < OutCapacity)
  <2>1. output' = [output EXCEPT ![i] = <<>>] /\ Evict({i})
    BY <1>2 DEF Queue
  <2>2. Len(output[i]) = OutCapacity
    BY <1>2, Bounds DEF OutputTypeOK
  <2>3. Receives(i, m)
    BY <2>1 DEF OutputTypeOK, Receives
  <2>4. QED
    BY <2>1, <2>2, <2>3, EvictEffect DEF OutputTypeOK
<1>3. QED
  BY <1>1, <1>2

\* client_slot_flush_output closes only slots with a client.
LEMMA FlushEffect ==
    ASSUME SlotTypeOK, OutputTypeOK, NEW S \in SUBSET Slots, Flush(S)
    PROVE  /\ \E F \in SUBSET {i \in Slots : HasClient(i)} : Evicting(F)
           /\ Sends
<1>1. PICK F \in SUBSET {i \in S : HasClient(i) /\ output[i] # <<>>},
           n \in [S -> 0..OutCapacity] :
              /\ \A i \in S : n[i] <= Len(output[i])
              /\ Evict(F)
              /\ output' = [i \in Slots |->
                    IF i \in F THEN <<>>
                    ELSE IF i \in S
                    THEN SubSeq(output[i], n[i] + 1, Len(output[i]))
                    ELSE output[i]]
  BY DEF Flush
<1>2. Evicting(F)
  BY <1>1, EvictEffect
<1>3. ASSUME NEW i \in Slots
      PROVE  /\ output'[i] \in Seq(Message)
             /\ Len(output'[i]) <= Len(output[i])
             /\ \A k \in DOMAIN output'[i] :
                   \E l \in DOMAIN output[i] : output'[i][k] = output[i][l]
  <2>1. output[i] \in Seq(Message)
    BY DEF OutputTypeOK
  <2>2. CASE i \in F
    BY <1>1, <2>1, <2>2
  <2>3. CASE i \notin F /\ i \in S
    <3>1. output'[i] = SubSeq(output[i], n[i] + 1, Len(output[i]))
      BY <1>1, <2>3
    <3>2. n[i] \in 0..Len(output[i])
      BY <1>1, <2>1, <2>3
    <3> DEFINE t == SubSeq(output[i], n[i] + 1, Len(output[i]))
    <3>3. /\ t \in Seq(Message)
          /\ Len(t) <= Len(output[i])
          /\ \A k \in DOMAIN t : \E l \in DOMAIN output[i] : t[k] = output[i][l]
      BY <2>1, <3>2, Suffix, Zenon
    <3> HIDE DEF t
    <3>4. output'[i] = t
      BY <3>1 DEF t
    <3>5. QED
      BY <3>3, <3>4, Zenon
  <2>4. CASE i \notin F /\ i \notin S
    BY <1>1, <2>1, <2>4
  <2>5. QED
    BY <2>2, <2>3, <2>4
<1>4. QED
  BY <1>1, <1>2, <1>3 DEF Sends

\* A message more within the capacity, or none at all.
LEMMA ReceivesTyped ==
    ASSUME OutputTypeOK, NEW i \in Slots, NEW m \in Message, Receives(i, m)
    PROVE  OutputTypeOK'
<1>1. \A j \in Slots : output[j] \in Seq(Message) /\ output'[j] \in Seq(Message)
  BY DEF OutputTypeOK, Receives
<1>2. ASSUME NEW j \in Slots
      PROVE  Len(output'[j]) <= OutCapacity
  <2>1. CASE j # i
    BY <2>1 DEF OutputTypeOK, Receives
  <2>2. CASE j = i
    BY <1>1, <2>2, Bounds DEF Receives
  <2>3. QED
    BY <2>1, <2>2
<1>3. QED
  BY <1>2 DEF OutputTypeOK, Receives

\* Sending only takes messages away.
LEMMA SendsTyped ==
    ASSUME OutputTypeOK, Sends
    PROVE  OutputTypeOK'
<1>1. \A i \in Slots : output[i] \in Seq(Message) /\ output'[i] \in Seq(Message)
  BY DEF OutputTypeOK, Sends
<1>2. ASSUME NEW i \in Slots
      PROVE  Len(output'[i]) <= OutCapacity
  BY <1>1, Bounds DEF OutputTypeOK, Sends
<1>3. QED
  BY <1>2 DEF OutputTypeOK, Sends

\* The oldest of a queue of results, and what is left.
LEMMA HeadTyped ==
    ASSUME NEW s \in Seq(Job), s # <<>>
    PROVE  /\ Head(s) \in Job /\ Tail(s) \in Seq(Job)
           /\ Len(Tail(s)) = Len(s) - 1
           /\ \A k \in DOMAIN Tail(s) : k + 1 \in DOMAIN s /\ Tail(s)[k] = s[k + 1]
           /\ Head(s) = s[1] /\ 1 \in DOMAIN s
OBVIOUS

\* The main loop stays in its ranges.
LEMMA LoopStep ==
    ASSUME LoopTypeOK, LoopInv, SlotTypeOK, TxTypeOK, [Next]_vars
    PROVE  LoopTypeOK' /\ LoopInv'
<1>1. \A i \in Slots : conn[i] \in Conns \union {NoConn}
  BY DEF SlotTypeOK
<1>2. completions # <<>> => Head(completions).slot \in Slots \union {SlotNone}
  BY HeadTyped DEF TxTypeOK, Job
<1> USE Bounds, <1>1, <1>2 DEF LoopTypeOK, LoopInv, Slots, Conns, NoConn,
        SlotNone, HasClient, slotVars, txVars, settings, control
<1>3. CASE AcceptClient
  BY <1>3 DEF AcceptClient
<1>4. CASE AcceptNone
  BY <1>4 DEF AcceptNone
<1>5. CASE SlotEmpty
  BY <1>5 DEF SlotEmpty, AtSlot, NextSlot
<1>6. CASE SlotNotReady
  BY <1>6 DEF SlotNotReady, AtSlot, NextSlot
<1>7. CASE SlotEof
  BY <1>7 DEF SlotEof, AtSlot, NextSlot
<1>8. CASE SlotRead
  BY <1>8 DEF SlotRead, AtSlot
<1>9. CASE FeedPart
  <2>1. pc = "feed" /\ UnitDone
    BY <1>9 DEF FeedPart
  <2>2. QED
    BY <2>1 DEF UnitDone, NextSlot
<1>10. CASE FeedResync
  BY <1>10 DEF FeedResync, UnitDone, NextSlot
<1>11. CASE FeedRejected
  BY <1>11 DEF FeedRejected, UnitDone, NextSlot
<1>12. CASE FeedPacket
  BY <1>12 DEF FeedPacket, UnitDone, NextSlot
<1>13. CASE FramedDone
  BY <1>13 DEF FramedDone
<1>14. CASE DrainOne
  BY <1>14 DEF DrainOne
<1>15. CASE DeliverFlush
  BY <1>15 DEF DeliverFlush
<1>16. CASE DrainDone
  BY <1>16 DEF DrainDone
<1>17. CASE Conf
  BY <1>17 DEF Conf, QueueIdle
<1>18. CASE FlushReady
  BY <1>18 DEF FlushReady
<1>19. CASE BroadcastRx
  BY <1>19 DEF BroadcastRx
<1>20. CASE BroadcastFlush
  BY <1>20 DEF BroadcastFlush
<1>21. CASE NoRx
  BY <1>21 DEF NoRx
<1>22. CASE WorkerFinish
  BY <1>22 DEF WorkerFinish
<1>23. CASE WorkerRecord
  BY <1>23 DEF WorkerRecord
<1>24. CASE RawChunk
  BY <1>24 DEF RawChunk
<1>25. CASE UNCHANGED vars
  BY <1>1, <1>25 DEF vars
<1>26. QED
  BY <1>3, <1>4, <1>5, <1>6, <1>7, <1>8, <1>9, <1>10, <1>11, <1>12, <1>13,
     <1>14, <1>15, <1>16, <1>17, <1>18, <1>19, <1>20, <1>21, <1>22, <1>23,
     <1>24, <1>25
     DEF Next, MainStep, WorkerStep

\* The queues of the TX path stay in their ranges.
LEMMA TxStep ==
    ASSUME TxTypeOK, FlagTypeOK, LoopInv, SlotTypeOK, [Next]_vars
    PROVE  TxTypeOK'
<1> USE Bounds DEF slotVars, txVars, settings, control
<1>1. CASE AcceptClient
  BY <1>1 DEF AcceptClient, TxTypeOK
<1>2. CASE AcceptNone
  BY <1>2 DEF AcceptNone, TxTypeOK
<1>3. CASE SlotEmpty
  BY <1>3 DEF SlotEmpty, AtSlot, TxTypeOK
<1>4. CASE SlotNotReady
  BY <1>4 DEF SlotNotReady, AtSlot, TxTypeOK
<1>5. CASE SlotEof
  BY <1>5 DEF SlotEof, AtSlot, TxTypeOK
<1>6. CASE SlotRead
  BY <1>6 DEF SlotRead, AtSlot, TxTypeOK
<1>7. CASE FeedPart
  BY <1>7 DEF FeedPart, TxTypeOK
<1>8. CASE FeedResync
  BY <1>8 DEF FeedResync, TxTypeOK
<1>9. CASE FeedRejected
  BY <1>9 DEF FeedRejected, TxTypeOK
<1>10. CASE FeedPacket
  <2>1. cursor \in Slots /\ reader \in Conns /\ sent + 1 \in Packets
    BY <1>10 DEF FeedPacket, LoopInv, TxTypeOK, Packets
  <2>2. sent' \in 0..MaxTx /\ UNCHANGED <<completions, stale, overflowed, finished>>
    BY <1>10 DEF FeedPacket, TxTypeOK
  <2> DEFINE j == [slot |-> cursor, generation |-> generation[cursor],
                   tx |-> sent', conn |-> reader, asked |-> tx_result_active]
  <2>3. j \in Job
    BY <1>10, <2>1 DEF Job, FeedPacket, SlotTypeOK, FlagTypeOK, Conns, NoConn
  <2>4. UNCHANGED jobs \/ (Len(jobs) < JobCapacity /\ jobs' = Append(jobs, j))
    BY <1>10, Zenon DEF FeedPacket
  <2> HIDE DEF j
  <2>5. jobs' \in Seq(Job) /\ Len(jobs') <= JobCapacity /\ (finished' => jobs' # <<>>)
    BY <2>2, <2>3, <2>4 DEF TxTypeOK
  <2>6. \/ UNCHANGED answers
        \/ answers' = [answers EXCEPT ![sent + 1] = answers[sent + 1] + 1]
    BY <1>10, Zenon DEF FeedPacket
  <2>7. answers' \in [Packets -> Nat]
    BY <2>1, <2>6 DEF TxTypeOK
  <2>8. QED
    BY <2>2, <2>5, <2>7 DEF TxTypeOK
<1>11. CASE FramedDone
  BY <1>11 DEF FramedDone, TxTypeOK
<1>12. CASE DrainOne
  <2> DEFINE r == Head(completions)
  <2>1. r \in Job /\ completions' \in Seq(Job)
        /\ Len(completions') <= CompletionCapacity
    BY <1>12, HeadTyped DEF DrainOne, TxTypeOK
  <2>2. r.tx \in Packets
    BY <2>1 DEF Job
  <2>3. UNCHANGED answers \/ answers' = [answers EXCEPT ![r.tx] = answers[r.tx] + 1]
    BY <1>12, Zenon DEF DrainOne
  <2>4. stale' = stale \/ stale' = stale + 1
    <3>1. stale \in Nat
      BY DEF TxTypeOK
    <3>2. QED
      BY <1>12, <3>1 DEF DrainOne
  <2> HIDE DEF r
  <2>5. answers' \in [Packets -> Nat] /\ stale' \in Nat
    BY <2>2, <2>3, <2>4 DEF TxTypeOK
  <2>6. QED
    BY <1>12, <2>1, <2>5 DEF DrainOne, TxTypeOK
<1>13. CASE DeliverFlush
  BY <1>13 DEF DeliverFlush, TxTypeOK
<1>14. CASE DrainDone
  BY <1>14 DEF DrainDone, TxTypeOK
<1>15. CASE Conf
  BY <1>15 DEF Conf, QueueIdle, TxTypeOK
<1>16. CASE FlushReady
  BY <1>16 DEF FlushReady, TxTypeOK
<1>17. CASE BroadcastRx
  BY <1>17 DEF BroadcastRx, TxTypeOK
<1>18. CASE BroadcastFlush
  BY <1>18 DEF BroadcastFlush, TxTypeOK
<1>19. CASE NoRx
  BY <1>19 DEF NoRx, TxTypeOK
<1>20. CASE WorkerFinish
  BY <1>20 DEF WorkerFinish, TxTypeOK
<1>21. CASE WorkerRecord
  <2>1. jobs # <<>>
    BY <1>21 DEF WorkerRecord, TxTypeOK
  <2>2. /\ jobs' = Tail(jobs) /\ Head(jobs) \in Job
        /\ jobs' \in Seq(Job) /\ Len(jobs') <= JobCapacity
    BY <1>21, <2>1, HeadTyped DEF WorkerRecord, TxTypeOK
  <2>3. CASE Len(completions) = CompletionCapacity
    <3>1. completions # <<>>
      BY <2>3
    <3>2. Tail(completions) \in Seq(Job) /\ Head(completions).tx \in Packets
          /\ Len(Tail(completions)) = CompletionCapacity - 1
      BY <2>3, <3>1, HeadTyped DEF TxTypeOK, Job
    <3>3. completions' = Append(Tail(completions), Head(jobs))
          /\ overflowed' = overflowed \union {Head(completions).tx}
      BY <1>21, <2>3 DEF WorkerRecord
    <3>4. completions' \in Seq(Job) /\ Len(completions') <= CompletionCapacity
      BY <2>2, <3>2, <3>3
    <3>5. QED
      BY <1>21, <2>2, <3>2, <3>3, <3>4 DEF WorkerRecord, TxTypeOK
  <2>4. CASE Len(completions) # CompletionCapacity
    <3>1. completions' = Append(completions, Head(jobs)) /\ UNCHANGED overflowed
      BY <1>21, <2>4 DEF WorkerRecord
    <3>2. completions' \in Seq(Job) /\ Len(completions') <= CompletionCapacity
      BY <2>2, <2>4, <3>1 DEF TxTypeOK
    <3>3. QED
      BY <1>21, <2>2, <3>1, <3>2 DEF WorkerRecord, TxTypeOK
  <2>5. QED
    BY <2>3, <2>4
<1>22. CASE RawChunk
  <2> DEFINE j == [slot |-> SlotNone, generation |-> 0, tx |-> sent',
                   conn |-> NoConn, asked |-> FALSE]
  <2>1. sent' \in 0..MaxTx /\ sent' \in Packets
    BY <1>22 DEF RawChunk, TxTypeOK, Packets
  <2>2. j \in Job
    BY <2>1 DEF Job
  <2>3. Len(jobs) < JobCapacity /\ jobs' = Append(jobs, j)
    BY <1>22 DEF RawChunk
  <2> HIDE DEF j
  <2>4. jobs' \in Seq(Job) /\ Len(jobs') <= JobCapacity /\ jobs' # <<>>
    BY <2>2, <2>3 DEF TxTypeOK
  <2>5. QED
    BY <1>22, <2>1, <2>4 DEF RawChunk, TxTypeOK
<1>23. CASE UNCHANGED vars
  BY <1>23 DEF vars, TxTypeOK
<1>24. QED
  BY <1>1, <1>2, <1>3, <1>4, <1>5, <1>6, <1>7, <1>8, <1>9, <1>10, <1>11, <1>12,
     <1>13, <1>14, <1>15, <1>16, <1>17, <1>18, <1>19, <1>20, <1>21, <1>22,
     <1>23
     DEF Next, MainStep, WorkerStep

\* daemon_framed_tx_packet answers with a result for the read's connection, or
\* with an ERROR, or not yet.
LEMMA FeedPacketOutput ==
    ASSUME TxTypeOK, LoopInv, FeedPacket
    PROVE  \/ UNCHANGED <<conn, generation, output, evicted>>
           \/ \E m \in Message : /\ Queue(cursor, m)
                                 /\ m.tx # 0 => m.conn = reader
<1> DEFINE result == [tx |-> sent', conn |-> reader, enabled |-> TRUE]
<1>1. Other \in Message /\ Other.tx = 0
  BY DEF Other, Message
<1>2. sent' \in Packets /\ reader \in Conns
  BY Bounds DEF FeedPacket, LoopInv, TxTypeOK, Packets
<1>3. result \in Message /\ result.conn = reader
  BY <1>2 DEF Message
<1>4. \/ UNCHANGED <<conn, generation, output, evicted>>
      \/ Queue(cursor, result)
      \/ Queue(cursor, Other)
  BY Zenon DEF FeedPacket
<1> HIDE DEF result
<1>5. QED
  BY <1>1, <1>3, <1>4

\* daemon_drain_framed_tx_completions queues a result only for a slot that has
\* a client and still the result's generation.
LEMMA DrainOneOutput ==
    ASSUME TxTypeOK, FlagTypeOK, DrainOne
    PROVE  LET r == Head(completions)
           IN  /\ r \in Job
               /\ \/ UNCHANGED <<conn, generation, output, evicted>>
                  \/ /\ r.slot \in Slots /\ HasClient(r.slot) /\ ~IsStale(r)
                     /\ \E m \in Message : /\ Queue(r.slot, m)
                                           /\ m.conn = r.conn
<1> DEFINE r == Head(completions)
           enabled == r.asked \/ tx_result_active
           result == [tx |-> r.tx, conn |-> r.conn, enabled |-> enabled]
<1>1. r \in Job
  BY HeadTyped DEF DrainOne, TxTypeOK
<1>2. enabled \in BOOLEAN
  BY <1>1 DEF Job, FlagTypeOK
<1>3. \/ UNCHANGED <<conn, generation, output, evicted>>
      \/ /\ r.slot # SlotNone /\ HasClient(r.slot) /\ ~IsStale(r)
         /\ Queue(r.slot, result)
  BY Zenon DEF DrainOne
<1> HIDE DEF r, enabled
<1>4. r.slot # SlotNone => r.slot \in Slots
  BY <1>1 DEF Job
<1>5. result \in Message /\ result.conn = r.conn
  BY <1>1, <1>2 DEF Job, Message
<1> HIDE DEF result
<1>6. \/ UNCHANGED <<conn, generation, output, evicted>>
      \/ /\ r.slot \in Slots /\ HasClient(r.slot) /\ ~IsStale(r)
         /\ \E m \in Message : Queue(r.slot, m) /\ m.conn = r.conn
  BY <1>3, <1>4, <1>5
<1>7. QED
  BY <1>1, <1>6 DEF r

\* Every step is one of these to the slots.
LEMMA SlotChanges ==
    ASSUME SlotTypeOK, OutputTypeOK, TxTypeOK, FlagTypeOK, LoopInv, [Next]_vars
    PROVE  SlotChange
<1>1. ASSUME UNCHANGED <<conn, generation, evicted>>, UNCHANGED accepts
      PROVE  SlotChange
  BY <1>1, NoEvictEffect DEF SlotChange
<1>2. ASSUME UNCHANGED accepts, NEW S \in SUBSET Slots, Flush(S)
      PROVE  SlotChange
  BY <1>2, FlushEffect DEF SlotChange
<1> USE DEF slotVars, txVars, settings, control
<1>3. CASE AcceptClient
  BY <1>3 DEF SlotChange
<1>4. CASE AcceptNone
  <2>1. UNCHANGED <<conn, generation, evicted>> /\ UNCHANGED accepts
    BY <1>4 DEF AcceptNone
  <2>2. QED
    BY <2>1, <1>1
<1>5. CASE SlotEmpty
  <2>1. UNCHANGED <<conn, generation, evicted>> /\ UNCHANGED accepts
    BY <1>5 DEF SlotEmpty
  <2>2. QED
    BY <2>1, <1>1
<1>6. CASE SlotNotReady
  <2>1. UNCHANGED <<conn, generation, evicted>> /\ UNCHANGED accepts
    BY <1>6 DEF SlotNotReady
  <2>2. QED
    BY <2>1, <1>1
<1>7. CASE SlotEof
  BY <1>7 DEF SlotChange
<1>8. CASE SlotRead
  <2>1. UNCHANGED <<conn, generation, evicted>> /\ UNCHANGED accepts
    BY <1>8 DEF SlotRead
  <2>2. QED
    BY <2>1, <1>1
<1>9. CASE FeedPart
  <2>1. UNCHANGED <<conn, generation, evicted>> /\ UNCHANGED accepts
    BY <1>9 DEF FeedPart
  <2>2. QED
    BY <2>1, <1>1
<1>10. CASE FeedResync
  <2>1. UNCHANGED <<conn, generation, evicted>> /\ UNCHANGED accepts
    BY <1>10 DEF FeedResync
  <2>2. QED
    BY <2>1, <1>1
<1>11. CASE FeedRejected
  <2>1. pc = "feed" /\ cursor \in Slots /\ UNCHANGED accepts
    BY <1>11 DEF FeedRejected, LoopInv
  <2>2. Other \in Message
    BY DEF Other, Message
  <2>3. Queue(cursor, Other)
    BY <1>11 DEF FeedRejected
  <2>4. \/ Evicting({})
        \/ Evicting({cursor}) /\ Len(output[cursor]) = OutCapacity
    BY <2>1, <2>2, <2>3, QueueEffect
  <2>5. QED
    BY <2>1, <2>4 DEF SlotChange
<1>12. CASE FeedPacket
  <2>1. pc = "feed" /\ cursor \in Slots /\ UNCHANGED accepts
    BY <1>12 DEF FeedPacket, LoopInv
  <2>2. CASE UNCHANGED <<conn, generation, output, evicted>>
    BY <2>1, <2>2, <1>1
  <2>3. ASSUME NEW m \in Message, Queue(cursor, m) PROVE SlotChange
    <3>1. \/ Evicting({})
          \/ Evicting({cursor}) /\ Len(output[cursor]) = OutCapacity
      BY <2>1, <2>3, QueueEffect
    <3>2. QED
      BY <2>1, <3>1 DEF SlotChange
  <2>4. QED
    BY <1>12, <2>2, <2>3, FeedPacketOutput
<1>13. CASE FramedDone
  <2>1. UNCHANGED <<conn, generation, evicted>> /\ UNCHANGED accepts
    BY <1>13 DEF FramedDone
  <2>2. QED
    BY <2>1, <1>1
<1>14. CASE DrainOne
  <2> DEFINE r == Head(completions)
  <2>1. UNCHANGED accepts
    BY <1>14 DEF DrainOne
  <2>2. CASE UNCHANGED <<conn, generation, output, evicted>>
    BY <2>1, <2>2, <1>1
  <2>3. ASSUME r.slot \in Slots, HasClient(r.slot), NEW m \in Message,
               Queue(r.slot, m)
        PROVE  SlotChange
    <3>1. Evicting({}) \/ Evicting({r.slot})
      BY <2>3, QueueEffect
    <3>2. QED
      BY <2>1, <2>3, <3>1 DEF SlotChange
  <2>4. QED
    BY <1>14, <2>2, <2>3, DrainOneOutput
<1>15. CASE DeliverFlush
  <2>1. UNCHANGED accepts /\ \E S \in SUBSET Slots : Flush(S)
    BY <1>15 DEF DeliverFlush, LoopInv
  <2>2. QED
    BY <2>1, <1>2
<1>16. CASE DrainDone
  <2>1. UNCHANGED <<conn, generation, evicted>> /\ UNCHANGED accepts
    BY <1>16 DEF DrainDone
  <2>2. QED
    BY <2>1, <1>1
<1>17. CASE Conf
  <2>1. UNCHANGED <<conn, generation, evicted>> /\ UNCHANGED accepts
    BY <1>17 DEF Conf
  <2>2. QED
    BY <2>1, <1>1
<1>18. CASE FlushReady
  <2>1. UNCHANGED accepts /\ \E S \in SUBSET Slots : Flush(S)
    BY <1>18 DEF FlushReady, LoopInv
  <2>2. QED
    BY <2>1, <1>2
<1>19. CASE BroadcastRx
  <2>1. PICK S \in SUBSET {i \in Slots : HasClient(i)} : Evict(S)
    BY <1>19 DEF BroadcastRx
  <2>2. Evicting(S)
    BY <2>1, EvictEffect
  <2>3. UNCHANGED accepts
    BY <1>19 DEF BroadcastRx
  <2>4. QED
    BY <2>1, <2>2, <2>3 DEF SlotChange
<1>20. CASE BroadcastFlush
  <2>1. UNCHANGED accepts /\ \E S \in SUBSET Slots : Flush(S)
    BY <1>20 DEF BroadcastFlush, LoopInv
  <2>2. QED
    BY <2>1, <1>2
<1>21. CASE NoRx
  <2>1. UNCHANGED <<conn, generation, evicted>> /\ UNCHANGED accepts
    BY <1>21 DEF NoRx
  <2>2. QED
    BY <2>1, <1>1
<1>22. CASE WorkerFinish
  <2>1. UNCHANGED <<conn, generation, evicted>> /\ UNCHANGED accepts
    BY <1>22 DEF WorkerFinish
  <2>2. QED
    BY <2>1, <1>1
<1>23. CASE WorkerRecord
  <2>1. UNCHANGED <<conn, generation, evicted>> /\ UNCHANGED accepts
    BY <1>23 DEF WorkerRecord
  <2>2. QED
    BY <2>1, <1>1
<1>24. CASE RawChunk
  <2>1. UNCHANGED <<conn, generation, evicted>> /\ UNCHANGED accepts
    BY <1>24 DEF RawChunk
  <2>2. QED
    BY <2>1, <1>1
<1>25. CASE UNCHANGED vars
  BY <1>1, <1>25 DEF vars
<1>26. QED
  BY <1>3, <1>4, <1>5, <1>6, <1>7, <1>8, <1>9, <1>10, <1>11, <1>12, <1>13,
     <1>14, <1>15, <1>16, <1>17, <1>18, <1>19, <1>20, <1>21, <1>22, <1>23,
     <1>24, <1>25
     DEF Next, MainStep, WorkerStep

\* The parsers stay in their ranges.
LEMMA ParseStep ==
    ASSUME SlotTypeOK, LoopInv, [Next]_vars
    PROVE  parse' \in [Slots -> [from : SUBSET Conns, skip : BOOLEAN]]
<1> USE DEF slotVars, txVars, settings, control
<1>1. CASE AcceptClient
  BY <1>1 DEF AcceptClient, SlotTypeOK
<1>2. CASE AcceptNone
  BY <1>2 DEF AcceptNone, SlotTypeOK
<1>3. CASE SlotEmpty
  <2>1. cursor \in Slots
    BY <1>3 DEF SlotEmpty, LoopInv, AtSlot
  <2>2. PICK p \in [from : SUBSET Conns, skip : BOOLEAN] :
           parse' = [parse EXCEPT ![cursor] = p]
    BY <1>3, <2>1 DEF SlotEmpty, Fresh
  <2>3. QED
    BY <2>1, <2>2 DEF SlotTypeOK
<1>4. CASE SlotNotReady
  BY <1>4 DEF SlotNotReady, SlotTypeOK
<1>5. CASE SlotEof
  <2>1. cursor \in Slots
    BY <1>5 DEF SlotEof, LoopInv, AtSlot
  <2>2. PICK p \in [from : SUBSET Conns, skip : BOOLEAN] :
           parse' = [parse EXCEPT ![cursor] = p]
    BY <1>5, <2>1 DEF SlotEof, Fresh, ParserReset
  <2>3. QED
    BY <2>1, <2>2 DEF SlotTypeOK
<1>6. CASE SlotRead
  BY <1>6 DEF SlotRead, SlotTypeOK
<1>7. CASE FeedPart
  <2>1. cursor \in Slots /\ reader \in Conns
    BY <1>7 DEF FeedPart, LoopInv
  <2> DEFINE p == parse[cursor]
             q == [p EXCEPT !.from = p.from \union {reader}]
  <2>2. p \in [from : SUBSET Conns, skip : BOOLEAN]
    BY <2>1 DEF SlotTypeOK
  <2>3. q \in [from : SUBSET Conns, skip : BOOLEAN]
    BY <2>1, <2>2
  <2>4. parse' = [parse EXCEPT ![cursor] = q]
    BY <1>7 DEF FeedPart
  <2> HIDE DEF p, q
  <2>5. QED
    BY <2>1, <2>3, <2>4 DEF SlotTypeOK
<1>8. CASE FeedResync
  <2>1. cursor \in Slots /\ reader \in Conns
    BY <1>8 DEF FeedResync, LoopInv
  <2>2. PICK p \in [from : SUBSET Conns, skip : BOOLEAN] :
           parse' = [parse EXCEPT ![cursor] = p]
    BY <1>8, <2>1 DEF FeedResync, Fresh
  <2>3. QED
    BY <2>1, <2>2 DEF SlotTypeOK
<1>9. CASE FeedRejected
  <2>1. cursor \in Slots /\ reader \in Conns
    BY <1>9 DEF FeedRejected, LoopInv
  <2>2. PICK p \in [from : SUBSET Conns, skip : BOOLEAN] :
           parse' = [parse EXCEPT ![cursor] = p]
    BY <1>9, <2>1 DEF FeedRejected, Fresh
  <2>3. QED
    BY <2>1, <2>2 DEF SlotTypeOK
<1>10. CASE FeedPacket
  <2>1. cursor \in Slots /\ reader \in Conns
    BY <1>10 DEF FeedPacket, LoopInv
  <2>2. PICK p \in [from : SUBSET Conns, skip : BOOLEAN] :
           parse' = [parse EXCEPT ![cursor] = p]
    BY <1>10, <2>1 DEF FeedPacket, Fresh
  <2>3. QED
    BY <2>1, <2>2 DEF SlotTypeOK
<1>11. CASE FramedDone
  BY <1>11 DEF FramedDone, SlotTypeOK
<1>12. CASE DrainOne
  BY <1>12 DEF DrainOne, SlotTypeOK
<1>13. CASE DeliverFlush
  BY <1>13 DEF DeliverFlush, SlotTypeOK
<1>14. CASE DrainDone
  BY <1>14 DEF DrainDone, SlotTypeOK
<1>15. CASE Conf
  BY <1>15 DEF Conf, SlotTypeOK
<1>16. CASE FlushReady
  BY <1>16 DEF FlushReady, SlotTypeOK
<1>17. CASE BroadcastRx
  BY <1>17 DEF BroadcastRx, SlotTypeOK
<1>18. CASE BroadcastFlush
  BY <1>18 DEF BroadcastFlush, SlotTypeOK
<1>19. CASE NoRx
  BY <1>19 DEF NoRx, SlotTypeOK
<1>20. CASE WorkerFinish
  BY <1>20 DEF WorkerFinish, SlotTypeOK
<1>21. CASE WorkerRecord
  BY <1>21 DEF WorkerRecord, SlotTypeOK
<1>22. CASE RawChunk
  BY <1>22 DEF RawChunk, SlotTypeOK
<1>23. CASE UNCHANGED vars
  BY <1>23 DEF vars, SlotTypeOK
<1>24. QED
  BY <1>1, <1>2, <1>3, <1>4, <1>5, <1>6, <1>7, <1>8, <1>9, <1>10, <1>11, <1>12,
     <1>13, <1>14, <1>15, <1>16, <1>17, <1>18, <1>19, <1>20, <1>21, <1>22,
     <1>23
     DEF Next, MainStep, WorkerStep

\* The slots stay in their ranges.
LEMMA SlotStep ==
    ASSUME SlotTypeOK, OutputTypeOK, TxTypeOK, FlagTypeOK, LoopInv, [Next]_vars
    PROVE  SlotTypeOK'
<1>1. parse' \in [Slots -> [from : SUBSET Conns, skip : BOOLEAN]]
  BY ParseStep
<1>2. CASE \E S \in SUBSET Slots : Evicting(S) /\ UNCHANGED accepts
  BY <1>1, <1>2 DEF SlotTypeOK, Evicting
<1>3. CASE SlotEof
  <2>1. \A i \in Slots : NextGeneration(generation[i]) \in 1..(GenModulus - 1)
    BY NextGenerationRange DEF SlotTypeOK
  <2>2. conn' \in [Slots -> Conns \union {NoConn}]
    BY <1>3 DEF SlotEof, Close, SlotTypeOK
  <2>3. generation' \in [Slots -> 1..(GenModulus - 1)]
    BY <1>3, <2>1 DEF SlotEof, Close, SlotTypeOK
  <2>4. QED
    BY <1>1, <1>3, <2>2, <2>3 DEF SlotEof, SlotTypeOK
<1>4. CASE AcceptClient
  <2>1. PICK i \in Slots : SetFd(i, accepts + 1)
    BY <1>4 DEF AcceptClient
  <2>2. accepts + 1 \in Conns /\ accepts' \in 0..MaxConns
    BY <1>4, Bounds DEF AcceptClient, SlotTypeOK, Conns
  <2>3. NextGeneration(generation[i]) \in 1..(GenModulus - 1)
    BY NextGenerationRange DEF SlotTypeOK
  <2>4. conn' \in [Slots -> Conns \union {NoConn}]
        /\ generation' \in [Slots -> 1..(GenModulus - 1)]
    BY <2>1, <2>2, <2>3 DEF SetFd, SlotTypeOK
  <2>5. QED
    BY <1>1, <1>4, <2>2, <2>4 DEF AcceptClient, SlotTypeOK
<1>5. QED
  BY <1>2, <1>3, <1>4, SlotChanges DEF SlotChange

\* The output queues stay within their capacity.
LEMMA OutputStep ==
    ASSUME SlotTypeOK, OutputTypeOK, TxTypeOK, FlagTypeOK, LoopInv, [Next]_vars
    PROVE  OutputTypeOK'
<1> USE DEF slotVars, txVars, settings, control
<1>1. CASE AcceptClient
  <2>1. \E i \in Slots : output' = [output EXCEPT ![i] = <<>>]
    BY <1>1 DEF AcceptClient, SetFd
  <2>2. QED
    BY <2>1, Bounds DEF OutputTypeOK
<1>2. CASE AcceptNone
  BY <1>2 DEF AcceptNone, OutputTypeOK
<1>3. CASE SlotEmpty
  BY <1>3 DEF SlotEmpty, OutputTypeOK
<1>4. CASE SlotNotReady
  BY <1>4 DEF SlotNotReady, OutputTypeOK
<1>5. CASE SlotEof
  <2>1. cursor \in Slots /\ output' = [output EXCEPT ![cursor] = <<>>]
    BY <1>5 DEF SlotEof, AtSlot
  <2>2. output' \in [Slots -> Seq(Message)]
    BY <2>1 DEF OutputTypeOK
  <2>3. ASSUME NEW i \in Slots
        PROVE  Len(output'[i]) <= OutCapacity
    <3>1. CASE i = cursor
      BY <2>1, <3>1, Bounds DEF OutputTypeOK
    <3>2. CASE i # cursor
      BY <2>1, <3>2 DEF OutputTypeOK
    <3>3. QED
      BY <3>1, <3>2
  <2>4. QED
    BY <2>2, <2>3 DEF OutputTypeOK
<1>6. CASE SlotRead
  BY <1>6 DEF SlotRead, OutputTypeOK
<1>7. CASE FeedPart
  BY <1>7 DEF FeedPart, OutputTypeOK
<1>8. CASE FeedResync
  BY <1>8 DEF FeedResync, OutputTypeOK
<1>9. CASE FeedRejected
  <2>1. cursor \in Slots /\ Queue(cursor, Other)
    BY <1>9 DEF FeedRejected, LoopInv
  <2>2. Other \in Message
    BY DEF Other, Message
  <2>3. QED
    BY <2>1, <2>2, QueueEffect, ReceivesTyped
<1>10. CASE FeedPacket
  <2>1. cursor \in Slots
    BY <1>10 DEF FeedPacket, LoopInv
  <2>2. CASE UNCHANGED output
    BY <2>2 DEF OutputTypeOK
  <2>3. ASSUME NEW m \in Message, Queue(cursor, m) PROVE OutputTypeOK'
    BY <2>1, <2>3, QueueEffect, ReceivesTyped
  <2>4. QED
    BY <1>10, <2>2, <2>3, FeedPacketOutput
<1>11. CASE FramedDone
  BY <1>11 DEF FramedDone, OutputTypeOK
<1>12. CASE DrainOne
  <2> DEFINE r == Head(completions)
  <2>1. CASE UNCHANGED output
    BY <2>1 DEF OutputTypeOK
  <2>2. ASSUME r.slot \in Slots, NEW m \in Message, Queue(r.slot, m)
        PROVE  OutputTypeOK'
    BY <2>2, QueueEffect, ReceivesTyped
  <2>3. QED
    BY <1>12, <2>1, <2>2, DrainOneOutput
<1>13. CASE DeliverFlush
  <2>1. \E S \in SUBSET Slots : Flush(S)
    BY <1>13 DEF DeliverFlush, LoopInv
  <2>2. QED
    BY <2>1, FlushEffect, SendsTyped
<1>14. CASE DrainDone
  BY <1>14 DEF DrainDone, OutputTypeOK
<1>15. CASE Conf
  BY <1>15 DEF Conf, OutputTypeOK
<1>16. CASE FlushReady
  <2>1. \E S \in SUBSET Slots : Flush(S)
    BY <1>16 DEF FlushReady, LoopInv
  <2>2. QED
    BY <2>1, FlushEffect, SendsTyped
<1>17. CASE BroadcastRx
  <2>1. Other \in Message
    BY DEF Other, Message
  <2>2. ASSUME NEW i \in Slots
        PROVE  \/ output'[i] = <<>>
               \/ output'[i] = Append(output[i], Other) /\ Len(output[i]) # OutCapacity
    BY <1>17 DEF BroadcastRx
  <2>3. \A i \in Slots : output[i] \in Seq(Message) /\ Len(output[i]) <= OutCapacity
    BY DEF OutputTypeOK
  <2>4. ASSUME NEW i \in Slots
        PROVE  output'[i] \in Seq(Message) /\ Len(output'[i]) <= OutCapacity
    <3>1. output[i] \in Seq(Message) /\ Len(output[i]) <= OutCapacity
      BY <2>3
    <3>2. CASE output'[i] = <<>>
      BY <3>2, Bounds
    <3>3. CASE output'[i] = Append(output[i], Other) /\ Len(output[i]) # OutCapacity
      <4>1. Len(output[i]) + 1 <= OutCapacity
        BY <3>1, <3>3, Bounds
      <4>2. QED
        BY <2>1, <3>1, <3>3, <4>1
    <3>4. QED
      BY <2>2, <3>2, <3>3
  <2>5. \E f : output' = [i \in Slots |-> f[i]]
    <3> DEFINE full == {i \in Slots : HasClient(i) /\ Len(output[i]) = OutCapacity}
    <3>1. output' = [i \in Slots |->
                       IF ~HasClient(i) \/ i \in full THEN <<>>
                       ELSE Append(output[i], Other)]
      BY <1>17 DEF BroadcastRx
    <3>2. output' = [i \in Slots |-> output'[i]]
      BY <3>1
    <3>3. QED
      BY <3>2
  <2>6. QED
    BY <2>4, <2>5 DEF OutputTypeOK
<1>18. CASE BroadcastFlush
  <2>1. \E S \in SUBSET Slots : Flush(S)
    BY <1>18 DEF BroadcastFlush, LoopInv
  <2>2. QED
    BY <2>1, FlushEffect, SendsTyped
<1>19. CASE NoRx
  BY <1>19 DEF NoRx, OutputTypeOK
<1>20. CASE WorkerFinish
  BY <1>20 DEF WorkerFinish, OutputTypeOK
<1>21. CASE WorkerRecord
  BY <1>21 DEF WorkerRecord, OutputTypeOK
<1>22. CASE RawChunk
  BY <1>22 DEF RawChunk, OutputTypeOK
<1>23. CASE UNCHANGED vars
  BY <1>23 DEF vars, OutputTypeOK
<1>24. QED
  BY <1>1, <1>2, <1>3, <1>4, <1>5, <1>6, <1>7, <1>8, <1>9, <1>10, <1>11, <1>12,
     <1>13, <1>14, <1>15, <1>16, <1>17, <1>18, <1>19, <1>20, <1>21, <1>22,
     <1>23
     DEF Next, MainStep, WorkerStep

\* The flags stay Boolean.
LEMMA FlagStep ==
    ASSUME FlagTypeOK, [Next]_vars
    PROVE  FlagTypeOK'
<1> USE DEF FlagTypeOK, slotVars, txVars, settings, control
<1>1. CASE AcceptClient
  BY <1>1, Zenon DEF AcceptClient
<1>2. CASE AcceptNone
  BY <1>2, Zenon DEF AcceptNone
<1>3. CASE SlotEmpty
  BY <1>3, Zenon DEF SlotEmpty, AtSlot
<1>4. CASE SlotNotReady
  BY <1>4, Zenon DEF SlotNotReady, AtSlot
<1>5. CASE SlotEof
  BY <1>5, Zenon DEF SlotEof, AtSlot
<1>6. CASE SlotRead
  BY <1>6, Zenon DEF SlotRead, AtSlot
<1>7. CASE FeedPart
  BY <1>7, Zenon DEF FeedPart
<1>8. CASE FeedResync
  BY <1>8, Zenon DEF FeedResync
<1>9. CASE FeedRejected
  BY <1>9, Zenon DEF FeedRejected
<1>10. CASE FeedPacket
  BY <1>10, Zenon DEF FeedPacket
<1>11. CASE FramedDone
  BY <1>11, Zenon DEF FramedDone
<1>12. CASE DrainOne
  BY <1>12, Zenon DEF DrainOne
<1>13. CASE DeliverFlush
  BY <1>13, Zenon DEF DeliverFlush
<1>14. CASE DrainDone
  BY <1>14, Zenon DEF DrainDone
<1>15. CASE Conf
  BY <1>15, Zenon DEF Conf, QueueIdle
<1>16. CASE FlushReady
  BY <1>16, Zenon DEF FlushReady
<1>17. CASE BroadcastRx
  BY <1>17, Zenon DEF BroadcastRx
<1>18. CASE BroadcastFlush
  BY <1>18, Zenon DEF BroadcastFlush
<1>19. CASE NoRx
  BY <1>19, Zenon DEF NoRx
<1>20. CASE WorkerFinish
  BY <1>20, Zenon DEF WorkerFinish
<1>21. CASE WorkerRecord
  BY <1>21, Zenon DEF WorkerRecord
<1>22. CASE RawChunk
  BY <1>22, Zenon DEF RawChunk
<1>23. CASE UNCHANGED vars
  BY <1>23, Zenon DEF vars
<1>24. QED
  BY <1>1, <1>2, <1>3, <1>4, <1>5, <1>6, <1>7, <1>8, <1>9, <1>10, <1>11, <1>12,
     <1>13, <1>14, <1>15, <1>16, <1>17, <1>18, <1>19, <1>20, <1>21, <1>22,
     <1>23
     DEF Next, MainStep, WorkerStep

\* TypeOK but for the parts that only the loop's own state rests on.
LEMMA Typed == Spec => []Typing
<1>1. Init => Typing
  <2>1. Init => SlotTypeOK
    BY Bounds DEF Init, SlotTypeOK, Fresh
  <2>2. Init => OutputTypeOK
    BY Bounds DEF Init, OutputTypeOK
  <2>3. Init => TxTypeOK
    BY Bounds DEF Init, TxTypeOK
  <2>4. Init => LoopTypeOK /\ LoopInv
    BY Bounds DEF Init, LoopTypeOK, LoopInv
  <2>5. Init => FlagTypeOK
    BY DEF Init, FlagTypeOK
  <2>6. QED
    BY <2>1, <2>2, <2>3, <2>4, <2>5 DEF Typing
<1>2. Typing /\ [Next]_vars => Typing'
  BY SlotStep, OutputStep, TxStep, FlagStep, LoopStep DEF Typing
<1>3. QED
  BY <1>1, <1>2, PTL DEF Spec

-----------------------------------------------------------------------------
(* One read, unit by unit.                                                 *)

\* framed_data_tx_feed_state on one unit of the read.
FeedStep == FeedPart \/ FeedResync \/ FeedRejected \/ FeedPacket

\* A unit of the read leaves the slots alone, or queues an answer to it in the
\* slot of the read.
LEMMA FeedEffect ==
    ASSUME Typing, FeedStep
    PROVE  /\ pc = "feed" /\ left' = left - 1
           /\ pc' = "feed" => UNCHANGED <<cursor, reader>>
           /\ \/ UNCHANGED <<conn, generation, output, evicted>>
              \/ \E m \in Message : /\ Queue(cursor, m)
                                    /\ m.tx # 0 => m.conn = reader
<1>1. pc = "feed" /\ UnitDone
  BY DEF FeedStep, FeedPart, FeedResync, FeedRejected, FeedPacket
<1>2. left' = left - 1 /\ (pc' = "feed" => UNCHANGED <<cursor, reader>>)
  BY <1>1 DEF UnitDone, NextSlot
<1>3. CASE FeedPart \/ FeedResync
  <2>1. UNCHANGED <<conn, generation, output, evicted>>
    BY <1>3 DEF FeedPart, FeedResync
  <2>2. QED
    BY <1>1, <1>2, <2>1
<1>4. CASE FeedRejected
  <2>1. Other \in Message /\ Other.tx = 0
    BY DEF Other, Message
  <2>2. Queue(cursor, Other)
    BY <1>4 DEF FeedRejected
  <2>3. QED
    BY <1>1, <1>2, <2>1, <2>2
<1>5. CASE FeedPacket
  BY <1>1, <1>2, <1>5, FeedPacketOutput DEF Typing
<1>6. QED
  BY <1>3, <1>4, <1>5 DEF FeedStep

\* A read is under way only because it began or went on, or somebody else moved.
LEMMA FeedGoesOn ==
    ASSUME [Next]_vars, pc' = "feed"
    PROVE  \/ SlotRead
           \/ FeedStep
           \/ pc = "feed" /\ UNCHANGED <<slotVars, control, evicted, accepts>>
<1> USE DEF slotVars, txVars, settings, control
<1>1. CASE AcceptClient
  BY <1>1 DEF AcceptClient
<1>2. CASE AcceptNone
  BY <1>2 DEF AcceptNone
<1>3. CASE SlotEmpty
  BY <1>3 DEF SlotEmpty, NextSlot
<1>4. CASE SlotNotReady
  BY <1>4 DEF SlotNotReady, NextSlot
<1>5. CASE SlotEof
  BY <1>5 DEF SlotEof, NextSlot
<1>6. CASE SlotRead
  BY <1>6
<1>7. CASE FeedPart
  BY <1>7 DEF FeedStep
<1>8. CASE FeedResync
  BY <1>8 DEF FeedStep
<1>9. CASE FeedRejected
  BY <1>9 DEF FeedStep
<1>10. CASE FeedPacket
  BY <1>10 DEF FeedStep
<1>11. CASE FramedDone
  BY <1>11 DEF FramedDone
<1>12. CASE DrainOne
  <2>1. pc' = "deliver" \/ pc' = pc
    BY <1>12, Zenon DEF DrainOne
  <2>2. pc = "drain"
    BY <1>12 DEF DrainOne
  <2>3. QED
    BY <2>1, <2>2
<1>13. CASE DeliverFlush
  BY <1>13 DEF DeliverFlush
<1>14. CASE DrainDone
  BY <1>14 DEF DrainDone
<1>15. CASE Conf
  BY <1>15 DEF Conf
<1>16. CASE FlushReady
  BY <1>16 DEF FlushReady
<1>17. CASE BroadcastRx
  BY <1>17 DEF BroadcastRx
<1>18. CASE BroadcastFlush
  BY <1>18 DEF BroadcastFlush
<1>19. CASE NoRx
  BY <1>19 DEF NoRx
<1>20. CASE WorkerFinish
  BY <1>20 DEF WorkerFinish, slotVars, control
<1>21. CASE WorkerRecord
  BY <1>21 DEF WorkerRecord, slotVars, control
<1>22. CASE RawChunk
  BY <1>22 DEF RawChunk, control
<1>23. CASE UNCHANGED vars
  BY <1>23 DEF vars, slotVars, control
<1>24. QED
  BY <1>1, <1>2, <1>3, <1>4, <1>5, <1>6, <1>7, <1>8, <1>9, <1>10, <1>11, <1>12,
     <1>13, <1>14, <1>15, <1>16, <1>17, <1>18, <1>19, <1>20, <1>21, <1>22,
     <1>23
     DEF Next, MainStep, WorkerStep

\* The slot of a read is its connection's until the daemon closes it.
LEMMA ReadStep ==
    ASSUME Typing, ReadInv, [Next]_vars
    PROVE  ReadInv'
<1> SUFFICES ASSUME pc' = "feed"
             PROVE  \/ conn'[cursor'] = reader'
                    \/ conn'[cursor'] = NoConn /\ reader' \in evicted'
  BY DEF ReadInv
<1>1. CASE SlotRead
  BY <1>1 DEF SlotRead, slotVars
<1>2. CASE FeedStep
  <2>1. pc = "feed" /\ UNCHANGED <<cursor, reader>> /\ cursor \in Slots
    BY <1>2, FeedEffect DEF Typing, LoopInv
  <2>2. \/ conn[cursor] = reader /\ HasClient(cursor)
        \/ conn[cursor] = NoConn /\ reader \in evicted
    BY <2>1 DEF ReadInv, Typing, LoopInv, HasClient, Conns, NoConn
  <2>3. CASE UNCHANGED <<conn, generation, output, evicted>>
    BY <2>1, <2>2, <2>3
  <2>4. CASE \E m \in Message : Queue(cursor, m)
    <3>1. Evicting({}) \/ Evicting({cursor})
      BY <2>1, <2>4, QueueEffect DEF Typing
    <3>2. QED
      BY <2>1, <2>2, <3>1 DEF Evicting
  <2>5. QED
    BY <1>2, <2>3, <2>4, FeedEffect
<1>3. CASE pc = "feed" /\ UNCHANGED <<slotVars, control, evicted, accepts>>
  BY <1>3 DEF ReadInv, slotVars, control
<1>4. QED
  BY <1>1, <1>2, <1>3, FeedGoesOn

\* A slot closed in mid-read takes the answers to the rest of the read.
LEMMA RoomStep ==
    ASSUME Typing, RoomInv, [Next]_vars
    PROVE  RoomInv'
<1> SUFFICES ASSUME pc' = "feed", conn'[cursor'] = NoConn
             PROVE  Len(output'[cursor']) + left' <= OutCapacity
  BY DEF RoomInv
<1>1. CASE SlotRead
  BY <1>1 DEF SlotRead, slotVars, HasClient
<1>2. CASE FeedStep
  <2>1. /\ pc = "feed" /\ UNCHANGED <<cursor, reader>> /\ left' = left - 1
        /\ cursor \in Slots /\ left \in 1..MaxUnits
    BY <1>2, FeedEffect, Bounds DEF Typing, LoopInv, LoopTypeOK
  <2>2. output[cursor] \in Seq(Message) /\ Len(output[cursor]) \in Nat
    BY <2>1 DEF Typing, OutputTypeOK
  <2>3. CASE UNCHANGED <<conn, generation, output, evicted>>
    BY <2>1, <2>2, <2>3, Bounds DEF RoomInv
  <2>4. ASSUME NEW m \in Message, Queue(cursor, m)
        PROVE  Len(output'[cursor]) + left' <= OutCapacity
    <3>1. CASE Evicting({}) /\ Receives(cursor, m) /\ output'[cursor] # <<>>
      <4>1. conn[cursor] = NoConn
        BY <2>1, <3>1 DEF Evicting
      <4>2. Len(output'[cursor]) = Len(output[cursor]) + 1
        BY <3>1 DEF Receives
      <4>3. Len(output[cursor]) + left <= OutCapacity
        BY <2>1, <4>1 DEF RoomInv
      <4>4. QED
        BY <2>1, <2>2, <4>2, <4>3, Bounds
    <3>2. CASE output'[cursor] = <<>>
      <4>1. Len(output'[cursor]) = 0
        BY <3>2
      <4>2. QED
        BY <2>1, <4>1, Bounds
    <3>3. QED
      BY <2>1, <2>4, <3>1, <3>2, QueueEffect DEF Typing
  <2>5. QED
    BY <1>2, <2>1, <2>3, <2>4, FeedEffect
<1>3. CASE pc = "feed" /\ UNCHANGED <<slotVars, control, evicted, accepts>>
  BY <1>3 DEF RoomInv, slotVars, control
<1>4. QED
  BY <1>1, <1>2, <1>3, FeedGoesOn

-----------------------------------------------------------------------------
(* Generations.                                                            *)

\* A slot keeps connection and generation, or moves to the next generation,
\* which is the number after.
Moves(i) ==
    \/ conn'[i] = conn[i] /\ generation'[i] = generation[i]
    \/ generation'[i] = generation[i] + 1

\* Only a slot with a client is closed, and no generation wraps: a slot that
\* took every connection there is has come to 2 * MaxConns + 1.
LEMMA GenerationStep ==
    ASSUME Typing, RoomInv, GenerationInv, [Next]_vars
    PROVE  GenerationInv' /\ \A i \in Slots : Moves(i)
<1>1. /\ accepts \in 0..MaxConns
      /\ \A i \in Slots : generation[i] \in 1..(GenModulus - 1)
  BY DEF Typing, SlotTypeOK
<1>2. ASSUME NEW i \in Slots, HasClient(i) \/ accepts < MaxConns
      PROVE  NextGeneration(generation[i]) = generation[i] + 1
  <2>1. generation[i] <= 2 * accepts + (IF HasClient(i) THEN 0 ELSE 1)
    BY DEF GenerationInv
  <2>2. generation[i] + 1 < GenModulus
    BY <1>1, <1>2, <2>1, Bounds
  <2>3. QED
    BY <1>1, <2>2, NextGenerationRange
<1>3. ASSUME NEW S \in SUBSET Slots, Evicting(S), UNCHANGED accepts,
             \A i \in S : \/ HasClient(i)
                          \/ /\ pc = "feed" /\ i = cursor
                             /\ Len(output[i]) = OutCapacity
      PROVE  GenerationInv' /\ \A i \in Slots : Moves(i)
  <2>1. \A i \in S : HasClient(i)
    <3>1. ASSUME pc = "feed", ~HasClient(cursor)
          PROVE  Len(output[cursor]) # OutCapacity
      <4>1. /\ Len(output[cursor]) + left <= OutCapacity
            /\ left \in Nat /\ left >= 1 /\ cursor \in Slots
        BY <3>1 DEF RoomInv, HasClient, Typing, LoopInv, LoopTypeOK
      <4>2. Len(output[cursor]) \in Nat
        BY <4>1 DEF Typing, OutputTypeOK
      <4>3. QED
        BY <4>1, <4>2, Bounds
    <3>2. QED
      BY <1>3, <3>1
  <2>2. \A i \in Slots : Moves(i)
    BY <1>2, <1>3, <2>1 DEF Evicting, Moves
  <2>3. ASSUME NEW i \in Slots
        PROVE  generation'[i] <= 2 * accepts'
                                   + (IF conn'[i] # NoConn THEN 0 ELSE 1)
    <3>1. generation[i] <= 2 * accepts + (IF conn[i] # NoConn THEN 0 ELSE 1)
      BY DEF GenerationInv, HasClient
    <3>2. CASE i \in S
      <4>1. conn'[i] = NoConn /\ generation'[i] = generation[i] + 1
        BY <1>2, <1>3, <2>1, <3>2 DEF Evicting
      <4>2. conn[i] # NoConn
        BY <2>1, <3>2 DEF HasClient
      <4>3. QED
        BY <1>1, <1>3, <3>1, <4>1, <4>2
    <3>3. CASE i \notin S
      <4>1. conn'[i] = conn[i] /\ generation'[i] = generation[i]
        BY <1>3, <3>3 DEF Evicting
      <4>2. QED
        BY <1>3, <3>1, <4>1
    <3>4. QED
      BY <3>2, <3>3
  <2>4. QED
    BY <2>2, <2>3 DEF GenerationInv, HasClient
<1>4. CASE SlotEof
  <2>1. UNCHANGED accepts /\ cursor \in Slots /\ HasClient(cursor)
    BY <1>4 DEF SlotEof, AtSlot
  <2>2. \A i \in Slots \ {cursor} :
           conn'[i] = conn[i] /\ generation'[i] = generation[i]
    BY <1>4 DEF SlotEof, Close
  <2>3. conn'[cursor] = NoConn /\ generation'[cursor] = generation[cursor] + 1
    BY <1>2, <1>4, <2>1 DEF SlotEof, Close
  <2>4. \A i \in Slots : Moves(i)
    BY <2>2, <2>3 DEF Moves
  <2>5. ASSUME NEW i \in Slots
        PROVE  generation'[i] <= 2 * accepts'
                                   + (IF conn'[i] # NoConn THEN 0 ELSE 1)
    <3>1. generation[i] <= 2 * accepts + (IF conn[i] # NoConn THEN 0 ELSE 1)
      BY DEF GenerationInv, HasClient
    <3>2. CASE i = cursor
      BY <1>1, <2>1, <2>3, <3>1, <3>2 DEF HasClient
    <3>3. CASE i # cursor
      BY <2>1, <2>2, <3>1, <3>3
    <3>4. QED
      BY <3>2, <3>3
  <2>6. QED
    BY <2>4, <2>5 DEF GenerationInv, HasClient
<1>5. CASE AcceptClient
  <2>1. PICK s \in Slots : ~HasClient(s) /\ SetFd(s, accepts + 1)
    BY <1>5 DEF AcceptClient, FirstFree
  <2>2. accepts' = accepts + 1 /\ accepts < MaxConns
    BY <1>5 DEF AcceptClient
  <2>3. conn'[s] = accepts + 1 /\ generation'[s] = generation[s] + 1
    BY <1>2, <2>1, <2>2 DEF SetFd, Typing, SlotTypeOK
  <2>4. \A i \in Slots \ {s} :
           conn'[i] = conn[i] /\ generation'[i] = generation[i]
    BY <2>1 DEF SetFd, Typing, SlotTypeOK
  <2>5. \A i \in Slots : Moves(i)
    BY <2>3, <2>4 DEF Moves
  <2>6. ASSUME NEW i \in Slots
        PROVE  generation'[i] <= 2 * accepts'
                                   + (IF conn'[i] # NoConn THEN 0 ELSE 1)
    <3>1. generation[i] <= 2 * accepts + (IF conn[i] # NoConn THEN 0 ELSE 1)
      BY DEF GenerationInv, HasClient
    <3>2. CASE i = s
      BY <1>1, <2>2, <2>3, <3>1, <3>2 DEF NoConn
    <3>3. CASE i # s
      <4>1. conn'[i] = conn[i] /\ generation'[i] = generation[i]
        BY <2>4, <3>3
      <4>2. QED
        BY <1>1, <2>2, <3>1, <4>1
    <3>4. QED
      BY <3>2, <3>3
  <2>7. QED
    BY <2>5, <2>6 DEF GenerationInv, HasClient
<1>6. QED
  BY <1>3, <1>4, <1>5, SlotChanges DEF SlotChange, Typing

-----------------------------------------------------------------------------
(* Parsers.                                                                *)

\* A parser takes in only bytes of the read under way at its slot.
LEMMA ParseEffect ==
    ASSUME Typing, [Next]_vars
    PROVE  \A i \in Slots : parse'[i].from \subseteq parse[i].from \union
                  (IF pc = "feed" /\ i = cursor THEN {reader} ELSE {})
<1>1. Fresh.from = {} /\ parse \in [Slots -> [from : SUBSET Conns, skip : BOOLEAN]]
  BY DEF Fresh, Typing, SlotTypeOK
<1> USE DEF slotVars, txVars, settings, control
<1>2. CASE AcceptClient
  BY <1>2 DEF AcceptClient
<1>3. CASE AcceptNone
  BY <1>3 DEF AcceptNone
<1>4. CASE SlotEmpty
  <2>1. parse' = [parse EXCEPT ![cursor] = Fresh]
    BY <1>4 DEF SlotEmpty
  <2>2. QED
    BY <2>1, <1>1
<1>5. CASE SlotNotReady
  BY <1>5 DEF SlotNotReady
<1>6. CASE SlotEof
  <2>1. parse' = [parse EXCEPT ![cursor] = Fresh] /\ cursor \in Slots
    BY <1>6 DEF SlotEof, ParserReset, AtSlot
  <2>2. QED
    BY <2>1, <1>1
<1>7. CASE SlotRead
  BY <1>7 DEF SlotRead
<1>8. CASE FeedPart
  <2>1. pc = "feed" /\ cursor \in Slots
    BY <1>8 DEF FeedPart, Typing, LoopInv
  <2> DEFINE q == [parse[cursor] EXCEPT !.from = parse[cursor].from \union {reader}]
  <2>2. parse' = [parse EXCEPT ![cursor] = q]
    BY <1>8 DEF FeedPart
  <2>3. parse[cursor] \in [from : SUBSET Conns, skip : BOOLEAN]
    BY <2>1 DEF Typing, SlotTypeOK
  <2>4. q.from = parse[cursor].from \union {reader}
    BY <2>3
  <2> HIDE DEF q
  <2>5. QED
    BY <2>1, <2>2, <2>4, <1>1
<1>9. CASE FeedResync
  <2>1. parse' = [parse EXCEPT ![cursor] = Fresh]
    BY <1>9 DEF FeedResync
  <2>2. QED
    BY <2>1, <1>1
<1>10. CASE FeedRejected
  <2>1. pc = "feed" /\ cursor \in Slots
    BY <1>10 DEF FeedRejected, Typing, LoopInv
  <2> DEFINE q == [from |-> {reader}, skip |-> TRUE]
  <2>2. \/ parse' = [parse EXCEPT ![cursor] = Fresh]
        \/ parse' = [parse EXCEPT ![cursor] = q]
    BY <1>10 DEF FeedRejected
  <2>3. q.from = {reader}
    OBVIOUS
  <2> HIDE DEF q
  <2>4. QED
    BY <2>1, <2>2, <2>3, <1>1
<1>11. CASE FeedPacket
  <2>1. parse' = [parse EXCEPT ![cursor] = Fresh]
    BY <1>11 DEF FeedPacket
  <2>2. QED
    BY <2>1, <1>1
<1>12. CASE FramedDone
  BY <1>12 DEF FramedDone
<1>13. CASE DrainOne
  BY <1>13 DEF DrainOne
<1>14. CASE DeliverFlush
  BY <1>14 DEF DeliverFlush
<1>15. CASE DrainDone
  BY <1>15 DEF DrainDone
<1>16. CASE Conf
  BY <1>16 DEF Conf
<1>17. CASE FlushReady
  BY <1>17 DEF FlushReady
<1>18. CASE BroadcastRx
  BY <1>18 DEF BroadcastRx
<1>19. CASE BroadcastFlush
  BY <1>19 DEF BroadcastFlush
<1>20. CASE NoRx
  BY <1>20 DEF NoRx
<1>21. CASE WorkerFinish
  BY <1>21 DEF WorkerFinish
<1>22. CASE WorkerRecord
  BY <1>22 DEF WorkerRecord
<1>23. CASE RawChunk
  BY <1>23 DEF RawChunk
<1>24. CASE UNCHANGED vars
  BY <1>24 DEF vars
<1>25. QED
  BY <1>2, <1>3, <1>4, <1>5, <1>6, <1>7, <1>8, <1>9, <1>10, <1>11, <1>12,
     <1>13, <1>14, <1>15, <1>16, <1>17, <1>18, <1>19, <1>20, <1>21, <1>22,
     <1>23, <1>24
     DEF Next, MainStep, WorkerStep

\* What a parser holds is its connection's or that of one the daemon closed.
LEMMA ParserStep ==
    ASSUME Typing, Typing', ReadInv, ParserInv, [Next]_vars
    PROVE  ParserInv'
<1>1. ASSUME NEW i \in Slots
      PROVE  parse'[i].from \subseteq {conn[i]} \union evicted
  <2>1. parse[i].from \subseteq {conn[i]} \union evicted
    BY DEF ParserInv
  <2>2. pc = "feed" => reader \in {conn[cursor]} \union evicted
    BY DEF ReadInv
  <2>3. QED
    BY <2>1, <2>2, ParseEffect
<1>2. \A i \in Slots : parse'[i].from \subseteq Conns
  BY DEF Typing, SlotTypeOK
<1>3. NoConn \notin Conns
  BY DEF NoConn, Conns
<1>4. CASE \E S \in SUBSET Slots : Evicting(S)
  BY <1>1, <1>2, <1>3, <1>4 DEF ParserInv, Evicting, HasClient
<1>5. CASE SlotEof
  <2>1. UNCHANGED evicted /\ \A i \in Slots \ {cursor} : conn'[i] = conn[i]
    BY <1>5 DEF SlotEof, Close
  <2>2. cursor \in Slots => parse'[cursor].from = {}
    BY <1>5 DEF SlotEof, ParserReset, Fresh, Typing, SlotTypeOK
  <2>3. QED
    BY <1>1, <2>1, <2>2 DEF ParserInv
<1>6. CASE AcceptClient
  <2>1. PICK s \in Slots : ~HasClient(s) /\ SetFd(s, accepts + 1)
    BY <1>6 DEF AcceptClient, FirstFree
  <2>2. UNCHANGED evicted /\ \A i \in Slots \ {s} : conn'[i] = conn[i]
    BY <1>6, <2>1 DEF AcceptClient, SetFd, Typing, SlotTypeOK
  <2>3. parse'[s].from \subseteq evicted
    BY <1>1, <1>2, <1>3, <2>1 DEF HasClient
  <2>4. QED
    BY <1>1, <2>2, <2>3 DEF ParserInv
<1>7. QED
  BY <1>4, <1>5, <1>6, SlotChanges DEF SlotChange, Typing

-----------------------------------------------------------------------------
(* The way of a packet.                                                    *)

\* Packet sent + 1 is queued, for the slot of the read or for nobody.
Queued ==
    \E j \in Job :
       /\ jobs' = Append(jobs, j)
       /\ j.tx = sent + 1
       /\ j.slot # SlotNone => /\ pc = "feed" /\ j.slot = cursor
                               /\ j.generation = generation[cursor]
                               /\ j.conn = reader

\* A packet comes and is queued, answered or neither; the worker records a
\* result; the main loop takes one; or nothing moves.
TxChange ==
    \/ UNCHANGED <<jobs, completions, sent, answers>>
    \/ /\ sent < MaxTx /\ sent' = sent + 1
       /\ UNCHANGED completions
       /\ \/ Queued /\ UNCHANGED answers
          \/ UNCHANGED <<jobs, answers>>
          \/ /\ UNCHANGED jobs
             /\ answers' = [answers EXCEPT ![sent + 1] = answers[sent + 1] + 1]
    \/ WorkerRecord
    \/ DrainOne

\* Every step is one of these to the packets.
LEMMA TxChanges ==
    ASSUME Typing, [Next]_vars
    PROVE  TxChange
<1> USE DEF slotVars, txVars, settings, control
<1>1. CASE AcceptClient
  BY <1>1 DEF AcceptClient, TxChange
<1>2. CASE AcceptNone
  BY <1>2 DEF AcceptNone, TxChange
<1>3. CASE SlotEmpty
  BY <1>3 DEF SlotEmpty, TxChange
<1>4. CASE SlotNotReady
  BY <1>4 DEF SlotNotReady, TxChange
<1>5. CASE SlotEof
  BY <1>5 DEF SlotEof, TxChange
<1>6. CASE SlotRead
  BY <1>6 DEF SlotRead, TxChange
<1>7. CASE FeedPart
  BY <1>7 DEF FeedPart, TxChange
<1>8. CASE FeedResync
  BY <1>8 DEF FeedResync, TxChange
<1>9. CASE FeedRejected
  BY <1>9 DEF FeedRejected, TxChange
<1>10. CASE FeedPacket
  <2> DEFINE j == [slot |-> cursor, generation |-> generation[cursor],
                   tx |-> sent + 1, conn |-> reader,
                   asked |-> tx_result_active]
  <2>1. /\ pc = "feed" /\ sent < MaxTx /\ sent + 1 \in Packets
        /\ cursor \in Slots /\ reader \in Conns
    BY <1>10, Bounds DEF FeedPacket, Typing, LoopInv, TxTypeOK, Packets
  <2>2. /\ j \in Job /\ j.tx = sent + 1 /\ j.slot = cursor
        /\ j.generation = generation[cursor] /\ j.conn = reader
    BY <2>1, Bounds DEF Job, Typing, SlotTypeOK, FlagTypeOK
  <2>3. sent' = sent + 1 /\ UNCHANGED completions
    BY <1>10 DEF FeedPacket
  <2>4. \/ jobs' = Append(jobs, j) /\ UNCHANGED answers
        \/ UNCHANGED <<jobs, answers>>
        \/ /\ UNCHANGED jobs
           /\ answers' = [answers EXCEPT ![sent + 1] = answers[sent + 1] + 1]
    BY <1>10, Zenon DEF FeedPacket, ImmediateResult
  <2> HIDE DEF j
  <2>5. CASE jobs' = Append(jobs, j) /\ UNCHANGED answers
    <3>1. Queued
      BY <2>1, <2>2, <2>5 DEF Queued
    <3>2. QED
      BY <2>1, <2>3, <2>5, <3>1 DEF TxChange
  <2>6. QED
    BY <2>1, <2>3, <2>4, <2>5 DEF TxChange
<1>11. CASE FramedDone
  BY <1>11 DEF FramedDone, TxChange
<1>12. CASE DrainOne
  BY <1>12 DEF TxChange
<1>13. CASE DeliverFlush
  BY <1>13 DEF DeliverFlush, TxChange
<1>14. CASE DrainDone
  BY <1>14 DEF DrainDone, TxChange
<1>15. CASE Conf
  BY <1>15 DEF Conf, TxChange
<1>16. CASE FlushReady
  BY <1>16 DEF FlushReady, TxChange
<1>17. CASE BroadcastRx
  BY <1>17 DEF BroadcastRx, TxChange
<1>18. CASE BroadcastFlush
  BY <1>18 DEF BroadcastFlush, TxChange
<1>19. CASE NoRx
  BY <1>19 DEF NoRx, TxChange
<1>20. CASE WorkerFinish
  BY <1>20 DEF WorkerFinish, TxChange
<1>21. CASE WorkerRecord
  BY <1>21 DEF TxChange
<1>22. CASE RawChunk
  <2> DEFINE j == [slot |-> SlotNone, generation |-> 0, tx |-> sent + 1,
                   conn |-> NoConn, asked |-> FALSE]
  <2>1. sent < MaxTx /\ sent + 1 \in Packets
    BY <1>22, Bounds DEF RawChunk, Typing, TxTypeOK, Packets
  <2>2. j \in Job /\ j.slot = SlotNone /\ j.tx = sent + 1
    BY <2>1, Bounds DEF Job
  <2>3. /\ jobs' = Append(jobs, j) /\ sent' = sent + 1
        /\ UNCHANGED <<completions, answers>>
    BY <1>22 DEF RawChunk
  <2> HIDE DEF j
  <2>4. QED
    BY <2>1, <2>2, <2>3 DEF TxChange, Queued
<1>23. CASE UNCHANGED vars
  BY <1>23 DEF vars, TxChange
<1>24. QED
  BY <1>1, <1>2, <1>3, <1>4, <1>5, <1>6, <1>7, <1>8, <1>9, <1>10, <1>11, <1>12,
     <1>13, <1>14, <1>15, <1>16, <1>17, <1>18, <1>19, <1>20, <1>21, <1>22,
     <1>23
     DEF Next, MainStep, WorkerStep

\* WorkerRecord moves the oldest job to the end of the completions, which may
\* lose their oldest.
LEMMA RecordEffect ==
    ASSUME Typing, WorkerRecord
    PROVE  /\ UNCHANGED <<sent, answers>>
           /\ 1 \in DOMAIN jobs
           /\ \A k \in DOMAIN jobs' : k + 1 \in DOMAIN jobs /\ jobs'[k] = jobs[k + 1]
           /\ \E d \in 0..1 : \A k \in DOMAIN completions' :
                 \/ k = Len(completions') /\ completions'[k] = jobs[1]
                 \/ /\ k < Len(completions') /\ k + d \in DOMAIN completions
                    /\ completions'[k] = completions[k + d]
<1>1. jobs \in Seq(Job) /\ completions \in Seq(Job) /\ jobs # <<>>
  BY DEF Typing, TxTypeOK, WorkerRecord
<1>2. /\ UNCHANGED <<sent, answers>>
      /\ jobs' = Tail(jobs)
      /\ \/ completions # <<>> /\ completions' = Append(Tail(completions), Head(jobs))
         \/ completions' = Append(completions, Head(jobs))
  BY <1>1, Bounds DEF WorkerRecord
<1> DEFINE j == Head(jobs)
           t == Tail(completions)
<1>3. j \in Job /\ j = jobs[1] /\ 1 \in DOMAIN jobs
  BY <1>1, HeadTyped
<1>4. \A k \in DOMAIN jobs' : k + 1 \in DOMAIN jobs /\ jobs'[k] = jobs[k + 1]
  BY <1>1, <1>2, HeadTyped
<1>5. completions # <<>> =>
         /\ t \in Seq(Job)
         /\ \A k \in DOMAIN t : k + 1 \in DOMAIN completions /\ t[k] = completions[k + 1]
  BY <1>1, HeadTyped
<1> HIDE DEF j, t
<1>6. CASE completions # <<>> /\ completions' = Append(t, j)
  <2>1. \A k \in DOMAIN completions' :
           \/ k = Len(completions') /\ completions'[k] = j
           \/ k < Len(completions') /\ k \in DOMAIN t /\ completions'[k] = t[k]
    BY <1>3, <1>5, <1>6
  <2>2. QED
    BY <1>2, <1>3, <1>4, <1>5, <1>6, <2>1
<1>7. CASE completions' = Append(completions, j)
  <2>1. \A k \in DOMAIN completions' :
           \/ k = Len(completions') /\ completions'[k] = j
           \/ /\ k < Len(completions') /\ k + 0 \in DOMAIN completions
              /\ completions'[k] = completions[k + 0]
    BY <1>1, <1>3, <1>7
  <2>2. QED
    BY <1>2, <1>3, <1>4, <2>1
<1>8. QED
  BY <1>2, <1>6, <1>7 DEF j, t

\* Taking a result moves the others up.
LEMMA DrainEffect ==
    ASSUME Typing, DrainOne
    PROVE  /\ UNCHANGED <<jobs, sent>>
           /\ 1 \in DOMAIN completions /\ Head(completions) = completions[1]
           /\ \A k \in DOMAIN completions' :
                 k + 1 \in DOMAIN completions /\ completions'[k] = completions[k + 1]
           /\ \/ UNCHANGED answers
              \/ answers' = [answers EXCEPT ![completions[1].tx] =
                                               answers[completions[1].tx] + 1]
<1>1. /\ completions # <<>> /\ completions' = Tail(completions)
      /\ UNCHANGED <<jobs, sent>>
  BY DEF DrainOne
<1>2. \/ UNCHANGED answers
      \/ answers' = [answers EXCEPT ![Head(completions).tx] =
                                               answers[Head(completions).tx] + 1]
  BY Zenon DEF DrainOne
<1>3. /\ 1 \in DOMAIN completions /\ Head(completions) = completions[1]
      /\ \A k \in DOMAIN completions' :
            k + 1 \in DOMAIN completions /\ completions'[k] = completions[k + 1]
  BY <1>1, HeadTyped DEF Typing, TxTypeOK
<1>4. QED
  BY <1>1, <1>2, <1>3

\* A slot that moved on has outrun the results noted for it.
LEMMA AimKept ==
    ASSUME Typing, NEW r \in Job, AimedAt(r, generation, conn),
           \A i \in Slots : Moves(i)
    PROVE  AimedAt(r, generation', conn')
<1> SUFFICES ASSUME r.slot # SlotNone
             PROVE  /\ r.generation # 0 /\ r.generation <= generation'[r.slot]
                    /\ r.generation = generation'[r.slot] /\ conn'[r.slot] # NoConn
                          => r.conn = conn'[r.slot]
  BY DEF AimedAt
<1> DEFINE s == r.slot
           g == r.generation
<1>1. s \in Slots /\ g \in Nat
  BY Bounds DEF Job
<1>2. /\ g # 0 /\ g <= generation[s]
      /\ g = generation[s] /\ conn[s] # NoConn => r.conn = conn[s]
  BY DEF AimedAt
<1> HIDE DEF s, g
<1>3. generation[s] \in Nat
  BY <1>1, Bounds DEF Typing, SlotTypeOK
<1>4. /\ g # 0 /\ g <= generation'[s]
      /\ g = generation'[s] /\ conn'[s] # NoConn => r.conn = conn'[s]
  BY <1>1, <1>2, <1>3 DEF Moves
<1>5. QED
  BY <1>4 DEF s, g

\* Results stay aimed at the connection their packet came from.
LEMMA TargetStep ==
    ASSUME Typing, ReadInv, RoomInv, GenerationInv, TargetInv, [Next]_vars
    PROVE  TargetInv'
<1>1. \A i \in Slots : Moves(i)
  BY GenerationStep
<1>2. /\ jobs \in Seq(Job) /\ completions \in Seq(Job)
      /\ \A k \in DOMAIN jobs : jobs[k] \in Job
      /\ \A k \in DOMAIN completions : completions[k] \in Job
  BY DEF Typing, TxTypeOK
<1>3. /\ \A k \in DOMAIN jobs : AimedAt(jobs[k], generation', conn')
      /\ \A k \in DOMAIN completions : AimedAt(completions[k], generation', conn')
  BY <1>1, <1>2, AimKept DEF TargetInv
<1>4. ASSUME Queued, UNCHANGED completions
      PROVE  TargetInv'
  <2>1. PICK j \in Job :
           /\ jobs' = Append(jobs, j)
           /\ j.slot # SlotNone => /\ pc = "feed" /\ j.slot = cursor
                                   /\ j.generation = generation[cursor]
                                   /\ j.conn = reader
    BY <1>4 DEF Queued
  <2>2. AimedAt(j, generation, conn)
    <3>1. pc = "feed" => /\ generation[cursor] \in Nat \ {0}
                         /\ conn[cursor] # NoConn => conn[cursor] = reader
      BY Bounds DEF Typing, SlotTypeOK, LoopInv, ReadInv
    <3>2. QED
      BY <2>1, <3>1 DEF AimedAt
  <2>3. AimedAt(j, generation', conn')
    BY <1>1, <2>2, AimKept
  <2>4. \A k \in DOMAIN jobs' :
           jobs'[k] = j \/ (k \in DOMAIN jobs /\ jobs'[k] = jobs[k])
    BY <1>2, <2>1
  <2>5. QED
    BY <1>3, <1>4, <2>3, <2>4 DEF TargetInv
<1>5. CASE UNCHANGED <<jobs, completions>>
  BY <1>3, <1>5 DEF TargetInv
<1>6. CASE WorkerRecord
  <2>1. /\ \A k \in DOMAIN jobs' : \E l \in DOMAIN jobs : jobs'[k] = jobs[l]
        /\ \A k \in DOMAIN completions' :
              \/ \E l \in DOMAIN jobs : completions'[k] = jobs[l]
              \/ \E l \in DOMAIN completions : completions'[k] = completions[l]
    BY <1>6, RecordEffect
  <2>2. QED
    BY <1>3, <2>1 DEF TargetInv
<1>7. CASE DrainOne
  <2>1. /\ UNCHANGED jobs
        /\ \A k \in DOMAIN completions' :
              \E l \in DOMAIN completions : completions'[k] = completions[l]
    BY <1>7, DrainEffect
  <2>2. QED
    BY <1>3, <2>1 DEF TargetInv
<1>8. QED
  BY <1>4, <1>5, <1>6, <1>7, TxChanges DEF TxChange

\* A packet is answered once, and none on its way has been.
LEMMA OrderStep ==
    ASSUME Typing, OrderInv, AtMostOneResult, [Next]_vars
    PROVE  OrderInv' /\ AtMostOneResult'
<1>1. /\ sent \in Nat /\ answers \in [Packets -> Nat]
      /\ \A t \in Packets : t \in Nat /\ answers[t] \in Nat
  BY Bounds DEF Typing, TxTypeOK, Packets
<1>2. /\ \A k \in DOMAIN jobs : /\ jobs[k].tx \in Packets /\ jobs[k].tx <= sent
                                /\ answers[jobs[k].tx] = 0
      /\ \A k \in DOMAIN completions :
            /\ completions[k].tx \in Packets /\ completions[k].tx <= sent
            /\ answers[completions[k].tx] = 0
  <2>1. /\ \A k \in DOMAIN jobs : jobs[k] \in Job
        /\ \A k \in DOMAIN completions : completions[k] \in Job
    BY DEF Typing, TxTypeOK
  <2>2. \A j \in Job : j.tx \in Packets
    BY DEF Job
  <2>3. QED
    BY <2>1, <2>2 DEF OrderInv, Waiting
<1>3. ASSUME sent < MaxTx, sent' = sent + 1, UNCHANGED completions
      PROVE  /\ Queued /\ UNCHANGED answers => OrderInv' /\ AtMostOneResult'
             /\ UNCHANGED <<jobs, answers>> => OrderInv' /\ AtMostOneResult'
             /\ /\ UNCHANGED jobs
                /\ answers' = [answers EXCEPT ![sent + 1] = answers[sent + 1] + 1]
                => OrderInv' /\ AtMostOneResult'
  <2>1. sent + 1 \in Packets /\ answers[sent + 1] = 0
    BY <1>1, <1>3, Bounds DEF OrderInv, Packets
  <2>2. ASSUME Queued, UNCHANGED answers
        PROVE  OrderInv' /\ AtMostOneResult'
    <3>1. PICK j \in Job : jobs' = Append(jobs, j) /\ j.tx = sent + 1
      BY <2>2 DEF Queued
    <3>2. \A k \in DOMAIN jobs' :
             \/ k = Len(jobs) + 1 /\ jobs'[k].tx = sent + 1
             \/ k \in DOMAIN jobs /\ k <= Len(jobs) /\ jobs'[k].tx = jobs[k].tx
      BY <3>1 DEF Typing, TxTypeOK
    <3>3. Waiting(jobs)'
      <4>1. ASSUME NEW k \in DOMAIN jobs'
            PROVE  jobs'[k].tx <= sent' /\ answers'[jobs'[k].tx] = 0
        BY <1>1, <1>2, <1>3, <2>1, <2>2, <3>2
      <4>2. ASSUME NEW k \in DOMAIN jobs', NEW l \in DOMAIN jobs', k < l
            PROVE  jobs'[k].tx < jobs'[l].tx
        <5>1. k \in DOMAIN jobs /\ k <= Len(jobs) /\ jobs'[k].tx = jobs[k].tx
          <6>1. k \in Nat /\ l \in Nat /\ Len(jobs) \in Nat
            BY <3>1 DEF Typing, TxTypeOK
          <6>2. QED
            BY <3>2, <4>2, <6>1
        <5>2. CASE jobs'[l].tx = sent + 1
          BY <1>1, <1>2, <5>1, <5>2
        <5>3. CASE l \in DOMAIN jobs /\ jobs'[l].tx = jobs[l].tx
          BY <4>2, <5>1, <5>3 DEF OrderInv, Waiting
        <5>4. QED
          BY <3>2, <5>2, <5>3
      <4>3. QED
        BY <4>1, <4>2 DEF Waiting
    <3>4. Waiting(completions)'
      <4>1. \A k \in DOMAIN completions : completions[k].tx <= sent + 1
        BY <1>1, <1>2
      <4>2. QED
        BY <1>2, <1>3, <2>2, <4>1 DEF OrderInv, Waiting
    <3>5. ASSUME NEW k \in DOMAIN completions, NEW l \in DOMAIN jobs'
          PROVE  completions[k].tx < jobs'[l].tx
      <4>1. completions[k].tx < sent + 1
        BY <1>1, <1>2
      <4>2. l \in DOMAIN jobs => completions[k].tx < jobs[l].tx
        BY DEF OrderInv
      <4>3. QED
        BY <3>2, <4>1, <4>2
    <3>6. \A t \in Packets : t > sent' => answers'[t] = 0
      BY <1>1, <1>3, <2>2 DEF OrderInv
    <3>7. AtMostOneResult'
      BY <2>2 DEF AtMostOneResult
    <3>8. QED
      BY <1>3, <3>3, <3>4, <3>5, <3>6, <3>7 DEF OrderInv
  <2>3. ASSUME UNCHANGED <<jobs, answers>>
        PROVE  OrderInv' /\ AtMostOneResult'
    <3>1. /\ \A k \in DOMAIN jobs : jobs[k].tx <= sent + 1
          /\ \A k \in DOMAIN completions : completions[k].tx <= sent + 1
      BY <1>1, <1>2
    <3>2. \A t \in Packets : t > sent' => answers'[t] = 0
      BY <1>1, <1>3, <2>3 DEF OrderInv
    <3>3. QED
      BY <1>2, <1>3, <2>3, <3>1, <3>2 DEF OrderInv, Waiting, AtMostOneResult
  <2>4. ASSUME UNCHANGED jobs,
               answers' = [answers EXCEPT ![sent + 1] = answers[sent + 1] + 1]
        PROVE  OrderInv' /\ AtMostOneResult'
    <3>1. /\ answers'[sent + 1] = 1
          /\ \A t \in Packets : t # sent + 1 => answers'[t] = answers[t]
      BY <1>1, <2>1, <2>4
    <3>2. \A k \in DOMAIN jobs :
             jobs[k].tx <= sent' /\ answers'[jobs[k].tx] = 0
      BY <1>1, <1>2, <1>3, <3>1
    <3>3. \A k \in DOMAIN completions :
             completions[k].tx <= sent' /\ answers'[completions[k].tx] = 0
      BY <1>1, <1>2, <1>3, <3>1
    <3>4. \A t \in Packets : answers'[t] <= 1 /\ (t > sent' => answers'[t] = 0)
      BY <1>1, <1>3, <3>1 DEF OrderInv, AtMostOneResult
    <3>5. QED
      BY <1>3, <2>4, <3>2, <3>3, <3>4 DEF OrderInv, Waiting, AtMostOneResult
  <2>5. QED
    BY <2>2, <2>3, <2>4
<1>4. CASE UNCHANGED <<jobs, completions, sent, answers>>
  BY <1>4 DEF OrderInv, Waiting, AtMostOneResult
<1>5. CASE WorkerRecord
  <2>1. /\ UNCHANGED <<sent, answers>> /\ 1 \in DOMAIN jobs
        /\ \A k \in DOMAIN jobs' : k + 1 \in DOMAIN jobs /\ jobs'[k] = jobs[k + 1]
    BY <1>5, RecordEffect
  <2>2. PICK d \in 0..1 : \A k \in DOMAIN completions' :
           \/ k = Len(completions') /\ completions'[k] = jobs[1]
           \/ /\ k < Len(completions') /\ k + d \in DOMAIN completions
              /\ completions'[k] = completions[k + d]
    BY <1>5, RecordEffect
  <2>3. \A k \in DOMAIN jobs' : k \in Nat /\ k >= 1 /\ 1 < k + 1
    <3>1. jobs' \in Seq(Job)
      BY TxStep DEF Typing, TxTypeOK
    <3>2. QED
      BY <3>1
  <2>4. \A k \in DOMAIN completions' : k \in 1..Len(completions')
    <3>1. completions' \in Seq(Job)
      BY TxStep DEF Typing, TxTypeOK
    <3>2. QED
      BY <3>1
  <2>5. Waiting(jobs)'
    BY <2>1, <2>3 DEF OrderInv, Waiting
  <2>6. Waiting(completions)'
    <3>1. \A k \in DOMAIN completions' :
             completions'[k].tx <= sent /\ answers[completions'[k].tx] = 0
      BY <2>1, <2>2 DEF OrderInv, Waiting
    <3>2. ASSUME NEW k \in DOMAIN completions', NEW l \in DOMAIN completions',
                 k < l
          PROVE  completions'[k].tx < completions'[l].tx
      <4>1. k + d \in DOMAIN completions /\ completions'[k] = completions[k + d]
        BY <2>2, <2>4, <3>2
      <4>2. CASE completions'[l] = jobs[1]
        BY <2>1, <4>1, <4>2 DEF OrderInv
      <4>3. CASE l + d \in DOMAIN completions /\ completions'[l] = completions[l + d]
        <5>1. k + d < l + d
          BY <2>4, <3>2
        <5>2. QED
          BY <4>1, <4>3, <5>1 DEF OrderInv, Waiting
      <4>4. QED
        BY <2>2, <4>2, <4>3
    <3>3. QED
      BY <2>1, <3>1, <3>2 DEF Waiting
  <2>7. ASSUME NEW k \in DOMAIN completions', NEW l \in DOMAIN jobs'
        PROVE  completions'[k].tx < jobs'[l].tx
    <3>1. l + 1 \in DOMAIN jobs /\ jobs'[l] = jobs[l + 1] /\ 1 < l + 1
      BY <2>1, <2>3
    <3>2. CASE completions'[k] = jobs[1]
      BY <2>1, <3>1, <3>2 DEF OrderInv, Waiting
    <3>3. CASE \E i \in DOMAIN completions : completions'[k] = completions[i]
      BY <3>1, <3>3 DEF OrderInv
    <3>4. QED
      BY <2>2, <3>2, <3>3
  <2>8. QED
    BY <2>1, <2>5, <2>6, <2>7 DEF OrderInv, AtMostOneResult
<1>6. CASE DrainOne
  <2>1. /\ UNCHANGED <<jobs, sent>> /\ 1 \in DOMAIN completions
        /\ \A k \in DOMAIN completions' :
              k + 1 \in DOMAIN completions /\ completions'[k] = completions[k + 1]
        /\ \/ UNCHANGED answers
           \/ answers' = [answers EXCEPT ![completions[1].tx] =
                                            answers[completions[1].tx] + 1]
    BY <1>6, DrainEffect
  <2> DEFINE t == completions[1].tx
  <2>2. t \in Packets /\ answers[t] = 0 /\ t <= sent
    BY <1>2, <2>1
  <2>3. /\ answers'[t] <= 1
        /\ \A u \in Packets : u # t => answers'[u] = answers[u]
    BY <1>1, <2>1, <2>2
  <2>4. \A k \in DOMAIN completions' : k \in Nat /\ k >= 1 /\ 1 < k + 1
    <3>1. completions' \in Seq(Job)
      BY TxStep DEF Typing, TxTypeOK
    <3>2. QED
      BY <3>1
  <2>5. /\ \A k \in DOMAIN completions' : t < completions'[k].tx
        /\ \A k \in DOMAIN jobs : t < jobs[k].tx
    BY <2>1, <2>4 DEF OrderInv, Waiting
  <2> HIDE DEF t
  <2>6. Waiting(jobs)'
    <3>1. ASSUME NEW k \in DOMAIN jobs
          PROVE  answers'[jobs[k].tx] = 0
      <4>1. jobs[k].tx # t
        BY <1>1, <1>2, <2>2, <2>5
      <4>2. QED
        BY <1>2, <2>3, <4>1
    <3>2. QED
      BY <2>1, <3>1 DEF OrderInv, Waiting
  <2>7. Waiting(completions)'
    <3>1. ASSUME NEW k \in DOMAIN completions'
          PROVE  completions'[k].tx <= sent' /\ answers'[completions'[k].tx] = 0
      <4>1. /\ completions'[k].tx \in Packets /\ completions'[k].tx # t
            /\ completions'[k].tx <= sent /\ answers[completions'[k].tx] = 0
        BY <1>1, <1>2, <2>1, <2>2, <2>5
      <4>2. QED
        BY <2>1, <2>3, <4>1
    <3>2. ASSUME NEW k \in DOMAIN completions', NEW l \in DOMAIN completions',
                 k < l
          PROVE  completions'[k].tx < completions'[l].tx
      <4>1. k + 1 < l + 1
        BY <2>4, <3>2
      <4>2. QED
        BY <2>1, <4>1 DEF OrderInv, Waiting
    <3>3. QED
      BY <3>1, <3>2 DEF Waiting
  <2>8. \A k \in DOMAIN completions', l \in DOMAIN jobs' :
           completions'[k].tx < jobs'[l].tx
    BY <2>1 DEF OrderInv
  <2>9. \A u \in Packets : answers'[u] <= 1 /\ (u > sent' => answers'[u] = 0)
    BY <1>1, <2>1, <2>2, <2>3 DEF OrderInv, AtMostOneResult
  <2>10. QED
    BY <2>6, <2>7, <2>8, <2>9 DEF OrderInv, AtMostOneResult
<1>7. QED
  BY <1>3, <1>4, <1>5, <1>6, TxChanges DEF TxChange

-----------------------------------------------------------------------------
(* Output.                                                                 *)

\* Whatever slot i holds after a step was there before, is not a result, or
\* is a result for the slot's connection.
Belongs(i) ==
    \A k \in DOMAIN output'[i] :
       \/ \E l \in DOMAIN output[i] : output'[i][k] = output[i][l]
       \/ output'[i][k].tx = 0
       \/ HasClient(i) => output'[i][k].conn = conn[i]

\* An answer put into its own slot is no one else's.
LEMMA ReceivesBelongs ==
    ASSUME Typing, NEW s \in Slots, NEW m \in Message, Receives(s, m),
           m.tx # 0 /\ HasClient(s) => m.conn = conn[s]
    PROVE  \A i \in Slots : Belongs(i)
<1> SUFFICES ASSUME NEW i \in Slots
             PROVE  Belongs(i)
  OBVIOUS
<1>1. CASE i # s
  <2>1. output'[i] = output[i]
    BY <1>1 DEF Receives
  <2>2. QED
    BY <2>1 DEF Belongs
<1>2. CASE i = s /\ output'[s] = <<>>
  BY <1>2 DEF Belongs
<1>3. CASE /\ i = s
           /\ \A k \in DOMAIN output'[s] :
                 \/ output'[s][k] = m
                 \/ k \in DOMAIN output[s] /\ output'[s][k] = output[s][k]
  BY <1>3 DEF Belongs
<1>4. QED
  BY <1>1, <1>2, <1>3 DEF Receives

\* Nothing else is ever put into a slot.
LEMMA OutputBelongs ==
    ASSUME Typing, ReadInv, TargetInv, [Next]_vars
    PROVE  \A i \in Slots : Belongs(i)
<1>1. ASSUME UNCHANGED output
      PROVE  \A i \in Slots : Belongs(i)
  BY <1>1 DEF Belongs
<1>2. ASSUME NEW s \in Slots, output' = [output EXCEPT ![s] = <<>>]
      PROVE  \A i \in Slots : Belongs(i)
  <2> SUFFICES ASSUME NEW i \in Slots
               PROVE  Belongs(i)
    OBVIOUS
  <2>1. output'[i] = <<>> \/ output'[i] = output[i]
    BY <1>2 DEF Typing, OutputTypeOK
  <2>2. QED
    BY <2>1 DEF Belongs
<1>3. ASSUME FeedStep
      PROVE  \A i \in Slots : Belongs(i)
  <2>1. pc = "feed" /\ cursor \in Slots
    BY <1>3, FeedEffect DEF Typing, LoopInv
  <2>2. HasClient(cursor) => conn[cursor] = reader
    BY <2>1 DEF ReadInv, HasClient
  <2>3. CASE UNCHANGED output
    BY <2>3, <1>1
  <2>4. ASSUME NEW m \in Message, Queue(cursor, m), m.tx # 0 => m.conn = reader
        PROVE  \A i \in Slots : Belongs(i)
    <3>1. Receives(cursor, m)
      BY <2>1, <2>4, QueueEffect DEF Typing
    <3>2. QED
      BY <2>1, <2>2, <2>4, <3>1, ReceivesBelongs
  <2>5. QED
    BY <1>3, <2>3, <2>4, FeedEffect
<1> USE DEF slotVars, txVars, settings, control
<1>4. CASE AcceptClient
  <2>1. \E s \in Slots : output' = [output EXCEPT ![s] = <<>>]
    BY <1>4 DEF AcceptClient, SetFd
  <2>2. QED
    BY <2>1, <1>2
<1>5. CASE AcceptNone
  BY <1>5, <1>1 DEF AcceptNone
<1>6. CASE SlotEmpty
  BY <1>6, <1>1 DEF SlotEmpty
<1>7. CASE SlotNotReady
  BY <1>7, <1>1 DEF SlotNotReady
<1>8. CASE SlotEof
  <2>1. \E s \in Slots : output' = [output EXCEPT ![s] = <<>>]
    BY <1>8 DEF SlotEof, AtSlot
  <2>2. QED
    BY <2>1, <1>2
<1>9. CASE SlotRead
  BY <1>9, <1>1 DEF SlotRead
<1>10. CASE FeedPart
  BY <1>10, <1>1 DEF FeedPart
<1>11. CASE FeedResync
  BY <1>11, <1>1 DEF FeedResync
<1>12. CASE FeedRejected
  <2>1. FeedStep
    BY <1>12 DEF FeedStep
  <2>2. QED
    BY <2>1, <1>3
<1>13. CASE FeedPacket
  <2>1. FeedStep
    BY <1>13 DEF FeedStep
  <2>2. QED
    BY <2>1, <1>3
<1>14. CASE FramedDone
  BY <1>14, <1>1 DEF FramedDone
<1>15. CASE DrainOne
  <2> DEFINE r == Head(completions)
  <2>1. r \in Job /\ r = completions[1] /\ 1 \in DOMAIN completions
    BY <1>15, DrainEffect, DrainOneOutput DEF Typing
  <2>2. CASE UNCHANGED output
    BY <2>2, <1>1
  <2>3. ASSUME r.slot \in Slots, HasClient(r.slot), ~IsStale(r),
               NEW m \in Message, Queue(r.slot, m), m.conn = r.conn
        PROVE  \A i \in Slots : Belongs(i)
    <3>1. AimedAt(r, generation, conn)
      BY <2>1 DEF TargetInv
    <3>2. r.slot # SlotNone
      BY <2>3 DEF Slots, SlotNone
    <3>3. r.conn = conn[r.slot]
      BY <2>3, <3>1, <3>2 DEF AimedAt, IsStale, HasClient
    <3>4. Receives(r.slot, m)
      BY <2>3, QueueEffect DEF Typing
    <3>5. QED
      BY <2>3, <3>3, <3>4, ReceivesBelongs
  <2>4. QED
    BY <1>15, <2>2, <2>3, DrainOneOutput DEF Typing
<1>16. CASE DeliverFlush
  <2>1. \E S \in SUBSET Slots : Flush(S)
    BY <1>16 DEF DeliverFlush, Typing, LoopInv
  <2>2. Sends
    BY <2>1, FlushEffect DEF Typing
  <2>3. QED
    BY <2>2 DEF Sends, Belongs
<1>17. CASE DrainDone
  BY <1>17, <1>1 DEF DrainDone
<1>18. CASE Conf
  BY <1>18, <1>1 DEF Conf
<1>19. CASE FlushReady
  <2>1. \E S \in SUBSET Slots : Flush(S)
    BY <1>19 DEF FlushReady, Typing, LoopInv
  <2>2. Sends
    BY <2>1, FlushEffect DEF Typing
  <2>3. QED
    BY <2>2 DEF Sends, Belongs
<1>20. CASE BroadcastRx
  <2> SUFFICES ASSUME NEW i \in Slots
               PROVE  Belongs(i)
    OBVIOUS
  <2>1. output'[i] = <<>> \/ output'[i] = Append(output[i], Other)
    BY <1>20 DEF BroadcastRx
  <2>2. Other \in Message /\ Other.tx = 0 /\ output[i] \in Seq(Message)
    BY DEF Other, Message, Typing, OutputTypeOK
  <2>3. CASE output'[i] = <<>>
    BY <2>3 DEF Belongs
  <2>4. CASE output'[i] = Append(output[i], Other)
    <3>1. \A k \in DOMAIN output'[i] :
             \/ output'[i][k] = Other
             \/ k \in DOMAIN output[i] /\ output'[i][k] = output[i][k]
      BY <2>2, <2>4
    <3>2. QED
      BY <2>2, <3>1 DEF Belongs
  <2>5. QED
    BY <2>1, <2>3, <2>4
<1>21. CASE BroadcastFlush
  <2>1. \E S \in SUBSET Slots : Flush(S)
    BY <1>21 DEF BroadcastFlush, Typing, LoopInv
  <2>2. Sends
    BY <2>1, FlushEffect DEF Typing
  <2>3. QED
    BY <2>2 DEF Sends, Belongs
<1>22. CASE NoRx
  BY <1>22, <1>1 DEF NoRx
<1>23. CASE WorkerFinish
  BY <1>23, <1>1 DEF WorkerFinish
<1>24. CASE WorkerRecord
  BY <1>24, <1>1 DEF WorkerRecord
<1>25. CASE RawChunk
  BY <1>25, <1>1 DEF RawChunk
<1>26. CASE UNCHANGED vars
  BY <1>26, <1>1 DEF vars
<1>27. QED
  BY <1>4, <1>5, <1>6, <1>7, <1>8, <1>9, <1>10, <1>11, <1>12, <1>13, <1>14,
     <1>15, <1>16, <1>17, <1>18, <1>19, <1>20, <1>21, <1>22, <1>23, <1>24,
     <1>25, <1>26
     DEF Next, MainStep, WorkerStep

\* A slot that has a client after a step had it before, or has no output.
LEMMA ClientStays ==
    ASSUME Typing, [Next]_vars, NEW i \in Slots, conn'[i] # NoConn
    PROVE  conn'[i] = conn[i] \/ output'[i] = <<>>
<1>1. CASE \E S \in SUBSET Slots : Evicting(S)
  BY <1>1 DEF Evicting
<1>2. CASE SlotEof
  BY <1>2 DEF SlotEof, Close
<1>3. CASE AcceptClient
  <2>1. PICK s \in Slots : SetFd(s, accepts + 1)
    BY <1>3 DEF AcceptClient
  <2>2. QED
    BY <2>1 DEF SetFd, Typing, SlotTypeOK, OutputTypeOK
<1>4. QED
  BY <1>1, <1>2, <1>3, SlotChanges DEF SlotChange, Typing

\* A step leaves every queued result with the connection it is for.
LEMMA ResultStep ==
    ASSUME Typing, ReadInv, TargetInv, ResultReachesItsClient, [Next]_vars
    PROVE  ResultReachesItsClient'
<1> SUFFICES ASSUME NEW i \in Slots, conn'[i] # NoConn,
                    NEW k \in DOMAIN output'[i], output'[i][k].tx # 0
             PROVE  output'[i][k].conn = conn'[i]
  BY DEF ResultReachesItsClient, HasClient
<1>1. conn'[i] = conn[i] /\ HasClient(i)
  <2>1. output'[i] # <<>>
    OBVIOUS
  <2>2. QED
    BY <2>1, ClientStays DEF HasClient
<1>2. \/ \E l \in DOMAIN output[i] : output'[i][k] = output[i][l]
      \/ output'[i][k].conn = conn[i]
  BY <1>1, OutputBelongs DEF Belongs
<1>3. QED
  BY <1>1, <1>2 DEF ResultReachesItsClient

-----------------------------------------------------------------------------
(* The theorems.                                                           *)

\* What the results rest on: slots and reads, generations, and the queues.
Inv ==
    /\ Typing
    /\ ReadInv /\ RoomInv /\ GenerationInv /\ ParserInv
    /\ TargetInv /\ OrderInv
    /\ AtMostOneResult /\ ResultReachesItsClient

\* The parts of Inv hold together, each preserved with the help of the others.
LEMMA Invariance == Spec => []Inv
<1>1. Init /\ Typing => Inv
  <2> SUFFICES ASSUME Init, Typing
               PROVE  Inv
    OBVIOUS
  <2>1. /\ conn = [i \in Slots |-> NoConn] /\ parse = [i \in Slots |-> Fresh]
        /\ generation = [i \in Slots |-> 1] /\ pc = "accept" /\ accepts = 0
        /\ answers = [t \in Packets |-> 0] /\ jobs = <<>> /\ completions = <<>>
    BY DEF Init
  <2>2. ReadInv /\ RoomInv /\ GenerationInv
    BY <2>1 DEF ReadInv, RoomInv, GenerationInv, HasClient
  <2>3. ParserInv
    BY <2>1 DEF ParserInv, Fresh
  <2>4. TargetInv /\ OrderInv /\ AtMostOneResult
    BY <2>1 DEF TargetInv, OrderInv, Waiting, AtMostOneResult
  <2>5. ResultReachesItsClient
    BY <2>1 DEF ResultReachesItsClient, HasClient
  <2>6. QED
    BY <2>2, <2>3, <2>4, <2>5 DEF Inv
<1>2. Inv /\ Typing' /\ [Next]_vars => Inv'
  BY ReadStep, RoomStep, GenerationStep, ParserStep, TargetStep, OrderStep,
     ResultStep DEF Inv
<1>3. QED
  BY <1>1, <1>2, Typed, PTL DEF Spec

\* client_slot.cpp, daemon_framed_data.cpp, daemon_tx_completion.cpp: the
\* queues stay within their capacities, a slot's output included, whatever is
\* accepted, answered, flushed and broadcast in between.
THEOREM TypeCorrect == Spec => []TypeOK
<1>1. Typing => TypeOK
  BY DEF Typing, SlotTypeOK, OutputTypeOK, TxTypeOK, FlagTypeOK, LoopTypeOK,
         TypeOK
<1>2. QED
  BY <1>1, Typed, PTL

\* daemon_tx_completion_delivery: a TX_RESULT is only ever queued for the
\* connection that sent the packet, however often the slot was reused while
\* the packet was on its way.
THEOREM ResultsGoHome == Spec => []ResultReachesItsClient
<1>1. Inv => ResultReachesItsClient
  BY DEF Inv
<1>2. QED
  BY <1>1, Invariance, PTL

\* daemon_framed_tx_should_emit_immediate_result and the completion drain:
\* between them they answer a packet once, in whatever order the settings
\* change.
THEOREM AnsweredOnce == Spec => []AtMostOneResult
<1>1. Inv => AtMostOneResult
  BY DEF Inv
<1>2. QED
  BY <1>1, Invariance, PTL

\* daemon_process_framed_data_slots: the parser of a slot holds bytes of its
\* connection, or of one the daemon closed itself.
THEOREM BytesLeaveWithClient == Spec => []OnlyEvictedLeaveBytes
<1>1. Inv => OnlyEvictedLeaveBytes
  BY DEF Inv, ParserInv, OnlyEvictedLeaveBytes
<1>2. QED
  BY <1>1, Invariance, PTL

\* client_slot_next_generation: a slot moves on by at most two generations per
\* connection accepted, even when it is closed in the middle of a read, so
\* within GenModulus / 2 connections no generation comes up twice.
THEOREM GenerationsCount == Spec => []GenerationInv
<1>1. Inv => GenerationInv
  BY DEF Inv
<1>2. QED
  BY <1>1, Invariance, PTL

-----------------------------------------------------------------------------
(* The stream parser (FramedParser), for any base of a byte and any stream. *)

\* What a frame may come to.
Messages == {"unknown frame type", "TX payload too large",
             "unsupported frame too large", "unsupported client frame"}
Event ==
    {Error(m) : m \in Messages}
    \union {Packet(p, result) : p \in Seq(Bytes), result \in {0, 1}}

\* f is where the frames of s begin up to the current one.
Chain(s, f) ==
    /\ s \in Seq(Bytes) /\ f \in Seq(Nat \ {0}) /\ Len(f) > 0 /\ f[1] = 1
    /\ f[Len(f)] <= Len(s) + 1
    /\ \A n \in 1..(Len(f) - 1) : IsComplete(s, f[n]) /\ f[n + 1] = FrameEnd(s, f[n]) + 1

\* The first m frames have been reported.
Reports(s, f, ev, m) ==
    /\ ev \in Seq(Event) /\ Len(ev) = m
    /\ \A n \in 1..m : ev[n] \in FrameEvents(s, f[n])

\* The parser's state in the header, in the payload and in the skipped payload of the
\* frame that begins at i.
InHeader(s, i, st) ==
    /\ i + 2 > Len(s)
    /\ st = [header |-> SubSeq(s, i, Len(s)), payload |-> <<>>, expected |-> 0,
             type |-> 0, skip |-> 0]
InPayload(s, i, st) ==
    /\ HasHeader(s, i) /\ Rejection(FrameAt(s, i)) = "none" /\ FrameEnd(s, i) > Len(s)
    /\ st = [header |-> FrameAt(s, i), payload |-> SubSeq(s, i + 3, Len(s)),
             expected |-> PayloadLen(FrameAt(s, i)), type |-> FrameAt(s, i)[1], skip |-> 0]
InSkip(s, i, st) ==
    /\ IsRejected(s, i) /\ FrameEnd(s, i) > Len(s)
    /\ st = FreshState(FrameEnd(s, i) - Len(s))

Tracks(s, f, ev, st) ==
    LET last == Len(f) IN
    /\ Chain(s, f)
    /\ \/ (InHeader(s, f[last], st) \/ InPayload(s, f[last], st)) /\ Reports(s, f, ev, last - 1)
       \/ InSkip(s, f[last], st) /\ Reports(s, f, ev, last)

FrameInv ==
    /\ ~open => stream = <<>> /\ events = <<>> /\ frames = <<1>>
    /\ open /\ clean => Tracks(stream, frames, events, parser)

\* A part of a stream: its length and its bytes.
LEMMA Part ==
    ASSUME NEW W, NEW s \in Seq(W), NEW i \in Nat \ {0}, NEW j \in 0 .. Len(s), i <= j + 1
    PROVE  /\ SubSeq(s, i, j) \in Seq(W) /\ Len(SubSeq(s, i, j)) = j - i + 1
           /\ \A k \in 1 .. (j - i + 1) : SubSeq(s, i, j)[k] = s[i + k - 1]
<1>1. \A k \in i .. j : s[k] \in W
  OBVIOUS
<1>2. i \in Int /\ j \in Int
  OBVIOUS
<1> QED
  BY <1>1, <1>2, SubSeqProperties

\* A byte more leaves the parts before it.
LEMMA PartKept ==
    ASSUME NEW W, NEW s \in Seq(W), NEW b \in W, NEW i \in Nat \ {0}, NEW j \in 0 .. Len(s), i <= j + 1
    PROVE  SubSeq(Append(s, b), i, j) = SubSeq(s, i, j)
<1> DEFINE t == Append(s, b)
<1>1. t \in Seq(W) /\ Len(t) = Len(s) + 1 /\ \A k \in 1 .. Len(s) : t[k] = s[k]
  OBVIOUS
<1> HIDE DEF t
<1>2. /\ SubSeq(t, i, j) \in Seq(W) /\ Len(SubSeq(t, i, j)) = j - i + 1
      /\ \A k \in 1 .. (j - i + 1) : SubSeq(t, i, j)[k] = t[i + k - 1]
  <2>1. j \in 0 .. Len(t)
    BY <1>1
  <2> QED
    BY <1>1, <2>1, Part
<1>3. /\ SubSeq(s, i, j) \in Seq(W) /\ Len(SubSeq(s, i, j)) = j - i + 1
      /\ \A k \in 1 .. (j - i + 1) : SubSeq(s, i, j)[k] = s[i + k - 1]
  BY Part
<1>4. \A k \in 1 .. (j - i + 1) : t[i + k - 1] = s[i + k - 1]
  <2> SUFFICES ASSUME NEW k \in 1 .. (j - i + 1) PROVE i + k - 1 \in 1 .. Len(s)
    BY <1>1
  <2> QED
    OBVIOUS
<1>5. SubSeq(t, i, j) = SubSeq(s, i, j)
  BY <1>2, <1>3, <1>4, SeqEqual
<1> QED
  BY <1>5 DEF t

\* It ends the part that goes up to it.
LEMMA PartGrows ==
    ASSUME NEW W, NEW s \in Seq(W), NEW b \in W, NEW i \in Nat \ {0}, i <= Len(s) + 1
    PROVE  Append(SubSeq(s, i, Len(s)), b) = SubSeq(Append(s, b), i, Len(s) + 1)
<1> DEFINE t == Append(s, b)
           n == Len(s)
           u == SubSeq(s, i, n)
           v == SubSeq(t, i, n + 1)
<1>1. n \in Nat /\ t \in Seq(W) /\ Len(t) = n + 1 /\ t[n + 1] = b /\ \A k \in 1 .. n : t[k] = s[k]
  OBVIOUS
<1>2. /\ u \in Seq(W) /\ Len(u) = n - i + 1 /\ \A k \in 1 .. (n - i + 1) : u[k] = s[i + k - 1]
  BY Part
<1> HIDE DEF t, n
<1>3. /\ v \in Seq(W) /\ Len(v) = n + 1 - i + 1 /\ \A k \in 1 .. (n + 1 - i + 1) : v[k] = t[i + k - 1]
  <2>1. n + 1 \in 0 .. Len(t) /\ i <= n + 1 + 1
    BY <1>1 DEF n
  <2> QED
    BY <1>1, <2>1, Part
<1> HIDE DEF u, v
<1>4. /\ Append(u, b) \in Seq(W) /\ Len(Append(u, b)) = Len(u) + 1 /\ Append(u, b)[Len(u) + 1] = b
      /\ \A k \in 1 .. Len(u) : Append(u, b)[k] = u[k]
  BY <1>2
<1>5. ASSUME NEW k \in 1 .. (n - i + 2) PROVE Append(u, b)[k] = v[k]
  <2>0. i <= n + 1
    BY DEF n
  <2>1. CASE k \in 1 .. (n - i + 1)
    <3>1. i + k - 1 \in 1 .. n
      BY <1>1, <2>0, <2>1
    <3>2. v[k] = t[i + k - 1]
      BY <1>1, <1>3
    <3> QED
      BY <1>1, <1>2, <1>4, <2>1, <3>1, <3>2
  <2>2. CASE k = n - i + 2
    <3>1. i + k - 1 = n + 1
      BY <1>1, <2>2
    <3>2. v[k] = t[i + k - 1]
      BY <1>1, <1>3
    <3> QED
      BY <1>1, <1>2, <1>4, <2>2, <3>1, <3>2
  <2>3. k \in 1 .. (n - i + 1) \/ k = n - i + 2
    BY <1>1, <2>0
  <2> QED
    BY <2>1, <2>2, <2>3
<1>6. Len(Append(u, b)) = n - i + 2 /\ Len(v) = n - i + 2
  BY <1>1, <1>2, <1>3, <1>4
<1>7. Append(u, b) = v
  BY <1>3, <1>4, <1>5, <1>6, SeqEqual
<1> QED
  BY <1>7 DEF u, v, t, n

\* A header is three bytes, and its length a number.
LEMMA Header ==
    ASSUME NEW s \in Seq(Bytes), NEW i \in Nat \ {0}, HasHeader(s, i)
    PROVE  /\ FrameAt(s, i) \in Seq(Bytes) /\ Len(FrameAt(s, i)) = 3
           /\ PayloadLen(FrameAt(s, i)) \in Nat
           /\ FrameEnd(s, i) = i + 2 + PayloadLen(FrameAt(s, i))
<1> DEFINE h == FrameAt(s, i)
<1>1. i + 2 <= Len(s) /\ h = SubSeq(s, i, i + 2)
  BY DEF HasHeader, FrameAt, HeaderLen
<1>2. h \in Seq(Bytes) /\ Len(h) = 3
  BY <1>1, Part
<1>3. FrameEnd(s, i) = i + 2 + PayloadLen(h)
  BY DEF FrameEnd, HeaderLen
<1> HIDE DEF h
<1>4. h[2] \in Nat /\ h[3] \in Nat
  <2>1. \A n \in 1 .. 3 : h[n] \in Bytes
    BY <1>2, ElementOfSeq
  <2> QED
    BY <2>1, BaseAssumption DEF Bytes
<1>5. Base * h[3] \in Nat
  BY <1>4, BaseAssumption
<1>6. PayloadLen(h) \in Nat
  BY <1>4, <1>5 DEF PayloadLen
<1> QED
  BY <1>2, <1>3, <1>6 DEF h

\* A byte more leaves the frames whose header was there.
LEMMA FrameKept ==
    ASSUME NEW s \in Seq(Bytes), NEW b \in Bytes, NEW i \in Nat \ {0}, HasHeader(s, i)
    PROVE  /\ HasHeader(Append(s, b), i) /\ FrameAt(Append(s, b), i) = FrameAt(s, i)
           /\ FrameEnd(Append(s, b), i) = FrameEnd(s, i)
           /\ IsComplete(s, i) => IsComplete(Append(s, b), i)
           /\ IsComplete(s, i) \/ IsRejected(s, i) => FrameEvents(Append(s, b), i) = FrameEvents(s, i)
<1> DEFINE t == Append(s, b)
           h == FrameAt(s, i)
<1>1. i + 2 <= Len(s) /\ Len(t) = Len(s) + 1 /\ Len(s) \in Nat
  BY DEF HasHeader, HeaderLen
<1>2. HasHeader(t, i)
  BY <1>1 DEF HasHeader, HeaderLen
<1>3. FrameAt(t, i) = h
  BY <1>1, PartKept DEF FrameAt, HeaderLen
<1>4. FrameEnd(t, i) = FrameEnd(s, i)
  BY <1>3 DEF FrameEnd
<1>5. FrameEnd(s, i) \in Nat /\ FrameEnd(s, i) >= i + 2
  BY Header
<1>6. IsComplete(s, i) => IsComplete(t, i)
  BY <1>1, <1>2, <1>4, <1>5 DEF IsComplete
<1> HIDE DEF t
<1>7. ASSUME IsRejected(s, i) PROVE FrameEvents(t, i) = FrameEvents(s, i)
  <2>1. FrameEvents(s, i) = {Error(Rejection(FrameAt(s, i)))}
    BY <1>7 DEF IsRejected, FrameEvents
  <2>2. FrameEvents(t, i) = {Error(Rejection(FrameAt(t, i)))}
    BY <1>3, <1>7 DEF IsRejected, FrameEvents
  <2> QED
    BY <1>3, <2>1, <2>2
<1>8. ASSUME IsComplete(s, i) PROVE FrameEvents(t, i) = FrameEvents(s, i)
  <2>1. SubSeq(t, i + 3, FrameEnd(s, i)) = SubSeq(s, i + 3, FrameEnd(s, i))
    <3>1. FrameEnd(s, i) \in 0 .. Len(s) /\ i + 3 \in Nat \ {0} /\ i + 3 <= FrameEnd(s, i) + 1
      BY <1>1, <1>5, <1>8 DEF IsComplete
    <3> QED
      BY <3>1, PartKept DEF t
  <2>2. CASE Rejection(h) # "none"
    BY <1>2, <1>3, <1>7, <2>2 DEF IsRejected, IsComplete
  <2>3. CASE Rejection(h) = "none"
    <3> DEFINE Of(p) == {Completed(h[1], p, result) : result \in {0, 1}}
    <3>1. FrameEvents(s, i) = Of(SubSeq(s, i + 3, FrameEnd(s, i)))
      BY <2>3 DEF FrameEvents, HeaderLen
    <3>2. FrameEvents(t, i) = Of(SubSeq(t, i + 3, FrameEnd(s, i)))
      BY <1>3, <1>4, <2>3 DEF FrameEvents, HeaderLen
    <3> HIDE DEF Of
    <3> QED
      BY <2>1, <3>1, <3>2
  <2> QED
    BY <2>2, <2>3
<1> QED
  BY <1>2, <1>3, <1>4, <1>6, <1>7, <1>8 DEF t

\* So the frames stay.
LEMMA ChainKept ==
    ASSUME NEW s, NEW f, Chain(s, f), NEW b \in Bytes
    PROVE  Chain(Append(s, b), f)
<1> DEFINE t == Append(s, b)
<1>1. /\ s \in Seq(Bytes) /\ f \in Seq(Nat \ {0}) /\ Len(f) > 0 /\ f[1] = 1
      /\ f[Len(f)] <= Len(s) + 1
  BY DEF Chain
<1>2. t \in Seq(Bytes) /\ Len(t) = Len(s) + 1 /\ Len(s) \in Nat /\ f[Len(f)] \in Nat
  BY <1>1
<1>3. ASSUME NEW n \in 1..(Len(f) - 1)
      PROVE  IsComplete(t, f[n]) /\ f[n + 1] = FrameEnd(t, f[n]) + 1
  <2>1. f[n] \in Nat \ {0}
    BY <1>1
  <2>2. IsComplete(s, f[n]) /\ HasHeader(s, f[n]) /\ f[n + 1] = FrameEnd(s, f[n]) + 1
    BY DEF Chain, IsComplete
  <2> QED
    BY <1>1, <2>1, <2>2, FrameKept
<1> HIDE DEF t
<1>4. f[Len(f)] <= Len(t) + 1
  BY <1>1, <1>2
<1> QED
  BY <1>1, <1>2, <1>3, <1>4 DEF Chain, t

\* So do the reports of complete and of rejected frames.
LEMMA ReportsKept ==
    ASSUME NEW s, NEW f, NEW ev, NEW m, Chain(s, f), Reports(s, f, ev, m), NEW b \in Bytes,
           \/ m = Len(f) - 1
           \/ m = Len(f) /\ IsRejected(s, f[Len(f)])
    PROVE  Reports(Append(s, b), f, ev, m)
<1>1. s \in Seq(Bytes) /\ f \in Seq(Nat \ {0}) /\ Len(f) > 0 /\ Len(f) \in Nat
  BY DEF Chain
<1>2. ASSUME NEW n \in 1 .. m PROVE FrameEvents(Append(s, b), f[n]) = FrameEvents(s, f[n])
  <2>1. n \in 1 .. Len(f) /\ f[n] \in Nat \ {0}
    BY <1>1
  <2>2. IsComplete(s, f[n]) \/ IsRejected(s, f[n])
    BY <1>1 DEF Chain
  <2>3. HasHeader(s, f[n])
    BY <2>2 DEF IsComplete, IsRejected
  <2> QED
    BY <1>1, <2>1, <2>2, <2>3, FrameKept
<1> QED
  BY <1>2 DEF Reports

\* One report more.
LEMMA ReportsNext ==
    ASSUME NEW s, NEW f, NEW ev, Len(f) \in Nat \ {0}, Reports(s, f, ev, Len(f) - 1),
           NEW e \in Event, e \in FrameEvents(s, f[Len(f)])
    PROVE  Reports(s, f, ev \o <<e>>, Len(f))
<1> DEFINE m == Len(f)
           g == ev \o <<e>>
<1>1. ev \in Seq(Event) /\ Len(ev) = m - 1 /\ \A n \in 1 .. (m - 1) : ev[n] \in FrameEvents(s, f[n])
  BY DEF Reports
<1>2. g \in Seq(Event) /\ Len(g) = m /\ g[m] = e /\ \A n \in 1 .. (m - 1) : g[n] = ev[n]
  <2>1. <<e>> \in Seq(Event) /\ Len(<<e>>) = 1 /\ <<e>>[1] = e
    OBVIOUS
  <2>2. /\ g \in Seq(Event) /\ Len(g) = Len(ev) + 1
        /\ \A n \in 1 .. Len(ev) + 1 : g[n] = IF n <= Len(ev) THEN ev[n] ELSE <<e>>[n - Len(ev)]
    BY <1>1, <2>1, ConcatProperties
  <2> HIDE DEF g
  <2> QED
    BY <1>1, <2>1, <2>2
<1> HIDE DEF m, g
<1>3. ASSUME NEW n \in 1 .. m PROVE g[n] \in FrameEvents(s, f[n])
  <2>1. CASE n = m
    BY <1>2, <2>1 DEF m
  <2>2. CASE n \in 1 .. (m - 1)
    BY <1>1, <1>2, <2>2
  <2>3. m \in Nat \ {0}
    BY DEF m
  <2> QED
    BY <2>1, <2>2, <2>3
<1> QED
  BY <1>2, <1>3 DEF Reports, m, g

\* The frame that began last is complete: the parser is in the header of the next.
LEMMA NextFrame ==
    ASSUME NEW s, NEW f, NEW ev, Chain(s, f), Reports(s, f, ev, Len(f)),
           IsComplete(s, f[Len(f)]), FrameEnd(s, f[Len(f)]) = Len(s)
    PROVE  Tracks(s, Append(f, Len(s) + 1), ev, FreshState(0))
<1> DEFINE m == Len(f)
           g == Append(f, Len(s) + 1)
<1>1. /\ s \in Seq(Bytes) /\ f \in Seq(Nat \ {0}) /\ m \in Nat \ {0} /\ f[1] = 1
      /\ Len(s) \in Nat
      /\ \A n \in 1..(m - 1) : IsComplete(s, f[n]) /\ f[n + 1] = FrameEnd(s, f[n]) + 1
  BY DEF Chain
<1>2. /\ g \in Seq(Nat \ {0}) /\ Len(g) = m + 1 /\ g[m + 1] = Len(s) + 1
      /\ \A n \in 1 .. m : g[n] = f[n]
  BY <1>1
<1> HIDE DEF g, m
<1>3. ASSUME NEW n \in 1..(Len(g) - 1)
      PROVE  IsComplete(s, g[n]) /\ g[n + 1] = FrameEnd(s, g[n]) + 1
  <2>1. n \in 1 .. m
    BY <1>1, <1>2
  <2>2. CASE n = m
    BY <1>1, <1>2, <2>1, <2>2 DEF m
  <2>3. CASE n # m
    <3>1. n \in 1 .. (m - 1) /\ n + 1 \in 1 .. m
      BY <1>1, <2>1, <2>3
    <3> QED
      BY <1>1, <1>2, <2>1, <3>1
  <2> QED
    BY <2>2, <2>3
<1>4. Chain(s, g)
  <2>1. 1 \in 1 .. m /\ Len(g) > 0 /\ g[Len(g)] <= Len(s) + 1
    BY <1>1, <1>2
  <2> QED
    BY <1>1, <1>2, <1>3, <2>1 DEF Chain
<1>5. SubSeq(s, Len(s) + 1, Len(s)) = <<>>
  BY <1>1, SubSeqEmpty
<1>6. InHeader(s, g[Len(g)], FreshState(0))
  BY <1>1, <1>2, <1>5 DEF InHeader, FreshState
<1>7. Reports(s, g, ev, Len(g) - 1)
  <2>1. Reports(s, f, ev, m)
    BY DEF m
  <2>2. Len(g) - 1 = m
    BY <1>1, <1>2
  <2> QED
    BY <1>2, <2>1, <2>2 DEF Reports
<1>8. Tracks(s, g, ev, FreshState(0))
  BY <1>4, <1>6, <1>7 DEF Tracks
<1> QED
  BY <1>8 DEF g

\* What the parser reports is an event.
LEMMA EventTypes ==
    /\ \A h : Rejection(h) # "none" => Error(Rejection(h)) \in Event
    /\ \A type : \A p \in Seq(Bytes), result \in {0, 1} : Completed(type, p, result) \in Event
<1>1. ASSUME NEW h, Rejection(h) # "none" PROVE Error(Rejection(h)) \in Event
  <2>1. Rejection(h) \in Messages
    BY <1>1 DEF Rejection, Messages
  <2> QED
    BY <2>1 DEF Event
<1>2. ASSUME NEW type, NEW p \in Seq(Bytes), NEW result \in {0, 1} PROVE Completed(type, p, result) \in Event
  <2>1. CASE type = TxPacket
    <3>1. Completed(type, p, result) = Packet(p, result)
      BY <2>1 DEF Completed
    <3> QED
      BY <3>1 DEF Event
  <2>2. CASE type # TxPacket
    BY <2>2 DEF Completed, Event, Messages
  <2> QED
    BY <2>1, <2>2
<1> QED
  BY <1>1, <1>2

\* The state after a byte, with the history of frames and reports.
Follows(s, f, ev, b, r) ==
    LET t == Append(s, b)
    IN  Tracks(t, IF r.st = FreshState(0) THEN Append(f, Len(t) + 1) ELSE f, ev \o r.report, r.st)

\* The byte completes the frame.
LEMMA Completes ==
    ASSUME NEW s, NEW f, NEW ev, NEW b, NEW r, Chain(Append(s, b), f),
           Reports(Append(s, b), f, ev \o r.report, Len(f)), r.st = FreshState(0),
           IsComplete(Append(s, b), f[Len(f)]), FrameEnd(Append(s, b), f[Len(f)]) = Len(Append(s, b))
    PROVE  Follows(s, f, ev, b, r)
<1> DEFINE t == Append(s, b)
           g == ev \o r.report
<1>1. Chain(t, f) /\ Reports(t, f, g, Len(f)) /\ IsComplete(t, f[Len(f)]) /\ FrameEnd(t, f[Len(f)]) = Len(t)
  OBVIOUS
<1> HIDE DEF t, g
<1>2. Tracks(t, Append(f, Len(t) + 1), g, FreshState(0))
  BY <1>1, NextFrame
<1> QED
  BY <1>2 DEF Follows, t, g

\* The byte is one the parser skips.
LEMMA FedSkip ==
    ASSUME NEW s, NEW f, NEW ev, NEW st, Chain(s, f), InSkip(s, f[Len(f)], st),
           Reports(s, f, ev, Len(f)), NEW b \in Bytes, NEW result
    PROVE  Follows(s, f, ev, b, Step(st, b, result))
<1> DEFINE t == Append(s, b)
           i == f[Len(f)]
           r == Step(st, b, result)
           skip == FrameEnd(s, i) - Len(s)
<1>1. s \in Seq(Bytes) /\ i \in Nat \ {0} /\ Len(s) \in Nat /\ Len(t) = Len(s) + 1
  BY DEF Chain
<1>2. HasHeader(s, i) /\ IsRejected(s, i) /\ FrameEnd(s, i) > Len(s) /\ st = FreshState(skip)
  BY DEF InSkip, IsRejected
<1>3. FrameEnd(s, i) \in Nat
  BY <1>1, <1>2, Header
<1>4. /\ HasHeader(t, i) /\ FrameAt(t, i) = FrameAt(s, i) /\ FrameEnd(t, i) = FrameEnd(s, i)
  BY <1>1, <1>2, FrameKept
<1>5. IsRejected(t, i)
  BY <1>2, <1>4 DEF IsRejected
<1>6. Chain(t, f) /\ Reports(t, f, ev, Len(f))
  BY <1>2, ChainKept, ReportsKept
<1> HIDE DEF skip
<1>7. st.skip = skip /\ skip > 0
  BY <1>1, <1>2, <1>3 DEF FreshState, skip
<1>8. r = [report |-> <<>>, st |-> [st EXCEPT !.skip = @ - 1]]
  BY <1>7 DEF Step, StepSkip
<1>9. r.report = <<>> /\ r.st = FreshState(skip - 1)
  BY <1>2, <1>8 DEF FreshState
<1> HIDE DEF r, i, t
<1>10. skip - 1 = FrameEnd(t, i) - Len(t) /\ skip \in Nat
  BY <1>1, <1>3, <1>4, <1>7 DEF skip
<1>11. ev \o r.report = ev
  BY <1>9, ConcatEmptySeq DEF Reports
<1>12. CASE skip = 1
  <2>1. FrameEnd(t, i) = Len(t) /\ r.st = FreshState(0)
    BY <1>1, <1>3, <1>4, <1>9, <1>10, <1>12
  <2>2. IsComplete(t, i)
    BY <1>1, <1>4, <2>1 DEF IsComplete
  <2>3. Reports(t, f, ev \o r.report, Len(f))
    BY <1>6, <1>11
  <2> QED
    BY <1>6, <2>1, <2>2, <2>3, Completes DEF t, i, r
<1>13. CASE skip # 1
  <2>1. FrameEnd(t, i) > Len(t)
    BY <1>1, <1>3, <1>4, <1>7, <1>10, <1>13
  <2>2. r.st # FreshState(0)
    <3>1. r.st.skip = skip - 1 /\ FreshState(0).skip = 0
      BY <1>9 DEF FreshState
    <3> QED
      BY <1>10, <1>13, <3>1
  <2>3. InSkip(t, i, r.st)
    BY <1>5, <1>9, <1>10, <2>1 DEF InSkip
  <2>4. Tracks(t, f, ev, r.st)
    BY <1>6, <2>3 DEF Tracks, i
  <2> QED
    BY <1>11, <2>2, <2>4 DEF Follows, t, r
<1> QED
  BY <1>12, <1>13

\* The byte is one of a payload.
LEMMA FedPayload ==
    ASSUME NEW s, NEW f, NEW ev, NEW st, Chain(s, f), InPayload(s, f[Len(f)], st),
           Reports(s, f, ev, Len(f) - 1), NEW b \in Bytes, NEW result \in {0, 1}
    PROVE  Follows(s, f, ev, b, Step(st, b, result))
<1> DEFINE t == Append(s, b)
           i == f[Len(f)]
           r == Step(st, b, result)
           h == FrameAt(s, i)
           p == Append(st.payload, b)
<1>1. /\ s \in Seq(Bytes) /\ i \in Nat \ {0} /\ Len(s) \in Nat /\ Len(t) = Len(s) + 1
      /\ t \in Seq(Bytes) /\ Len(f) \in Nat \ {0}
  BY DEF Chain
<1>2. HasHeader(s, i) /\ Rejection(h) = "none" /\ FrameEnd(s, i) > Len(s)
  BY DEF InPayload
<1>3. /\ st = [header |-> h, payload |-> SubSeq(s, i + 3, Len(s)), expected |-> PayloadLen(h),
               type |-> h[1], skip |-> 0]
  BY DEF InPayload
<1>4. /\ HasHeader(t, i) /\ FrameAt(t, i) = h /\ FrameEnd(t, i) = FrameEnd(s, i)
  BY <1>1, <1>2, FrameKept
<1>5. Len(h) = 3 /\ PayloadLen(h) \in Nat /\ FrameEnd(s, i) = i + 2 + PayloadLen(h)
  BY <1>1, <1>2, Header
<1>6. Chain(t, f) /\ Reports(t, f, ev, Len(f) - 1)
  BY ChainKept, ReportsKept
<1>7. i + 2 <= Len(s)
  BY <1>1, <1>2 DEF HasHeader, HeaderLen
<1>8. p = SubSeq(t, i + 3, Len(t))
  <2>1. i + 3 \in Nat \ {0} /\ i + 3 <= Len(s) + 1
    BY <1>1, <1>7
  <2>2. st.payload = SubSeq(s, i + 3, Len(s))
    BY <1>3
  <2> QED
    BY <1>1, <2>1, <2>2, PartGrows
<1> HIDE DEF h, t
<1>9. p \in Seq(Bytes) /\ Len(p) = Len(t) - (i + 3) + 1
  <2>1. i + 3 \in Nat \ {0} /\ Len(t) \in 0 .. Len(t) /\ i + 3 <= Len(t) + 1
    BY <1>1, <1>7
  <2> QED
    BY <1>1, <1>8, <2>1, Part
<1> HIDE DEF p, i
<1>10. st.skip = 0 /\ st.header = h /\ st.expected = PayloadLen(h) /\ st.type = h[1]
  BY <1>3
<1>11. r = StepPayload(st, b, result)
  <2>1. st.skip = 0 /\ Len(st.header) = 3
    BY <1>5, <1>10
  <2> QED
    BY <2>1 DEF Step, HeaderLen
<1>12. r = IF Len(p) = PayloadLen(h)
           THEN [report |-> <<Completed(h[1], p, result)>>, st |-> FreshState(0)]
           ELSE [report |-> <<>>, st |-> [st EXCEPT !.payload = p]]
  BY <1>10, <1>11 DEF StepPayload, p
<1> HIDE DEF r
<1>13. CASE Len(p) = PayloadLen(h)
  <2> DEFINE e == Completed(h[1], p, result)
  <2>1. r.report = <<e>> /\ r.st = FreshState(0)
    BY <1>12, <1>13
  <2>2. FrameEnd(t, i) = Len(t)
    <3>1. Len(p) = Len(t) - i - 2 /\ Len(t) \in Nat
      BY <1>1, <1>9
    <3> QED
      BY <1>1, <1>4, <1>5, <1>13, <3>1
  <2>3. e \in FrameEvents(t, i)
    BY <1>2, <1>4, <1>8, <2>2 DEF FrameEvents, HeaderLen
  <2>4. e \in Event
    BY <1>9, EventTypes
  <2> HIDE DEF e
  <2>5. Reports(t, f, ev \o <<e>>, Len(f))
    BY <1>1, <1>6, <2>3, <2>4, ReportsNext DEF i
  <2>6. IsComplete(t, i)
    BY <1>1, <1>4, <2>2 DEF IsComplete
  <2> QED
    BY <1>6, <2>1, <2>2, <2>5, <2>6, Completes DEF t, i, r
<1>14. CASE Len(p) # PayloadLen(h)
  <2>1. r.report = <<>> /\ r.st = [st EXCEPT !.payload = p]
    BY <1>12, <1>14
  <2>2. r.st = [header |-> h, payload |-> p, expected |-> PayloadLen(h), type |-> h[1], skip |-> 0]
    BY <1>3, <2>1
  <2>3. r.st # FreshState(0)
    <3>1. r.st.header = h /\ FreshState(0).header = <<>>
      BY <2>2 DEF FreshState
    <3>2. h # <<>>
      BY <1>5
    <3> QED
      BY <3>1, <3>2
  <2>4. FrameEnd(t, i) > Len(t)
    BY <1>1, <1>2, <1>4, <1>5, <1>9, <1>14
  <2>5. InPayload(t, i, r.st)
    BY <1>2, <1>4, <1>8, <2>2, <2>4 DEF InPayload
  <2>6. Tracks(t, f, ev, r.st)
    BY <1>6, <2>5 DEF Tracks, i
  <2>7. ev \o r.report = ev
    BY <1>6, <2>1, ConcatEmptySeq DEF Reports
  <2> QED
    BY <2>3, <2>6, <2>7 DEF Follows, t, r
<1> QED
  BY <1>13, <1>14

\* The byte is one of a header: it may be the last, and reject the frame, complete it or
\* begin its payload.
LEMMA FedHeader ==
    ASSUME NEW s, NEW f, NEW ev, NEW st, Chain(s, f), InHeader(s, f[Len(f)], st),
           Reports(s, f, ev, Len(f) - 1), NEW b \in Bytes, NEW result \in {0, 1}
    PROVE  Follows(s, f, ev, b, Step(st, b, result))
<1> DEFINE t == Append(s, b)
           i == f[Len(f)]
           r == Step(st, b, result)
           h == Append(st.header, b)
<1>1. /\ s \in Seq(Bytes) /\ i \in Nat \ {0} /\ Len(s) \in Nat /\ Len(t) = Len(s) + 1
      /\ t \in Seq(Bytes) /\ Len(f) \in Nat \ {0} /\ i <= Len(s) + 1
  BY DEF Chain
<1>2. /\ i + 2 > Len(s)
      /\ st = [header |-> SubSeq(s, i, Len(s)), payload |-> <<>>, expected |-> 0,
               type |-> 0, skip |-> 0]
  BY DEF InHeader
<1>3. Len(st.header) = Len(s) - i + 1
  BY <1>1, <1>2, Part
<1>4. h = SubSeq(t, i, Len(t))
  <2>1. st.header = SubSeq(s, i, Len(s))
    BY <1>2
  <2> QED
    BY <1>1, <2>1, PartGrows
<1>5. Chain(t, f) /\ Reports(t, f, ev, Len(f) - 1)
  BY ChainKept, ReportsKept
<1> HIDE DEF t
<1>6. h \in Seq(Bytes) /\ Len(h) = Len(t) - i + 1
  <2>1. Len(t) \in 0 .. Len(t) /\ i <= Len(t) + 1
    BY <1>1
  <2> QED
    BY <1>1, <1>4, <2>1, Part
<1>7. r = StepHeader(st, b, result)
  <2>1. st.skip = 0 /\ Len(st.header) < 3
    BY <1>1, <1>2, <1>3
  <2> QED
    BY <2>1 DEF Step, HeaderLen
<1>8. r = IF Len(h) < 3 THEN [report |-> <<>>, st |-> [st EXCEPT !.header = h]]
          ELSE IF Rejection(h) # "none"
          THEN [report |-> <<Error(Rejection(h))>>, st |-> FreshState(PayloadLen(h))]
          ELSE IF PayloadLen(h) = 0
          THEN [report |-> <<Completed(h[1], <<>>, result)>>, st |-> FreshState(0)]
          ELSE [report |-> <<>>,
                st |-> [st EXCEPT !.header = h, !.type = h[1], !.expected = PayloadLen(h)]]
  BY <1>7 DEF StepHeader, HeaderLen
<1> HIDE DEF r, h, i
<1>e. ev \o <<>> = ev
  BY <1>5, ConcatEmptySeq DEF Reports
<1>9. CASE Len(h) < 3
  <2>1. r.report = <<>> /\ r.st = [st EXCEPT !.header = h]
    BY <1>8, <1>9
  <2>2. r.st = [header |-> h, payload |-> <<>>, expected |-> 0, type |-> 0, skip |-> 0]
    BY <1>2, <2>1
  <2>3. InHeader(t, i, r.st)
    BY <1>1, <1>4, <1>6, <1>9, <2>2 DEF InHeader
  <2>4. r.st # FreshState(0)
    <3>1. r.st.header = h /\ FreshState(0).header = <<>> /\ Len(h) # 0
      BY <1>1, <1>6, <2>2 DEF FreshState
    <3> QED
      BY <3>1
  <2>5. Tracks(t, f, ev, r.st)
    BY <1>5, <2>3 DEF Tracks, i
  <2> QED
    BY <1>e, <2>1, <2>4, <2>5 DEF Follows, t, r
<1>10. CASE Len(h) >= 3
  <2>1. Len(t) = i + 2 /\ Len(h) = 3
    BY <1>1, <1>2, <1>6, <1>10
  <2>2. HasHeader(t, i) /\ FrameAt(t, i) = h
    BY <1>4, <2>1 DEF HasHeader, FrameAt, HeaderLen
  <2>3. PayloadLen(h) \in Nat /\ FrameEnd(t, i) = Len(t) + PayloadLen(h)
    BY <1>1, <2>1, <2>2, Header
  <2>4. ASSUME NEW e \in Event, e \in FrameEvents(t, i), r.report = <<e>>
        PROVE  Reports(t, f, ev \o r.report, Len(f))
    BY <1>1, <1>5, <2>4, ReportsNext DEF i
  <2>5. CASE Rejection(h) # "none"
    <3>1. r.report = <<Error(Rejection(h))>> /\ r.st = FreshState(PayloadLen(h))
      BY <1>8, <2>1, <2>5
    <3>2. IsRejected(t, i) /\ FrameEvents(t, i) = {Error(Rejection(h))}
      BY <2>2, <2>5 DEF IsRejected, FrameEvents
    <3>3. Reports(t, f, ev \o r.report, Len(f))
      BY <2>4, <2>5, <3>1, <3>2, EventTypes
    <3>4. CASE PayloadLen(h) = 0
      <4>1. FrameEnd(t, i) = Len(t) /\ r.st = FreshState(0)
        BY <1>1, <2>3, <3>1, <3>4
      <4>2. IsComplete(t, i)
        BY <1>1, <2>2, <4>1 DEF IsComplete
      <4> QED
        BY <1>5, <3>3, <4>1, <4>2, Completes DEF t, i, r
    <3>5. CASE PayloadLen(h) # 0
      <4>1. FrameEnd(t, i) > Len(t) /\ FrameEnd(t, i) - Len(t) = PayloadLen(h)
        BY <1>1, <2>3, <3>5
      <4>2. InSkip(t, i, r.st)
        BY <3>1, <3>2, <4>1 DEF InSkip
      <4>3. r.st # FreshState(0)
        <5>1. r.st.skip = PayloadLen(h) /\ FreshState(0).skip = 0
          BY <3>1 DEF FreshState
        <5> QED
          BY <3>5, <5>1
      <4>4. Tracks(t, f, ev \o r.report, r.st)
        BY <1>5, <3>3, <4>2 DEF Tracks, i
      <4> QED
        BY <4>3, <4>4 DEF Follows, t, r
    <3> QED
      BY <3>4, <3>5
  <2>6. CASE Rejection(h) = "none" /\ PayloadLen(h) = 0
    <3> DEFINE e == Completed(h[1], <<>>, result)
    <3>1. r.report = <<e>> /\ r.st = FreshState(0)
      BY <1>8, <2>1, <2>6
    <3>2. FrameEnd(t, i) = Len(t)
      BY <1>1, <2>3, <2>6
    <3>3. SubSeq(t, i + 3, Len(t)) = <<>>
      BY <1>1, <2>1, SubSeqEmpty
    <3>4. e \in FrameEvents(t, i)
      BY <2>2, <2>6, <3>2, <3>3 DEF FrameEvents, HeaderLen
    <3>5. e \in Event
      <4>1. <<>> \in Seq(Bytes)
        OBVIOUS
      <4> QED
        BY <4>1, EventTypes
    <3> HIDE DEF e
    <3>6. Reports(t, f, ev \o r.report, Len(f))
      BY <2>4, <3>1, <3>4, <3>5
    <3>7. IsComplete(t, i)
      BY <1>1, <2>2, <3>2 DEF IsComplete
    <3> QED
      BY <1>5, <3>1, <3>2, <3>6, <3>7, Completes DEF t, i, r
  <2>7. CASE Rejection(h) = "none" /\ PayloadLen(h) # 0
    <3>1. /\ r.report = <<>>
          /\ r.st = [st EXCEPT !.header = h, !.type = h[1], !.expected = PayloadLen(h)]
      BY <1>8, <2>1, <2>7
    <3>2. r.st = [header |-> h, payload |-> <<>>, expected |-> PayloadLen(h), type |-> h[1], skip |-> 0]
      BY <1>2, <3>1
    <3>3. SubSeq(t, i + 3, Len(t)) = <<>>
      BY <1>1, <2>1, SubSeqEmpty
    <3>4. FrameEnd(t, i) > Len(t)
      BY <1>1, <2>3, <2>7
    <3>5. InPayload(t, i, r.st)
      BY <2>2, <2>7, <3>2, <3>3, <3>4 DEF InPayload
    <3>6. r.st # FreshState(0)
      <4>1. r.st.header = h /\ FreshState(0).header = <<>>
        BY <3>2 DEF FreshState
      <4>2. h # <<>>
        BY <2>1
      <4> QED
        BY <4>1, <4>2
    <3>7. Tracks(t, f, ev, r.st)
      BY <1>5, <3>5 DEF Tracks, i
    <3> QED
      BY <1>e, <3>1, <3>6, <3>7 DEF Follows, t, r
  <2> QED
    BY <2>5, <2>6, <2>7
<1>11. Len(h) \in Nat
  BY <1>6
<1> QED
  BY <1>9, <1>10, <1>11

\* The parser at the first byte of a stream.
LEMMA FreshTracks == Tracks(<<>>, <<1>>, <<>>, FreshState(0))
<1>1. Chain(<<>>, <<1>>)
  BY DEF Chain
<1>2. SubSeq(<<>>, 1, 0) = <<>>
  BY SubSeqEmpty
<1>3. InHeader(<<>>, 1, FreshState(0))
  BY <1>2 DEF InHeader, FreshState
<1>4. Reports(<<>>, <<1>>, <<>>, 0)
  BY DEF Reports
<1> QED
  BY <1>1, <1>3, <1>4 DEF Tracks

\* The parser's state always is that of the current frame.
LEMMA FrameStep == FrameInv /\ [ParserNext]_parserVars => FrameInv'
<1> SUFFICES ASSUME FrameInv, [ParserNext]_parserVars PROVE FrameInv'
  OBVIOUS
<1>1. CASE Accepted
  BY <1>1, FreshTracks DEF Accepted, FrameInv
<1>2. CASE Ended \/ Evicted
  BY <1>2 DEF Ended, Evicted, Forget, FrameInv
<1>3. CASE EmptySlotPass
  BY <1>3 DEF EmptySlotPass, FrameInv
<1>4. ASSUME NEW b \in Bytes, NEW result \in {0, 1}, Byte(b, result) PROVE FrameInv'
  <2> DEFINE r == Step(parser, b, result)
  <2>1. /\ open /\ open' = open /\ clean' = clean /\ parser' = r.st /\ events' = events \o r.report
        /\ stream' = Append(stream, b)
        /\ frames' = IF r.st = FreshState(0) THEN Append(frames, Len(Append(stream, b)) + 1) ELSE frames
    BY <1>4 DEF Byte
  <2>2. clean => Follows(stream, frames, events, b, r)
    <3> SUFFICES ASSUME clean PROVE Follows(stream, frames, events, b, r)
      OBVIOUS
    <3>1. Tracks(stream, frames, events, parser)
      BY <2>1 DEF FrameInv
    <3> QED
      BY <3>1, FedHeader, FedPayload, FedSkip DEF Tracks
  <2> HIDE DEF r
  <2> QED
    BY <2>1, <2>2 DEF FrameInv, Follows
<1>5. CASE UNCHANGED parserVars
  BY <1>5 DEF parserVars, FrameInv
<1> QED
  BY <1>1, <1>2, <1>3, <1>4, <1>5 DEF ParserNext

\* ParserMatchesFrames, which the run checks, for any base of a byte (so for 256 and a
\* length of 16 bits) and streams of any length: however the bytes are cut into reads,
\* framed_data_tx_feed_state finds the frames of the stream, neither losing a byte to a
\* rejected frame nor taking one of its payload for a header, and reports each once.
THEOREM ParserFindsFrames == ParserSpec => []ParserMatchesFrames
<1>1. ParserInit => FrameInv
  BY DEF ParserInit, FrameInv
<1>2. FrameInv => ParserMatchesFrames
  <2> SUFFICES ASSUME FrameInv, open, clean
               PROVE  /\ Begins(stream, frames)
                      /\ Len(events) = IF IsRejected(stream, frames[Len(frames)])
                                       THEN Len(frames) ELSE Len(frames) - 1
                      /\ \A n \in 1..Len(events) : events[n] \in FrameEvents(stream, frames[n])
    BY DEF ParserMatchesFrames
  <2> DEFINE s == stream
             i == frames[Len(frames)]
  <2>1. Tracks(s, frames, events, parser)
    BY DEF FrameInv
  <2>2. Chain(s, frames)
    BY <2>1 DEF Tracks
  <2>3. s \in Seq(Bytes) /\ i \in Nat \ {0} /\ Len(s) \in Nat
    BY <2>2 DEF Chain
  <2>4. HasHeader(s, i) => FrameEnd(s, i) \in Nat
    BY <2>3, Header
  <2>5. CASE InHeader(s, i, parser) /\ Reports(s, frames, events, Len(frames) - 1)
    <3>1. ~HasHeader(s, i)
      BY <2>3, <2>5 DEF InHeader, HasHeader, HeaderLen
    <3> QED
      BY <2>2, <2>5, <3>1 DEF Chain, Begins, Reports, IsComplete, IsRejected
  <2>6. CASE InPayload(s, i, parser) /\ Reports(s, frames, events, Len(frames) - 1)
    <3>1. ~IsComplete(s, i) /\ ~IsRejected(s, i)
      BY <2>3, <2>4, <2>6 DEF InPayload, IsComplete, IsRejected
    <3> QED
      BY <2>2, <2>6, <3>1 DEF Chain, Begins, Reports
  <2>7. CASE InSkip(s, i, parser) /\ Reports(s, frames, events, Len(frames))
    <3>1. ~IsComplete(s, i) /\ IsRejected(s, i)
      BY <2>3, <2>4, <2>7 DEF InSkip, IsComplete, IsRejected
    <3> QED
      BY <2>2, <2>7, <3>1 DEF Chain, Begins, Reports
  <2> QED
    BY <2>1, <2>5, <2>6, <2>7 DEF Tracks
<1> QED
  BY <1>1, <1>2, FrameStep, PTL DEF ParserSpec
=============================================================================
