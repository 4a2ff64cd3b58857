---------------------------- MODULE PacketChannel ----------------------------
(***************************************************************************)
(* The channel between the transports' readers and the receive loop         *)
(* (transport/packet_channel.rs, packet_channel_io.rs): a priority and a    *)
(* bulk lane, each a queue of items of one or more packets, bounded by      *)
(* credits that a packet keeps until it is returned to the consumer.        *)
(*                                                                         *)
(* A datagram reader never waits: what finds no credit is dropped.  Stream  *)
(* readers wait for priority credit, one at a time, in the order in which   *)
(* they asked for their turn.  Readers and consumer run on several threads  *)
(* and meet in atomic counters, two queues and a notification; a step here  *)
(* is one such access.  Packets are numbered per lane as they are queued.   *)
(***************************************************************************)
EXTENDS Integers, Sequences, FiniteSets, SequencesExt

CONSTANTS
    Readers,    \* the stream readers
    Worlds      \* [capacity, shapes, sends, flood, streams, cancels, close, limit]:
                \* the credits of a lane, the batches a datagram reader may bring,
                \* how many it brings or that it never stops (its packets are then not
                \* numbered), how many packets each stream brings, how many waits end
                \* early, whether the consumer may go away, the most it drains in a call

Lanes == {"Priority", "Bulk"}

VARIABLES
    world,
    chan,       \* lane -> the queued items, sequences of packets
    reserved,   \* lane -> the credits taken
    hint,       \* priority_queued_packets
    pending,    \* lane -> the tail of the item last taken (pending_priority, _bulk)
    tx,         \* the datagram reader: [pc, todo, cap, count]
    stream,     \* stream reader -> [pc, notified, left]
    turn,       \* the stream readers that hold or wait for priority_stream_turn
    permit,     \* a notification of priority_space nobody has waited for
    rx,         \* the consumer: [pc, left]
    closed,     \* the receiver was dropped
    queued,     \* history: lane -> how many packets were ever queued
    out,        \* history: lane -> the packets returned to the consumer
    overtaken   \* history: bulk packets returned while a priority packet waited

vars == <<world, chan, reserved, hint, pending, tx, stream, turn, permit, rx, closed,
          queued, out, overtaken>>

Smaller(i, j) == IF i < j THEN i ELSE j
Larger(i, j) == IF i > j THEN i ELSE j

\* The history variable that numbers packets.
Count(l, n) == queued' = IF world.flood THEN queued ELSE [queued EXCEPT ![l] = @ + n]
Number(l, i) == IF world.flood THEN 0 ELSE queued[l] + i

Packets(items) == Range(FlattenSeq(items))

Init ==
    /\ world \in Worlds
    /\ chan = [l \in Lanes |-> <<>>] /\ pending = [l \in Lanes |-> <<>>]
    /\ reserved = [l \in Lanes |-> 0] /\ hint = 0
    /\ tx = [pc |-> "idle", todo |-> <<>>, cap |-> 0, count |-> 0]
    /\ stream = [r \in Readers |-> [pc |-> "idle", notified |-> FALSE, left |-> world.streams]]
    /\ turn = <<>> /\ permit = FALSE
    /\ rx = [pc |-> "idle", left |-> 0]
    /\ closed = FALSE
    /\ queued = [l \in Lanes |-> 0] /\ out = [l \in Lanes |-> {}] /\ overtaken = 0

-----------------------------------------------------------------------------
(***************************************************************************)
(* The datagram reader.                                                     *)
(***************************************************************************)
\* send, send_packet_batch: a mixed batch is split, the priority part goes first.
Send(shape) ==
    /\ tx.pc = "idle" /\ world.sends > 0 /\ ~closed
    /\ world' = [world EXCEPT !.sends = IF world.flood THEN @ ELSE @ - 1]
    /\ tx' = [tx EXCEPT !.pc = "capacity",
                        !.todo = SelectSeq(<<[lane |-> "Priority", count |-> shape.priority],
                                             [lane |-> "Bulk", count |-> shape.bulk]>>,
                                           LAMBDA part : part.count > 0)]
    /\ UNCHANGED <<chan, reserved, hint, pending, stream, turn, permit, rx, closed,
                   queued, out, overtaken>>

Lane == Head(tx.todo).lane

\* The rest of the batch, or the end of the call.
Rest(t) ==
    IF Tail(t.todo) = <<>>
    THEN [pc |-> "idle", todo |-> <<>>, cap |-> 0, count |-> 0]
    ELSE [pc |-> "capacity", todo |-> Tail(t.todo), cap |-> 0, count |-> 0]

Failed == [pc |-> "idle", todo |-> <<>>, cap |-> 0, count |-> 0]

\* Mutant: datagrams may take the credit a waiting stream reader was notified of.
capacity_unreserved == world.capacity[Lane]

\* While a stream reader has its turn, one priority credit is kept for it.
capacity ==
    world.capacity[Lane] - (IF Lane = "Priority" /\ turn # <<>> THEN 1 ELSE 0)

ReadCapacity ==
    /\ tx.pc = "capacity"
    /\ tx' = IF closed THEN Failed ELSE [tx EXCEPT !.pc = "reserve", !.cap = capacity]
    /\ UNCHANGED <<world, chan, reserved, hint, pending, stream, turn, permit, rx, closed,
                   queued, out, overtaken>>

\* Mutant: a batch is let in whole while there is any credit.
reserve_whole(current, cap, requested) == IF current < cap THEN requested ELSE 0

reserve_packet_prefix(current, cap, requested) == Smaller(requested, Larger(cap - current, 0))

\* What is not granted is dropped.
Reserve ==
    /\ tx.pc = "reserve"
    /\ LET granted == reserve_packet_prefix(reserved[Lane], tx.cap, Head(tx.todo).count)
       IN  /\ reserved' = [reserved EXCEPT ![Lane] = @ + granted]
           /\ tx' = IF granted = 0 THEN Rest(tx)
                    ELSE [tx EXCEPT !.pc = IF Lane = "Priority" THEN "hint" ELSE "push",
                                    !.count = granted]
    /\ UNCHANGED <<world, chan, hint, pending, stream, turn, permit, rx, closed,
                   queued, out, overtaken>>

\* PacketCredits::new: the hint is raised before the item is in the queue.
RaiseHint ==
    /\ tx.pc = "hint"
    /\ hint' = hint + tx.count
    /\ tx' = [tx EXCEPT !.pc = "push"]
    /\ UNCHANGED <<world, chan, reserved, pending, stream, turn, permit, rx, closed,
                   queued, out, overtaken>>

-----------------------------------------------------------------------------
(***************************************************************************)
(* priority_space: a notification goes to the stream reader that registered *)
(* for it, or is kept for the next one.                                     *)
(***************************************************************************)
Registered == {r \in Readers : stream[r].pc \in {"armed", "waiting"} /\ ~stream[r].notified}

notify_one ==
    IF Registered = {} THEN permit' = TRUE /\ UNCHANGED stream
    ELSE /\ stream' = [r \in Readers |->
                         IF r \in Registered THEN [stream[r] EXCEPT !.notified = TRUE] ELSE stream[r]]
         /\ UNCHANGED permit

\* The credits of an item that cannot be queued, or is dropped, go back.
Push ==
    /\ tx.pc = "push"
    /\ IF closed
       THEN /\ reserved' = [reserved EXCEPT ![Lane] = @ - tx.count]
            /\ hint' = hint - (IF Lane = "Priority" THEN tx.count ELSE 0)
            /\ tx' = Failed
            /\ IF Lane = "Priority" THEN notify_one ELSE UNCHANGED <<stream, permit>>
            /\ UNCHANGED <<chan, queued>>
       ELSE /\ chan' = [chan EXCEPT ![Lane] = Append(@, [i \in 1 .. tx.count |-> Number(Lane, i)])]
            /\ Count(Lane, tx.count)
            /\ tx' = Rest(tx)
            /\ UNCHANGED <<reserved, hint, stream, permit>>
    /\ UNCHANGED <<world, pending, turn, rx, closed, out, overtaken>>

-----------------------------------------------------------------------------
(***************************************************************************)
(* send_stream_packet.                                                      *)
(***************************************************************************)
\* The turn is a fair lock: it is granted in the order it was asked for.
AskTurn(r) ==
    /\ stream[r].pc = "idle" /\ stream[r].left > 0 /\ ~closed
    /\ stream' = [stream EXCEPT ![r] = [@ EXCEPT !.pc = "turn", !.left = @ - 1]]
    /\ turn' = Append(turn, r)
    /\ UNCHANGED <<world, chan, reserved, hint, pending, tx, permit, rx, closed,
                   queued, out, overtaken>>

\* notified, enable: registers, and takes a notification that was kept.
Register(r) ==
    /\ \/ stream[r].pc = "turn" /\ Head(turn) = r
       \/ stream[r].pc = "waiting" /\ stream[r].notified
    /\ stream' = [stream EXCEPT ![r] = [@ EXCEPT !.pc = "armed", !.notified = permit]]
    /\ permit' = FALSE
    /\ UNCHANGED <<world, chan, reserved, hint, pending, tx, turn, rx, closed,
                   queued, out, overtaken>>

\* The end of the call: the turn passes on, and so does a notification that was
\* received and not used.
Leave(r) ==
    /\ turn' = SelectSeq(turn, LAMBDA other : other # r)
    /\ permit' = (permit \/ stream[r].notified)
    /\ stream' = [stream EXCEPT ![r] = [@ EXCEPT !.pc = "idle", !.notified = FALSE]]

\* A stream reader may use every credit of the lane.
ReserveStream(r) ==
    /\ stream[r].pc = "armed"
    /\ IF closed
       THEN Leave(r) /\ UNCHANGED reserved
       ELSE IF reserved["Priority"] < world.capacity["Priority"]
       THEN /\ reserved' = [reserved EXCEPT !["Priority"] = @ + 1]
            /\ stream' = [stream EXCEPT ![r].pc = "hint"]
            /\ UNCHANGED <<turn, permit>>
       ELSE stream' = [stream EXCEPT ![r].pc = "waiting"] /\ UNCHANGED <<reserved, turn, permit>>
    /\ UNCHANGED <<world, chan, hint, pending, tx, rx, closed, queued, out, overtaken>>

RaiseStreamHint(r) ==
    /\ stream[r].pc = "hint"
    /\ hint' = hint + 1
    /\ stream' = [stream EXCEPT ![r].pc = "push"]
    /\ UNCHANGED <<world, chan, reserved, pending, tx, turn, permit, rx, closed,
                   queued, out, overtaken>>

PushStream(r) ==
    /\ stream[r].pc = "push"
    /\ IF closed
       THEN /\ reserved' = [reserved EXCEPT !["Priority"] = @ - 1]
            /\ hint' = hint - 1
            /\ UNCHANGED <<chan, queued>>
       ELSE /\ chan' = [chan EXCEPT !["Priority"] = Append(@, <<Number("Priority", 1)>>)]
            /\ Count("Priority", 1)
            /\ UNCHANGED <<reserved, hint>>
    /\ turn' = SelectSeq(turn, LAMBDA other : other # r)
    /\ permit' = (permit \/ stream[r].notified \/ closed)
    /\ stream' = [stream EXCEPT ![r] = [@ EXCEPT !.pc = "idle", !.notified = FALSE]]
    /\ UNCHANGED <<world, pending, tx, rx, closed, out, overtaken>>

\* The select's second arm: the receiver is gone.
StreamClosed(r) ==
    /\ stream[r].pc = "waiting" /\ closed
    /\ Leave(r)
    /\ UNCHANGED <<world, chan, reserved, hint, pending, tx, rx, closed, queued, out, overtaken>>

\* The connection's task ends while it waits, for its turn or for a credit.
Cancel(r) ==
    /\ stream[r].pc \in {"turn", "waiting"} /\ world.cancels > 0
    /\ world' = [world EXCEPT !.cancels = @ - 1]
    /\ Leave(r)
    /\ UNCHANGED <<chan, reserved, hint, pending, tx, rx, closed, queued, out, overtaken>>

-----------------------------------------------------------------------------
(***************************************************************************)
(* The consumer.  recv returns one packet, drain_ready up to a limit (or    *)
(* until its callback declines: then the limit is what it took).            *)
(***************************************************************************)
\* PacketCredits::consume, as a packet is returned, and Drop on the credits of a tail
\* that is given up with it (bulk only, so nobody is notified of those).
consume(lane, packet, lost) ==
    /\ reserved' = [reserved EXCEPT ![lane] = @ - 1 - lost]
    /\ IF lane = "Priority" THEN notify_one ELSE UNCHANGED <<stream, permit>>
    /\ out' = [out EXCEPT ![lane] = @ \union {packet}]
    /\ overtaken' = IF lane = "Priority" THEN 0
                    ELSE IF chan["Priority"] = <<>> /\ pending["Priority"] = <<>> THEN overtaken
                    ELSE overtaken + 1

\* Where the consumer is after a packet, and after a queue without one.
Took(next) == rx' = IF rx.left = 1 THEN [pc |-> "idle", left |-> 0] ELSE [pc |-> next, left |-> rx.left - 1]
Goto(next) == rx' = [rx EXCEPT !.pc = next]
Return == rx' = [pc |-> "idle", left |-> 0]

take_pending(lane) ==
    /\ pending[lane] # <<>>
    /\ pending' = [pending EXCEPT ![lane] = Tail(@)]
    /\ consume(lane, Head(pending[lane]), 0)
    /\ UNCHANGED <<chan, hint>>

\* packet_from_item on the next item of a lane: its first packet is returned, the
\* others become the lane's pending tail, in place of one that is still there.
packet_from_item(lane) ==
    /\ chan[lane] # <<>>
    /\ LET item == Head(chan[lane])
       IN  /\ chan' = [chan EXCEPT ![lane] = Tail(@)]
           /\ hint' = hint - (IF lane = "Priority" THEN Len(item) ELSE 0)
           /\ pending' = IF Len(item) > 1 THEN [pending EXCEPT ![lane] = Tail(item)] ELSE pending
           /\ consume(lane, Head(item), IF Len(item) > 1 THEN Len(pending[lane]) ELSE 0)

Nothing == UNCHANGED <<chan, reserved, hint, pending, stream, permit, out, overtaken>>

Receiving == UNCHANGED <<world, tx, turn, closed, queued>>

\* A call begins.
recv == rx.pc = "idle" /\ ~closed /\ rx' = [pc |-> "recv", left |-> 1] /\ Nothing /\ Receiving

drain_ready ==
    /\ rx.pc = "idle" /\ ~closed
    /\ \E limit \in 1 .. world.limit : rx' = [pc |-> "drain", left |-> limit]
    /\ Nothing /\ Receiving

should_probe_priority == hint > 0

\* The loop's top: the priority tail, then the priority queue if the hint says so.
Top(pc, probe, bulk) ==
    /\ rx.pc = pc
    /\ \/ take_pending("Priority") /\ Took(pc)
       \/ /\ pending["Priority"] = <<>>
          /\ Goto(IF should_probe_priority THEN probe ELSE bulk)
          /\ Nothing
    /\ Receiving

Probe(pc, top, bulk) ==
    /\ rx.pc = pc
    /\ \/ packet_from_item("Priority") /\ Took(top)
       \/ chan["Priority"] = <<>> /\ Goto(bulk) /\ Nothing
    /\ Receiving

\* try_recv on the bulk side, and the select of recv when it found nothing: priority
\* is polled first.
RecvBulk ==
    /\ rx.pc = "recv_bulk"
    /\ \/ take_pending("Bulk") /\ Took("recv")
       \/ pending["Bulk"] = <<>> /\ packet_from_item("Bulk") /\ Took("recv")
       \/ pending["Bulk"] = <<>> /\ chan["Bulk"] = <<>> /\ Goto("select") /\ Nothing
    /\ Receiving

Select ==
    /\ rx.pc = "select"
    /\ \/ packet_from_item("Priority") /\ Took("recv")
       \/ chan["Priority"] = <<>> /\ packet_from_item("Bulk") /\ Took("recv")
    /\ Receiving

\* The wait of recv is one arm of the receive loop's select and may be dropped.
Dropped ==
    /\ rx.pc = "select" /\ chan = [l \in Lanes |-> <<>>]
    /\ Return /\ Nothing /\ Receiving

\* Mutant: the tail is drained without a look at the priority lane.
drain_whole_tail(pc, take, next) ==
    /\ rx.pc = pc
    /\ \/ take_pending("Bulk") /\ Took(pc)
       \/ pending["Bulk"] = <<>> /\ Goto(next) /\ Nothing
    /\ Receiving

\* Looks at the hint before every packet of the tail, and returns when it is raised.
drain_pending_bulk(pc, take, next) ==
    /\ \/ /\ rx.pc = pc
          /\ Goto(IF should_probe_priority THEN next ELSE take) /\ Nothing
       \/ rx.pc = take /\ take_pending("Bulk") /\ Took(pc)
       \/ rx.pc = take /\ pending["Bulk"] = <<>> /\ Goto(next) /\ Nothing
    /\ Receiving

\* bulk.try_recv and drain_item: whether or not the pending tail was drained.
DrainBulk ==
    /\ rx.pc = "bulk"
    /\ \/ packet_from_item("Bulk") /\ Took("item")
       \/ chan["Bulk"] = <<>> /\ Return /\ Nothing
    /\ Receiving

\* The consumer goes away: queues and tails are dropped with their credits.
Close ==
    /\ world.close /\ rx.pc = "idle" /\ ~closed
    /\ closed' = TRUE
    /\ LET held(l) == Len(FlattenSeq(chan[l])) + Len(pending[l])
       IN  /\ reserved' = [l \in Lanes |-> reserved[l] - held(l)]
           /\ hint' = hint - Len(FlattenSeq(chan["Priority"]))
           /\ IF held("Priority") > 0 THEN notify_one ELSE UNCHANGED <<stream, permit>>
    /\ chan' = [l \in Lanes |-> <<>>] /\ pending' = [l \in Lanes |-> <<>>]
    /\ UNCHANGED <<world, tx, turn, rx, queued, out, overtaken>>

Consumer ==
    \/ Top("recv", "recv_probe", "recv_bulk") \/ Probe("recv_probe", "recv", "recv_bulk")
    \/ RecvBulk \/ Select \/ Dropped
    \/ Top("drain", "probe", "tail") \/ Probe("probe", "drain", "tail")
    \/ drain_pending_bulk("tail", "take_tail", "bulk") \/ DrainBulk
    \/ drain_pending_bulk("item", "take_item", "drain")

Admission(r) == Register(r) \/ ReserveStream(r) \/ RaiseStreamHint(r) \/ PushStream(r) \/ StreamClosed(r)

Datagrams == ReadCapacity \/ Reserve \/ RaiseHint \/ Push

Next ==
    \/ \E shape \in world.shapes : Send(shape)
    \/ Datagrams
    \/ \E r \in Readers : AskTurn(r) \/ Admission(r) \/ Cancel(r)
    \/ recv \/ drain_ready \/ Consumer \/ Close

\* A stream reader can go on without anybody else.
Admissible(r) ==
    \/ stream[r].pc \in {"armed", "hint", "push"}
    \/ stream[r].pc = "turn" /\ Head(turn) = r
    \/ stream[r].pc = "waiting" /\ (stream[r].notified \/ closed)

\* Weak fairness of the tasks, spelled out: a call of the datagram reader or of the
\* consumer takes finitely many steps and ends, a consumer with something to read calls
\* again, and a stream reader that can go on does.
Fairness ==
    /\ []<>(tx.pc = "idle")
    /\ []<>(rx.pc = "idle")
    /\ []<>(rx.pc # "idle" \/ \A l \in Lanes : chan[l] = <<>> /\ pending[l] = <<>>)
    /\ \A r \in Readers :
         []<>~Admissible(r) \/ []<><<stream'[r].pc # stream[r].pc>>_stream

Spec == Init /\ [][Next]_vars /\ Fairness

-----------------------------------------------------------------------------
InHand(l) ==
    (IF tx.todo # <<>> /\ Lane = l THEN tx.count ELSE 0)
    + (IF l = "Priority" THEN Cardinality({r \in Readers : stream[r].pc \in {"hint", "push"}}) ELSE 0)

\* The credits taken from a lane are those of the packets in its queue, in its pending
\* tail and in the hands of a reader, whatever the interleaving and whoever goes away, and
\* stay within its capacity; so try_send never finds the queue full.  A priority packet in
\* the queue is always announced by the hint, so probing only then overlooks none
\* (reserve_packet_prefix, PacketCredits, should_probe_priority).
CreditsExact ==
    /\ \A l \in Lanes :
         /\ reserved[l] = Len(FlattenSeq(chan[l])) + Len(pending[l]) + InHand(l)
         /\ reserved[l] <= world.capacity[l]
    /\ hint >= Len(FlattenSeq(chan["Priority"]))

\* A priority packet waits for at most two bulk packets, however long the tail and the
\* queue it finds, and priority packets are returned in the order they were queued, none
\* missing (try_recv, drain_ready).
PriorityFirst ==
    /\ overtaken <= 2
    /\ ~world.flood => \E n \in 0 .. queued["Priority"] : out["Priority"] = 1 .. n

\* A stream reader that waits for its turn or for credit gets it, or learns that the
\* receiver is gone, also while datagrams never stop taking credit (send_stream_packet,
\* the credit PacketQueueTx::capacity keeps back).
EveryStreamIsAdmitted == []<>(\A r \in Readers : stream[r].pc = "idle")

\* Every queued packet is returned to the consumer or still on its way to it: tails of
\* batches keep their place "until each packet is returned to the consumer"
\* (packet_channel).
TailsAreKept ==
    ~closed /\ ~world.flood => \A l \in Lanes :
      1 .. queued[l] = out[l] \union Range(pending[l]) \union Packets(chan[l])
=============================================================================
