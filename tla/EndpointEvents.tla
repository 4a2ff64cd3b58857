---------------------------- MODULE EndpointEvents ----------------------------
(***************************************************************************)
(* The queue between the node and an application that embeds it             *)
(* (node/endpoint_event.rs, endpoint/receive.rs): clones of one             *)
(* EndpointEventSender deliver batches of messages, and one reader at a     *)
(* time, which holds the lock of EndpointReceiveState, takes them in        *)
(* batches of its own size.  A counter shared by all of them bounds the     *)
(* messages that no reader has been given yet, and a sequence number behind *)
(* a condition variable wakes the thread that waits for one.                *)
(*                                                                          *)
(* A step is one access to something shared: the counter, the channel or    *)
(* the sequence number.  The counter is usize: a negative value stands for  *)
(* the one it wraps around to, which no reservation can be added to.        *)
(***************************************************************************)
EXTENDS Integers, Sequences, FiniteSetsExt

CONSTANTS
    Senders,        \* the clones of the sender
    Worlds          \* the surroundings to consider

\* A world has the message_cap of the channel; the sizes of the batches that a
\* sender delivers, and how many each of them still delivers; the sizes that the
\* reader asks for; whether senders may be dropped, and whether the receiver may.

VARIABLES
    world,
    channel,        \* the events in the tokio channel, each a sequence of messages
    queued_messages,
    sequence,       \* of EndpointEventReady
    sender,         \* clone -> where it is, and the batches it has yet to send
    reader,         \* where the reader is, and what it holds
    pending,        \* the rest of an event that did not fit the reader's batch
    open,           \* is the receiving half of the channel there?
    last            \* clone -> the number of its message that was read last

evars == <<world, channel, queued_messages, sequence, sender, reader, pending, open, last>>

\* The messages of one sender are numbered.
Batch(s, first, n) == [i \in 1 .. n |-> [by |-> s, number |-> first + i - 1]]

Gone(s) == sender[s].pc = "Gone"
Reader(pc) == reader.pc = pc

-----------------------------------------------------------------------------
(* Sending.  The batches a call has yet to send are a stack: a batch that    *)
(* does not fit is replaced by its halves.                                   *)

\* The counter has room for n more; wrapped around, it has room for none.
try_reserve_endpoint_event_messages(n) ==
    queued_messages >= 0 /\ queued_messages + n <= world.capacity

Goto(s, pc, work) ==
    sender' = [sender EXCEPT ![s].pc = IF work = <<>> THEN "Idle" ELSE pc, ![s].work = work]

send(s, n) ==
    /\ sender[s].pc = "Idle" /\ world.sends[s] > 0
    /\ world' = [world EXCEPT !.sends[s] = @ - 1]
    /\ sender' = [sender EXCEPT ![s].pc = "Reserve", ![s].work = <<Batch(s, sender[s].made + 1, n)>>,
                                ![s].made = @ + n]
    /\ UNCHANGED <<channel, queued_messages, sequence, reader, pending, open, last>>

Halves(b) == <<SubSeq(b, 1, Len(b) \div 2), SubSeq(b, Len(b) \div 2 + 1, Len(b))>>
\* Mutant: the right half is sent first.
right_half_first(b) == <<Halves(b)[2], Halves(b)[1]>>

split_and_send_event(b) == Halves(b)

\* send_event up to its try_send: credits are reserved, or the batch is split,
\* or a message that does not fit is dropped.
Reserve(s) ==
    LET batch == Head(sender[s].work)
        fits == try_reserve_endpoint_event_messages(Len(batch))
        rest == Tail(sender[s].work)
    IN  /\ sender[s].pc = "Reserve"
        /\ queued_messages' = IF fits THEN queued_messages + Len(batch) ELSE queued_messages
        /\ \/ fits /\ Goto(s, "Send", sender[s].work)
           \/ ~fits /\ Len(batch) > 1 /\ Goto(s, "Reserve", split_and_send_event(batch) \o rest)
           \/ ~fits /\ Len(batch) = 1 /\ Goto(s, "Reserve", rest)
        /\ UNCHANGED <<world, channel, sequence, reader, pending, open, last>>

\* try_send: the channel has room for message_cap events.
TrySend(s) ==
    /\ sender[s].pc = "Send" /\ open /\ Len(channel) < world.capacity
    /\ channel' = Append(channel, Head(sender[s].work))
    /\ Goto(s, "Notify", sender[s].work)
    /\ UNCHANGED <<world, queued_messages, sequence, reader, pending, open, last>>

\* A send that the channel refuses gives its credits back.  A full channel ends
\* this batch, a closed one the call.
note_send_rejected(s) ==
    /\ sender[s].pc = "Send" /\ (open => Len(channel) >= world.capacity)
    /\ queued_messages' = queued_messages - Len(Head(sender[s].work))
    /\ Goto(s, "Notify", IF open THEN sender[s].work ELSE <<Head(sender[s].work)>>)
    /\ UNCHANGED <<world, channel, sequence, reader, pending, open, last>>

\* Mutant: only an event in an empty channel is announced.
notify_when_first == sequence' = IF Len(channel) = 1 THEN sequence + 1 ELSE sequence

notify == sequence' = sequence + 1

Notify(s) ==
    /\ sender[s].pc = "Notify"
    /\ notify
    /\ Goto(s, "Reserve", Tail(sender[s].work))
    /\ UNCHANGED <<world, channel, queued_messages, reader, pending, open, last>>

\* Drop for EndpointEventSender notifies; its half of the channel goes after that.
DropSender(s) ==
    /\ world.drops /\ sender[s].pc = "Idle"
    /\ notify
    /\ sender' = [sender EXCEPT ![s].pc = "Dropping"]
    /\ UNCHANGED <<world, channel, queued_messages, reader, pending, open, last>>

DropTx(s) ==
    /\ sender[s].pc = "Dropping"
    /\ sender' = [sender EXCEPT ![s].pc = "Gone"]
    /\ UNCHANGED <<world, channel, queued_messages, sequence, reader, pending, open, last>>

-----------------------------------------------------------------------------
(* Receiving: recv_batch_into and blocking_recv_batch_into.                  *)

\* The messages ms are given to a call that was given some before and asks for max,
\* the messages kept wait for the next call; then credits are released for ms.
Give(ms, kept, given, max, pc) ==
    /\ reader' = [reader EXCEPT !.given = given + Len(ms), !.max = max, !.event = <<>>, !.observed = 0,
                                !.pc = IF given + Len(ms) = max THEN "Idle" ELSE pc]
    /\ pending' = kept
    /\ last' = [s \in Senders |->
                    Max({last[s]} \cup {m.number : m \in {m \in Range(ms) : m.by = s}})]
    /\ queued_messages' = queued_messages - Len(ms)

Least(a, b) == IF a < b THEN a ELSE b

\* A call starts with what an earlier one left.
drain_pending_into(k, max) ==
    Give(SubSeq(pending, 1, k), SubSeq(pending, k + 1, Len(pending)), 0, max,
         IF k > 0 THEN "More" ELSE "First")

Call(max) ==
    /\ Reader("Idle") /\ world.reads > 0
    /\ world' = [world EXCEPT !.reads = @ - 1]
    /\ drain_pending_into(Least(Len(pending), max), max)
    /\ UNCHANGED <<channel, sequence, sender, open>>

\* The first event of a call is waited for, by a task or by a thread.  The thread
\* notes the sequence number before it looks into the channel.
recv == Reader("First") /\ reader' = [reader EXCEPT !.pc = "Await"]

snapshot == Reader("First") /\ reader' = [reader EXCEPT !.pc = "Look", !.observed = sequence]

Wait ==
    /\ recv \/ snapshot
    /\ UNCHANGED <<world, channel, queued_messages, sequence, sender, pending, open, last>>

Looking == reader.pc \in {"Await", "Look", "More"}

try_recv ==
    /\ Looking /\ channel # <<>>
    /\ reader' = [reader EXCEPT !.pc = "Push", !.event = Head(channel)]
    /\ channel' = Tail(channel)
    /\ UNCHANGED <<world, queued_messages, sequence, sender, pending, open, last>>

\* Mutant: what does not fit is forgotten.
push_keeps_nothing(e, room) == <<>>

\* The event fills the batch; what is left of it is kept.
push_pending(e, room) == SubSeq(e, room + 1, Len(e))

push_event_into ==
    LET e == reader.event
        room == Least(Len(e), reader.max - reader.given)
    IN  /\ Reader("Push")
        /\ Give(SubSeq(e, 1, room), pending \o push_pending(e, room), reader.given, reader.max,
                "More")
        /\ UNCHANGED <<world, channel, sequence, sender, open>>

\* An empty channel ends a call that has messages, and one whose senders are all
\* gone; a thread that has none sleeps.
EmptyChannel ==
    /\ Looking /\ channel = <<>>
    /\ \/ Reader("More") /\ reader' = [reader EXCEPT !.pc = "Idle"]
       \/ /\ ~Reader("More") /\ \A s \in Senders : Gone(s)
          /\ reader' = [reader EXCEPT !.pc = "Ended"]
       \/ /\ Reader("Look") /\ \E s \in Senders : ~Gone(s)
          /\ reader' = [reader EXCEPT !.pc = "Wait"]
    /\ UNCHANGED <<world, channel, queued_messages, sequence, sender, pending, open, last>>

\* A thread sleeps until the number is no longer the one it noted.
wait_for_change ==
    /\ Reader("Wait") /\ sequence # reader.observed
    /\ reader' = [reader EXCEPT !.pc = "Look", !.observed = sequence]
    /\ UNCHANGED <<world, channel, queued_messages, sequence, sender, pending, open, last>>

\* Drop for EndpointEventReceiver clears the counter and notifies; its half of the
\* channel, with everything in it, goes after that.
DropReceiver ==
    /\ world.closes /\ open /\ reader.pc \in {"Idle", "Ended"}
    /\ reader' = [reader EXCEPT !.pc = "Dropping"]
    /\ queued_messages' = 0
    /\ notify
    /\ UNCHANGED <<world, channel, sender, pending, open, last>>

DropRx ==
    /\ Reader("Dropping")
    /\ reader' = [reader EXCEPT !.pc = "Gone"]
    /\ open' = FALSE /\ channel' = <<>> /\ pending' = <<>>
    /\ UNCHANGED <<world, queued_messages, sequence, sender, last>>

-----------------------------------------------------------------------------
EventsInit ==
    /\ world \in Worlds
    /\ channel = <<>> /\ queued_messages = 0 /\ sequence = 0
    /\ sender = [s \in Senders |-> [pc |-> "Idle", work |-> <<>>, made |-> 0]]
    /\ reader = [pc |-> "Idle", max |-> 0, given |-> 0, event |-> <<>>, observed |-> 0]
    /\ pending = <<>> /\ open = TRUE
    /\ last = [s \in Senders |-> 0]

Sending(s) ==
    \/ \E n \in world.sizes : send(s, n)
    \/ Reserve(s) \/ TrySend(s) \/ note_send_rejected(s) \/ Notify(s) \/ DropSender(s) \/ DropTx(s)

Receiving ==
    \/ \E max \in world.maxes : Call(max)
    \/ Wait \/ try_recv \/ push_event_into \/ EmptyChannel \/ wait_for_change
    \/ DropReceiver \/ DropRx

EventsNext == (\E s \in Senders : Sending(s)) \/ Receiving

EventsSpec == EventsInit /\ [][EventsNext]_evars

-----------------------------------------------------------------------------
Living == reader.pc \notin {"Dropping", "Gone"}

\* The events one after the other.
Flattened(events) == MapThenFoldSet(\o, <<>>, LAMBDA i : events[i], Min, DOMAIN events)

\* Messages in the order in which the application will be given them.
InOrder == reader.event \o pending \o Flattened(channel)
Reserved == MapThenSumSet(LAMBDA s : IF sender[s].pc = "Send" THEN Len(Head(sender[s].work)) ELSE 0,
                          Senders)

\* As long as the receiver lives, the counter is the number of messages that were
\* reserved for and not yet given to the application, never above message_cap, and
\* the messages of a sender are given in the order of its calls, also when batches
\* are split on the way in (split_and_send_event) and on the way out (pending).
EventsAccounted ==
    Living =>
        /\ queued_messages = Len(InOrder) + Reserved
        /\ queued_messages <= world.capacity
        /\ \A i \in 1 .. Len(InOrder) :
            LET m == InOrder[i]
            IN  /\ m.number > last[m.by]
                /\ \A j \in 1 .. i - 1 : InOrder[j].by = m.by => InOrder[j].number < m.number

\* A thread that sleeps in blocking_recv with an event in the channel is about to be
\* notified: the sequence number it compares with was read before it looked.
SleeperIsWoken ==
    Reader("Wait") /\ sequence = reader.observed /\ channel # <<>> =>
        \E s \in Senders : sender[s].pc = "Notify"

\* release_endpoint_event_messages asserts that the counter covers what is released.
NoUnderflow == queued_messages >= 0
=============================================================================
