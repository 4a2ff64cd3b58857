------------------------------ MODULE MCParts ------------------------------
(***************************************************************************)
(* The parts whose instances are small, checked together: a behaviour is    *)
(* one of one part, which moves while the others rest in their first        *)
(* state.                                                                   *)
(***************************************************************************)
EXTENDS ReadyQueue, ReplayWindow, FlapDampening, Gateway, EndpointEvents

CONSTANTS
    Readers,            \* PacketChannel
    Node                \* SpanningTree

VARIABLES
    part,                                                           \* the one that moves
    lanes, items, reserved, hint, tails, tx, stream, turn, permit, rx, closed, queued, out, overtaken,
                                                                    \* PacketChannel
    pair, sessions, owners, confirmed, startup_epoch, ephemerals, wire,
                                                                    \* FspSession
    network, node, net                                              \* SpanningTree

-----------------------------------------------------------------------------
(***************************************************************************)
(* The surroundings of the channels, the sessions and the tree.             *)
(***************************************************************************)
Credits(p, b) == [l \in {"Priority", "Bulk"} |-> IF l = "Priority" THEN p ELSE b]

\* Mixed batches, no streams.
Batches ==
    [capacity |-> Credits(2, 3),
     shapes |-> {[priority |-> 0, bulk |-> 3], [priority |-> 2, bulk |-> 1]},
     sends |-> 3, flood |-> FALSE, streams |-> 0, cancels |-> 0, close |-> FALSE, limit |-> 3]

\* Streams beside datagrams; a wait is given up, and the consumer may go away.
Streams ==
    [capacity |-> Credits(2, 1), shapes |-> {[priority |-> 2, bulk |-> 0]},
     sends |-> 1, flood |-> FALSE, streams |-> 1, cancels |-> 1, close |-> TRUE, limit |-> 2]

\* Datagrams that never stop.
Flood ==
    [capacity |-> Credits(2, 1), shapes |-> {[priority |-> 1, bulk |-> 0]},
     sends |-> 1, flood |-> TRUE, streams |-> 1, cancels |-> 0, close |-> FALSE, limit |-> 1]

\* EndpointEvents.  Senders that keep a full queue busy with batches larger than what is asked for.
Busy ==
    [capacity |-> 2, sizes |-> {3}, sends |-> [s \in {"node", "loopback"} |-> 1],
     maxes |-> {2}, reads |-> 2, drops |-> FALSE, closes |-> FALSE]

\* Senders and receiver go away in the middle of it.
Ends ==
    [capacity |-> 1, sizes |-> {1}, sends |-> [s \in {"node", "loopback"} |-> IF s = "node" THEN 2 ELSE 1],
     maxes |-> {1}, reads |-> 2, drops |-> TRUE, closes |-> TRUE]

Clones == {"node", "loopback"}
EndpointWorlds == {Busy, Ends}

\* Two nodes with a session; nothing but the handshakes happens.
Calm ==
    [established |-> TRUE, ephemerals |-> 6, in_flight |-> 2, faults |-> 0, restarts |-> 0,
     handshake_max_resends |-> 1, rekey_enabled |-> FALSE, routine |-> 6, expiry |-> FALSE,
     recovery |-> "Off", stale_pending |-> FALSE, long_patience |-> FALSE, long_drain |-> TRUE]

\* A first handshake with one message lost or repeated.
Fresh == [Calm EXCEPT !.established = FALSE, !.ephemerals = 4, !.faults = 1]

\* Rekeys of a live session.
Cutovers == [Calm EXCEPT !.ephemerals = 5, !.in_flight = 3, !.handshake_max_resends = 0,
                         !.rekey_enabled = TRUE]

\* One end restarts between two routine rekeys; the other finds out because it
\* is not understood.
Heal == [Calm EXCEPT !.restarts = 1, !.rekey_enabled = TRUE, !.routine = 0,
                     !.recovery = "Silent", !.long_patience = TRUE, !.long_drain = FALSE]

\* Links that fail, messages that are lost and a process that restarts, until
\* they no longer do.
Line ==
    [edges |-> {{1, 2}, {2, 3}}, leaf_only |-> {}, start |-> "Formed",
     coords |-> [n \in Node |-> [i \in 1 .. n |-> n + 1 - i]], costs |-> {1}, refresh |-> FALSE,
     max_seq |-> 7, cuts |-> 0, restarts |-> 0, reports |-> 0, losses |-> 0, flight |-> 1,
     prompt |-> TRUE]
Converge == [Line EXCEPT !.refresh = TRUE, !.max_seq = 6, !.cuts = 1, !.losses = 1]
Rejoin == [Line EXCEPT !.restarts = 1]

Channel == INSTANCE PacketChannel
            WITH Worlds <- {Batches, Streams, Flood}, world <- lanes, chan <- items, pending <- tails
Session == INSTANCE FspSession
            WITH Worlds <- {Fresh, Cutovers, Heal}, world <- pair, net <- wire,
                 BlockBits <- 1, RingBlocks <- 2, MaxCounter <- 0
Tree == INSTANCE SpanningTree WITH Worlds <- {Converge, Rejoin}, world <- network

cvars == <<lanes, items, reserved, hint, tails, tx, stream, turn, permit, rx, closed, queued,
           out, overtaken>>
svars == <<pair, sessions, owners, confirmed, startup_epoch, ephemerals, wire>>
tvars == <<network, node, net>>
pvars == <<part, qvars, wvars, fvars, gvars, cvars, evars, svars, tvars>>

-----------------------------------------------------------------------------
PInit ==
    /\ part \in {"ready", "replay", "flap", "gateway", "channel", "events", "session", "tree"}
    /\ QueueInit /\ WindowInit /\ FlapInit /\ GatewayInit /\ EventsInit
    /\ Channel!Init /\ Session!Init /\ Tree!Init
    /\ part = "channel" \/ lanes = Batches
    /\ part = "events" \/ world = Busy
    /\ part = "session" \/ pair = Fresh
    /\ part = "tree" \/ network = Converge

PNext ==
    \/ /\ part = "ready" /\ QueueNext
       /\ UNCHANGED <<part, wvars, fvars, gvars, cvars, evars, svars, tvars>>
    \/ /\ part = "replay" /\ WindowNext
       /\ UNCHANGED <<part, qvars, fvars, gvars, cvars, evars, svars, tvars>>
    \/ /\ part = "flap" /\ FlapNext
       /\ UNCHANGED <<part, qvars, wvars, gvars, cvars, evars, svars, tvars>>
    \/ /\ part = "gateway" /\ GatewayNext
       /\ UNCHANGED <<part, qvars, wvars, fvars, cvars, evars, svars, tvars>>
    \/ /\ part = "channel" /\ Channel!Next
       /\ UNCHANGED <<part, qvars, wvars, fvars, gvars, evars, svars, tvars>>
    \/ /\ part = "events" /\ EventsNext
       /\ UNCHANGED <<part, qvars, wvars, fvars, gvars, cvars, svars, tvars>>
    \/ /\ part = "session" /\ Session!Next
       /\ UNCHANGED <<part, qvars, wvars, fvars, gvars, cvars, evars, tvars>>
    \/ /\ part = "tree" /\ Tree!Next
       /\ UNCHANGED <<part, qvars, wvars, fvars, gvars, cvars, evars, svars>>

\* The fairness of each part, for the behaviours in which it moves.
PFairness ==
    /\ WF_qvars(Pop)
    /\ Channel!Fairness
    /\ \A n \in Session!Nodes :
        \* Messages arrive.
        /\ WF_svars(part = "session" /\ Session!ReceiveSetup(n))
        /\ Session!Delivery(n, "SessionAck", 0) /\ Session!Delivery(n, "SessionMsg3", 0)
        /\ \A s \in Session!Sessions : Session!Delivery(n, "Data", s)
        \* The maintenance tick resends handshakes, probes completed epochs, ends drains and
        \* rekeys with a peer it hears nothing from; a node with something to send opens a
        \* session, and uses it.  All but the first can do it once and then have to wait, so
        \* that weak fairness says that they do not stay enabled.
        /\ WF_svars(part = "session" /\ Session!resend_pending_session_handshakes(n))
        /\ []<>~(part = "session" /\ ENABLED Session!Probe(n))
        /\ []<>~(part = "session" /\ ENABLED Session!CompleteDrain(n))
        /\ []<>~(part = "session" /\ ENABLED Session!recover_unresponsive_sessions(n))
        /\ []<>~(part = "session" /\ ENABLED Session!initiate_session(n))
        /\ []<>~(part = "session" /\ ENABLED Session!SendData(n))
    \* Links deliver what is sent often enough, the announcement deadline and the
    \* maintenance tick serve every peer, handshakes are retried until the neighbours
    \* share a session, and every node re-evaluates its parent from time to time.
    /\ \A n, p \in Node :
        /\ []<>~(part = "tree" /\ Tree!Arriving(n, p)) \/ []<><<Tree!Received(n, p)>>_net
        /\ []<>~(part = "tree" /\ Tree!Due(n, p)) \/ []<><<Tree!Announced(n, p)>>_net
    /\ \A n, p \in Node : n < p =>
        []<>~(part = "tree" /\ p \in Tree!Neighbours(n) /\ Tree!Apart(n, p))
    /\ \A n \in Node :
        []<>~(part = "tree" /\ Tree!CanImprove(n)) \/ []<><<part = "tree" /\ Tree!Reevaluate(n)>>_tvars

PSpec == PInit /\ [][PNext]_pvars /\ PFairness

-----------------------------------------------------------------------------
(* What the other parts promise, under the names they have there.            *)

\* The credits of each lane are the packets that were admitted and not yet returned to
\* the consumer, never more than its capacity (PacketCredits).
CreditsExact == part = "channel" => Channel!CreditsExact

\* At most two bulk packets are returned while a priority packet waits in the channel
\* (PacketRx::recv, drain_ready).
PriorityFirst == part = "channel" => Channel!PriorityFirst

\* A stream reader that waits for room is admitted, also when datagrams never stop
\* (send_stream_packet).
EveryStreamIsAdmitted == Channel!EveryStreamIsAdmitted

\* A batch whose tail is still to be returned is not replaced by the next one.
TailsAreKept == part = "channel" => Channel!TailsAreKept

\* The two ends come to share a session, and to use the epoch that both have completed:
\* after both opened one at once, after a message was lost, after a rekey (the cutover
\* of its initiator, the K-bit flip at its responder), and after one end restarted
\* (recover_unresponsive_sessions).
SessionsSettle == []<>(part = "session" => Session!Settled)

\* Once links, messages and processes no longer fail, every node of a connected
\* network has the smallest address as its root (TreeState::evaluate_parent).
TreeConverges == <>[](part = "tree" => Tree!OneTree)
=============================================================================
