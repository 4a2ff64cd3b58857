---------------------------- MODULE SpanningTree ----------------------------
(***************************************************************************)
(* The spanning tree of a network of nodes: each keeps a TreeState, hears   *)
(* the announcements of its neighbours over links that delay, reorder and   *)
(* lose (an encrypted link delivers no packet twice), measures its links,   *)
(* and loses, regains and replaces neighbours that die or restart.          *)
(***************************************************************************)
EXTENDS TreeState

CONSTANT Worlds         \* the networks to consider, see WorldType

\* A network, how it starts, and what may happen to it.
WorldType ==
    [edges : SUBSET SUBSET Node,    \* the pairs that can become neighbours
     leaf_only : SUBSET Node,       \* the nodes configured as clients
     start : {"Alone", "Joined", "Formed"},
     coords : [Node -> Seq(Node)],  \* the coordinates in a formed tree
     costs : SUBSET Nat,            \* the link costs a measurement may yield
     refresh : BOOLEAN,             \* announce_refresh_interval_secs is not zero
     max_seq : Nat,                 \* bound on the declarations of a node
     cuts : Nat,                    \* bound on neighbours lost
     restarts : Nat,                \* bound on process restarts
     reports : Nat,                 \* bound on measurements
     losses : Nat,                  \* bound on messages lost
     flight : Nat,                  \* bound on announcements under way from a node to another
     prompt : BOOLEAN]              \* the rate limit holds nothing back but what that does

\* A formed tree of routers: every node is the root, or extends the path of a neighbour,
\* to the smallest node on it.
FormedTree(w) ==
    /\ w.leaf_only = {}
    /\ \A n \in Node :
        LET c == w.coords[n]
        IN  /\ Len(c) > 0 /\ c[1] = n /\ IsInjective(c)
            /\ \A i \in 1 .. Len(c) : root_id(c) <= c[i]
            /\ Len(c) > 1 => {n, c[2]} \in w.edges /\ c = <<n>> \o w.coords[c[2]]

ASSUME WorldsAssumption ==
    \A w \in Worlds : /\ w \in WorldType
                      /\ \A n \in Node : {n} \notin w.edges
                      /\ w.start = "Formed" => FormedTree(w)

VARIABLES
    node,       \* the state of each node
    net,        \* the messages in flight
    world       \* a member of Worlds; its cuts, restarts, ... are those still to come

vars == <<node, net, world>>

Neighbours(n) == {p \in Node : {n, p} \in world.edges}
Members == UNION world.edges
FirstState(n) == NewState(n, 0, n \in world.leaf_only)

\* Every neighbour has been promoted and sent the bootstrap announcement.
Joined(n) ==
    send_tree_announces([FirstState(n) EXCEPT !.peers = Neighbours(n)], Neighbours(n), TRUE, {})

\* A tree of routers has formed and every node has heard its neighbours.
StartParent(n) == IF Len(world.coords[n]) = 1 THEN n ELSE world.coords[n][2]
StartSeq(n) == IF Len(world.coords[n]) = 1 THEN 1 ELSE 2

Formed(n) ==
    [FirstState(n) EXCEPT
        !.parent = StartParent(n), !.seq = StartSeq(n), !.coords = world.coords[n],
        !.peers = Neighbours(n),
        !.heard = [p \in Node |->
            IF p \in Neighbours(n)
            THEN [parent |-> StartParent(p), seq |-> StartSeq(p), path |-> world.coords[p]]
            ELSE NotHeard],
        !.role = [p \in Node |->
            IF p \in Neighbours(n) THEN [NewRole EXCEPT !.seq = StartSeq(p)] ELSE NewRole]]

Init ==
    /\ world \in Worlds
    /\ node = [n \in Node |-> CASE world.start = "Alone"  -> FirstState(n)
                                [] world.start = "Joined" -> Joined(n).node
                                [] world.start = "Formed" -> Formed(n)]
    /\ net = IF world.start = "Joined" THEN UNION {Joined(n).sent : n \in Node} ELSE {}

\* A handler of n has run: it leaves a new state and sends messages.
Commit(n, result, consumed) ==
    /\ result.node.seq <= world.max_seq
    /\ node' = [node EXCEPT ![n] = result.node]
    /\ net' = (net \ consumed) \cup result.sent

\* The interval since the last announcement has not passed while as many as
\* the bound allows are under way, and may not have passed at any other time.
Busy(n) ==
    {p \in node[n].peers :
        Cardinality({m \in net : m.from = n /\ m.to = p /\ m.type # "support"}) >= world.flight}
Limits(n) ==
    IF world.prompt THEN {Busy(n)} ELSE {limited \in SUBSET node[n].peers : Busy(n) \subseteq limited}

ReceiveTree(n, p) ==
    \E m \in {m \in net : m.to = n /\ m.from = p /\ m.type = "tree"}, settled \in BOOLEAN :
      \E limited \in Limits(n) :
        /\ Commit(n, handle_tree_announce(node[n], m, settled, limited), {m})
        /\ UNCHANGED world

ReceiveClientOnly(n, p) ==
    \E m \in {m \in net : m.to = n /\ m.from = p /\ m.type = "client"}, settled \in BOOLEAN :
        /\ Commit(n, Quietly(handle_client_only(node[n], m, settled)), {m})
        /\ UNCHANGED world

ReceiveSupport(n, p) ==
    \E m \in {m \in net : m.to = n /\ m.from = p /\ m.type = "support"}, settled \in BOOLEAN :
        /\ Commit(n, handle_client_support(node[n], m, settled), {m})
        /\ UNCHANGED world

\* The peers whose pending or due announcement goes out at once: all that may, or
\* with a free rate limit any of them.
Ready(n) ==
    LET due == (node[n].pending \cup (IF world.refresh THEN node[n].peers ELSE {})) \ Busy(n)
    IN  (IF world.prompt /\ ~world.refresh THEN {due} ELSE SUBSET due) \ {{}}

\* dispatch_tree_announces: what is pending, and what is due for a refresh.
Dispatch(n) ==
    \E ready \in Ready(n), settled \in BOOLEAN :
        /\ Commit(n, send_tree_announces(node[n], ready, settled, {}), {})
        /\ UNCHANGED world

Reevaluate(n) ==
    \E settled \in BOOLEAN, limited \in Limits(n) :
        /\ Commit(n, check_periodic_parent_reeval(node[n], settled, limited), {})
        /\ UNCHANGED world

Report(n) ==
    \E p \in node[n].peers, c \in world.costs \cup {0}, settled \in BOOLEAN, limited \in Limits(n) :
        /\ world.reports > 0
        /\ c # node[n].cost[p] \/ c = 0
        /\ node[n].cost[p] > 0 => c > 0
        /\ Commit(n, handle_receiver_report(node[n], p, c, settled, limited), {})
        /\ world' = [world EXCEPT !.reports = @ - 1]

\* Neighbours without a common session: one has lost the other or restarted.
Apart(n, p) ==
    \/ p \notin node[n].peers \/ node[n].seen[p] # node[p].epoch
    \/ n \notin node[p].peers \/ node[p].seen[n] # node[n].epoch

\* What p sent to n under keys that n no longer has.
Undecryptable(n, p) ==
    {m \in net : m.to = n /\ m.from = p /\ (p \notin node[n].peers \/ m.epoch # node[p].epoch)}

Promoted(n, p, mine, theirs) ==
    /\ mine.node.seq <= world.max_seq /\ theirs.node.seq <= world.max_seq
    /\ node' = [node EXCEPT ![n] = mine.node, ![p] = theirs.node]
    /\ net' = (net \ (Undecryptable(n, p) \cup Undecryptable(p, n)))
                  \cup mine.sent \cup theirs.sent

\* A handshake completes: both ends promote the connection, the responder first.
Handshake(n, p) ==
    \E settled \in BOOLEAN, limited \in Limits(n), limitedp \in Limits(p) :
        /\ n < p /\ p \in Neighbours(n) /\ Apart(n, p)
        /\ Promoted(n, p, promote_connection(node[n], p, node[p].epoch, settled, limited),
                          promote_connection(node[p], n, node[n].epoch, settled, limitedp))
        /\ UNCHANGED world

LinkDead(n) ==
    \E p \in node[n].peers, settled \in BOOLEAN :
        /\ world.cuts > 0
        /\ Commit(n, Quietly(mark_link_dead(node[n], p, settled)), {})
        /\ world' = [world EXCEPT !.cuts = @ - 1]

Depart(n) ==
    \E p \in node[n].peers, settled \in BOOLEAN :
        /\ world.cuts > 0
        /\ Commit(n, Quietly(remove_active_peer(node[n], p, settled)),
                  {m \in net : m.to = n /\ m.from = p})
        /\ world' = [world EXCEPT !.cuts = @ - 1]

Restart(n) ==
    /\ n \in Members /\ world.restarts > 0
    /\ node' = [node EXCEPT ![n] = NewState(n, node[n].epoch + 1, node[n].leaf_only)]
    /\ net' = {m \in net : m.to # n}
    /\ world' = [world EXCEPT !.restarts = @ - 1]

Lose ==
    \E m \in net :
        /\ world.losses > 0
        /\ net' = net \ {m}
        /\ world' = [world EXCEPT !.losses = @ - 1]
        /\ UNCHANGED node

NodeStep(n) ==
    \/ \E p \in Node : \/ ReceiveTree(n, p) \/ ReceiveClientOnly(n, p) \/ ReceiveSupport(n, p)
                       \/ Handshake(n, p)
    \/ Dispatch(n) \/ Reevaluate(n) \/ Report(n)
    \/ LinkDead(n) \/ Depart(n) \/ Restart(n)

Next == (\E n \in Node : NodeStep(n)) \/ Lose

Spec == Init /\ [][Next]_vars

\* The next periodic re-evaluation will have something to change.
CanImprove(n) == check_periodic_parent_reeval(node[n], FALSE, {}).node # node[n]

Arriving(n, p) == \E m \in net : m.to = n /\ m.from = p
Due(n, p) == p \in (node[n].pending \cup (IF world.refresh THEN node[n].peers ELSE {})) \ Busy(n)

Received(n, p) == \E m \in net \ net' : m.to = n /\ m.from = p
Announced(n, p) == \E m \in net' \ net : m.from = n /\ m.to = p

-----------------------------------------------------------------------------
Trees == {m \in net : m.type = "tree"}

\* What a node announces, its neighbours accept: no announcement in flight fails
\* validate_semantics, although the path in it was put together from what a chain
\* of other nodes announced at different times.
AnnouncementsAreValid == \A m \in Trees : ValidAnnounce(m)

\* A node's coordinates are its address before the path its parent announced last,
\* after every handler: no update of the parent is left unprocessed.
CoordsFollowParent ==
    \A n \in Node :
        LET s == node[n]
        IN  IF s.parent = n
            THEN s.coords = <<n>>
            ELSE s.parent \in s.peers \cap Known(s) /\ s.coords = <<n>> \o s.heard[s.parent].path

\* No node occurs twice in its own coordinates (the loop checks of evaluate_parent
\* and handle_tree_announce).
PathsAreSimple == \A n \in Node : IsInjective(node[n].coords)

\* A sequence number names one declaration: update_peer ignores an equal sequence
\* number, so what is in flight or held under a node's current one is its current path.
SequenceNamesPath ==
    \A n \in Node :
        LET s == node[n]
        IN  /\ \A m \in Trees : m.from = n /\ m.epoch = s.epoch /\ m.seq = s.seq =>
                                    m.parent = s.parent /\ m.path = s.coords
            /\ \A q \in Node : node[q].seen[n] = s.epoch /\ node[q].heard[n].seq = s.seq =>
                                    node[q].heard[n].path = s.coords

-----------------------------------------------------------------------------
(* Convergence *)

\* Every node has heard what its neighbours say now, and they have it as a
\* neighbour; it waits for no measurement, has nothing to change and owes nothing.
UpToDate(n) ==
    /\ node[n].pending = {}
    /\ Measured(node[n]) \in {{}, node[n].peers}
    /\ ~CanImprove(n)
    /\ \A p \in node[n].peers :
        /\ n \in node[p].peers /\ node[n].seen[p] = node[p].epoch
        /\ ~node[p].leaf => node[n].heard[p].path = node[p].coords

Silent == net = {} /\ \A n \in Node : UpToDate(n)

Routers == {n \in Node : ~node[n].leaf}

OneTree ==
    \A n \in Members : /\ node[n].peers = Neighbours(n)
                    /\ \A r \in Members : root(node[n]) <= r
                    /\ \A p \in node[n].peers : node[n].heard[p].path = node[p].coords

\* In a silent network every segment of routers has one tree: they have the same
\* root, which is a node that really is a root (not one that left the segment), and
\* no router with a smaller address is below it.
SilentMeansOneTree ==
    Silent => \A n \in Node :
        LET r == root(node[n])
        IN  /\ node[r].coords = <<r>>
            /\ n \in Routers => /\ r <= n
                                /\ \A p \in node[n].peers \cap Routers : root(node[p]) = r

\* A neighbour that declared itself a client carries nobody's traffic: it is not in
\* the tree of the node that knows it, so neither a parent nor a next hop.  In a
\* silent network every client is known as one, in whatever order its capability,
\* tree and role messages arrived.
ClientsAreNotTransit ==
    \A n \in Node : \A p \in node[n].peers :
        /\ node[n].role[p].client => p \notin Known(node[n]) /\ node[n].parent # p
        /\ Silent /\ node[p].leaf => node[n].role[p].client

\* In a silent network greedy forwarding takes every packet one hop closer to its
\* destination in the same segment, so it arrives.
SilentMeansRouted ==
    Silent => \A a, b \in Routers :
        a # b /\ root(node[a]) = root(node[b]) =>
            LET p == find_next_hop(node[a], node[b].coords)
            IN  /\ p # None
                /\ distance_to(node[p].coords, node[b].coords)
                       < distance_to(node[a].coords, node[b].coords)

\* Declarations are sound: a node's coordinates are a path without repetitions through
\* what its parent announced last, one sequence number names one such path, and what is
\* announced is what neighbours accept (validate_semantics, update_peer, set_parent).
DeclarationsAreSound ==
    AnnouncementsAreValid /\ CoordsFollowParent /\ PathsAreSimple /\ SequenceNamesPath

\* A network with nothing left to say has one tree per segment, in which greedy routing
\* (find_next_hop) comes closer to every destination with every hop.
SilentNetworkRoutes == SilentMeansOneTree /\ SilentMeansRouted
=============================================================================
