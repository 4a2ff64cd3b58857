------------------------------ MODULE TreeState ------------------------------
(***************************************************************************)
(* The spanning-tree state of one node (proto/stp/state.rs) and what its    *)
(* handlers do to it (node/tree.rs), as operators on a record.  Addresses   *)
(* are numbers; the smallest one in a connected network is the root.        *)
(*                                                                          *)
(*   addr, epoch      the address and the startup epoch                     *)
(*   leaf_only        config.node.leaf_only: the node wants to be a client  *)
(*   leaf             is_leaf_only: the node acts as a client               *)
(*   parent, seq      my_declaration                                        *)
(*   coords           my_coords, the path from the node to its root         *)
(*   peers            the authenticated neighbours                          *)
(*   heard[p]         peer_declarations[p] and peer_ancestry[p]             *)
(*   role[p]          the routing role the peer p has declared              *)
(*   cost[p]          the measured link cost, 0 before the first RTT        *)
(*   pending          the peers that are owed an announcement               *)
(*                                                                          *)
(* Two inputs of the handlers stand for the clock.  `settled': neither the  *)
(* hold-down nor flap dampening suppresses an optional switch now.          *)
(* `limited': the peers to which an announcement cannot go out now, because *)
(* of the rate limit or because the send fails.                             *)
(***************************************************************************)
EXTENDS Integers, FiniteSets, Sequences, Functions

CONSTANT Node       \* the addresses, a set of positive numbers

ASSUME NodesArePositive == Node \subseteq Nat \ {0}

None == 0

NotHeard == [parent |-> None, seq |-> 0, path |-> <<>>]

NewRole == [seq |-> 0, client |-> FALSE, supported |-> FALSE, asked |-> FALSE]

\* TreeState::new
NewState(n, epoch, leaf_only) ==
    [addr |-> n, epoch |-> epoch, leaf_only |-> leaf_only, leaf |-> leaf_only,
     parent |-> n, seq |-> 1, coords |-> <<n>>, peers |-> {},
     heard |-> [p \in Node |-> NotHeard], role |-> [p \in Node |-> NewRole],
     cost |-> [p \in Node |-> 0], seen |-> [p \in Node |-> 0], pending |-> {}]

\* The root that a path leads to.
root_id(path) == path[Len(path)]

root(s) == root_id(s.coords)
is_root(s) == root(s) = s.addr

\* The peers with an entry in peer_ancestry.
Known(s) == {p \in Node : s.heard[p].path # <<>>}
peer_root(s, p) == root_id(s.heard[p].path)

VisibleRoots(s) == {peer_root(s, p) : p \in Known(s)}
smallest_visible_root(s) == CHOOSE r \in VisibleRoots(s) : \A q \in VisibleRoots(s) : r <= q

should_be_root(s) ==
    \/ Known(s) = {}
    \/ ~s.leaf /\ s.addr <= smallest_visible_root(s)

\* Mutant: no demotion of a node smaller than the root it would advertise.
RecomputeWithoutDemotion(s) ==
    IF s.parent = s.addr THEN [s EXCEPT !.coords = <<s.addr>>]
    ELSE IF s.parent \notin Known(s) THEN s
    ELSE [s EXCEPT !.coords = <<s.addr>> \o s.heard[s.parent].path]

recompute_coords(s) ==
    IF s.parent = s.addr
      THEN [s EXCEPT !.coords = <<s.addr>>]
    ELSE IF s.parent \notin Known(s)
      THEN s
    ELSE IF ~s.leaf /\ s.addr <= peer_root(s, s.parent)
      THEN [s EXCEPT !.parent = s.addr, !.coords = <<s.addr>>]
    ELSE [s EXCEPT !.coords = <<s.addr>> \o s.heard[s.parent].path]

set_parent(s, p, sequence) == [s EXCEPT !.parent = p, !.seq = sequence]

\* Mutants: the coordinates, or the sequence number, stay as they were.
AdoptWithoutRecompute(s, p) == set_parent(s, p, s.seq + 1)
AdoptWithoutSequence(s, p) == recompute_coords(set_parent(s, p, s.seq))

AdoptParent(s, p) == recompute_coords(set_parent(s, p, s.seq + 1))

become_root(s) == recompute_coords(set_parent(s, s.addr, s.seq + 1))

-----------------------------------------------------------------------------
(* Choosing a parent *)

\* dataplane_fmp_peer_costs
Measured(s) == {p \in s.peers : s.cost[p] > 0}

\* A peer without a measurement is a candidate only while nobody has one.
Candidates(s) ==
    {p \in Known(s) : /\ peer_root(s, p) = smallest_visible_root(s)
                      /\ s.addr \notin Range(s.heard[p].path)
                      /\ p \in Measured(s) \/ Measured(s) = {}}

EffectiveDepth(s, p) ==
    Len(s.heard[p].path) - 1 + (IF p \in Measured(s) THEN s.cost[p] ELSE 1)

Better(s, p, q) ==
    \/ EffectiveDepth(s, p) < EffectiveDepth(s, q)
    \/ EffectiveDepth(s, p) = EffectiveDepth(s, q) /\ p <= q

BestCandidate(s) == CHOOSE p \in Candidates(s) : \A q \in Candidates(s) : Better(s, p, q)

\* The default hysteresis of 0.2; an unmeasured parent among measured peers
\* counts as infinitely expensive.
MuchBetterThanParent(s, p) ==
    \/ Measured(s) # {} /\ s.parent \notin Measured(s)
    \/ 5 * EffectiveDepth(s, p) < 4 * EffectiveDepth(s, s.parent)

\* Mutant: a smaller root is left to cost and hold-down.
SwitchOnLossOnly(s) == is_root(s) \/ s.parent \notin Known(s)

MandatorySwitch(s) ==
    \/ is_root(s)
    \/ s.parent \notin Known(s)
    \/ smallest_visible_root(s) < root(s)

\* Whether a switch from the parent to p is due.
SwitchTo(s, p, settled) ==
    /\ p # s.parent \/ is_root(s)
    /\ MandatorySwitch(s) \/ (settled /\ MuchBetterThanParent(s, p))

IfSwitch(s, p, settled) == IF SwitchTo(s, p, settled) THEN p ELSE None

evaluate_parent(s, settled) ==
    IF \/ Known(s) = {}
       \/ ~s.leaf /\ s.addr <= smallest_visible_root(s)
       \/ Candidates(s) = {}
    THEN None
    ELSE IfSwitch(s, BestCandidate(s), settled)

AdoptOrRoot(s, p) == IF p # None THEN AdoptParent(s, p) ELSE become_root(s)

handle_parent_lost(s, settled) == AdoptOrRoot(s, evaluate_parent(s, settled))

-----------------------------------------------------------------------------
(* Greedy routing *)

\* Mutant: the paths are compared from the node's end.
SharedFromNode(a, b) ==
    CHOOSE k \in 0..Len(a) :
        /\ k <= Len(b)
        /\ \A i \in 1..k : a[i] = b[i]
        /\ k < Len(a) /\ k < Len(b) => a[k + 1] # b[k + 1]

\* The entries that two paths share, counted from the root.
Shared(a, b) ==
    CHOOSE k \in 0..Len(a) :
        /\ k <= Len(b)
        /\ \A i \in 0..(k - 1) : a[Len(a) - i] = b[Len(b) - i]
        /\ k < Len(a) /\ k < Len(b) => a[Len(a) - k] # b[Len(b) - k]

distance_to(a, b) == Len(a) + Len(b) - 2 * Shared(a, b)

\* A peer of another tree is infinitely far away.
Reaching(s, dest) == {p \in Known(s) : peer_root(s, p) = root_id(dest)}

Nearer(s, dest, p, q) ==
    LET dp == distance_to(s.heard[p].path, dest)
        dq == distance_to(s.heard[q].path, dest)
    IN  dp < dq \/ (dp = dq /\ p <= q)

find_next_hop(s, dest) ==
    IF root(s) # root_id(dest) \/ Reaching(s, dest) = {} THEN None
    ELSE LET best == CHOOSE p \in Reaching(s, dest) :
                        \A q \in Reaching(s, dest) : Nearer(s, dest, p, q)
         IN  IF distance_to(s.heard[best].path, dest) < distance_to(s.coords, dest)
             THEN best ELSE None

-----------------------------------------------------------------------------
(* Announcing.  A handler returns the new state and the messages it sends. *)

TreeAnnounce(s, p) == [type |-> "tree", from |-> s.addr, to |-> p, epoch |-> s.epoch,
                       parent |-> s.parent, seq |-> s.seq, path |-> s.coords]
ClientOnly(s, p) == [type |-> "client", from |-> s.addr, to |-> p, epoch |-> s.epoch, seq |-> s.seq]
ClientSupport(s, p) == [type |-> "support", from |-> s.addr, to |-> p, epoch |-> s.epoch]

\* What validate_semantics asks of an announcement.
ValidAnnounce(m) ==
    /\ Len(m.path) > 0
    /\ m.path[1] = m.from
    /\ IF m.parent = m.from THEN Len(m.path) = 1
                            ELSE Len(m.path) > 1 /\ m.path[2] = m.parent
    /\ \A i \in 1..Len(m.path) : root_id(m.path) <= m.path[i]

Quietly(s) == [node |-> s, sent |-> {}]

mark_all_tree_announces_pending(s) == [s EXCEPT !.pending = s.peers]

\* The role changes under a new sequence number; a new client needs a parent.
AdvanceRole(s, client) == recompute_coords([s EXCEPT !.leaf = client, !.seq = @ + 1])

KeepOrJoin(s, p) == IF p = None THEN s ELSE recompute_coords(set_parent(s, p, s.seq))

ClientJoins(s, settled) == IF s.leaf THEN KeepOrJoin(s, evaluate_parent(s, settled)) ELSE s

\* A configured client acts as one once every neighbour understands the role.
refresh_client_role(s, settled) ==
    LET client == s.leaf_only /\ \A p \in s.peers : s.role[p].supported
    IN  IF client = s.leaf THEN s
        ELSE mark_all_tree_announces_pending(ClientJoins(AdvanceRole(s, client), settled))

\* Mutant: a rate-limited announcement is dropped.
SendOrForget(s, targets, limited) ==
    [node |-> [s EXCEPT !.pending = @ \ targets],
     sent |-> {TreeAnnounce(s, p) : p \in (targets \cap s.peers) \ limited}]

\* A configured client first asks a neighbour whether it supports the role.
SendToEach(s, targets, limited) ==
    LET go == (targets \cap s.peers) \ limited
        asked == {p \in go : s.leaf_only /\ ~s.role[p].supported /\ ~s.role[p].asked}
        told == go \ asked
        supports == {p \in told : /\ ~s.leaf /\ ~s.role[p].client
                                  /\ s.leaf_only \/ s.role[p].supported}
    IN  [node |-> [s EXCEPT
             !.pending = (@ \cup (targets \cap s.peers)) \ told,
             !.role = [p \in Node |-> IF p \in asked THEN [@[p] EXCEPT !.asked = p \in Known(s)]
                                                     ELSE @[p]]],
         sent |-> {ClientSupport(s, p) : p \in asked \cup supports}
                  \cup {IF s.leaf THEN ClientOnly(s, p) ELSE TreeAnnounce(s, p) : p \in told}]

\* send_tree_announce_to_peer, for each of a set of peers.
send_tree_announces(s, targets, settled, limited) ==
    SendToEach(refresh_client_role(s, settled), targets, limited)

send_tree_announce_to_all(s, settled, limited) ==
    send_tree_announces(mark_all_tree_announces_pending(s), s.peers, settled, limited)

\* t is s, or what s becomes with a new declaration, which is then announced.
AnnounceChange(s, t, settled, limited) ==
    IF t = s THEN Quietly(s) ELSE send_tree_announce_to_all(t, settled, limited)

Reselected(s, p) ==
    IF p # None THEN AdoptParent(s, p)
    ELSE IF ~is_root(s) /\ should_be_root(s) THEN become_root(s)
    ELSE s

\* The common end of a re-evaluation: adopt the parent, or become the root.
Reselect(s, settled, limited) ==
    AnnounceChange(s, Reselected(s, evaluate_parent(s, settled)), settled, limited)

\* Mutant: a loop through the parent goes unnoticed.
UpdatedBlindly(s, looped, settled) == AdoptParent(s, s.parent)

Updated(s, looped, settled) ==
    IF looped THEN handle_parent_lost(s, settled) ELSE AdoptParent(s, s.parent)

AnnounceMove(s, t, looped, settled, limited) ==
    IF looped \/ t.coords # s.coords
    THEN send_tree_announce_to_all(t, settled, limited)
    ELSE Quietly(t)

\* The parent announced another path of its own and stays the parent.
ParentUpdated(s, settled, limited) ==
    LET looped == s.addr \in Range(s.heard[s.parent].path)
    IN  AnnounceMove(s, Updated(s, looped, settled), looped, settled, limited)

\* Mutant: roles carry no order.
NeverStale(s, m) == FALSE

\* A declaration of an older role, or of the tree role withdrawn since.
StaleRole(s, m) ==
    \/ m.seq < s.role[m.from].seq
    \/ m.seq = s.role[m.from].seq /\ (s.role[m.from].client = (m.type = "tree"))

update_peer(s, m) ==
    [s EXCEPT !.heard[m.from] = [parent |-> m.parent, seq |-> m.seq, path |-> m.path]]

\* The reaction to a new declaration of p.
React(s, p, settled, limited) ==
    IF /\ ~is_root(s) /\ s.parent = p
       /\ evaluate_parent(s, settled) = None /\ ~should_be_root(s)
    THEN ParentUpdated(s, settled, limited)
    ELSE Reselect(s, settled, limited)

\* The interval to p has just begun when something was pushed to it.
ReactAfter(pushed, p, settled, limited) ==
    LET Both(after) == [node |-> after.node, sent |-> pushed.sent \cup after.sent]
    IN  Both(React(pushed.node, p, settled,
                   IF pushed.sent = {} THEN limited ELSE limited \cup {p}))

handle_tree_announce(s, m, settled, limited) ==
    LET p == m.from
        updated == m.seq > s.heard[p].seq
        noted == [s EXCEPT !.role[p].seq = m.seq, !.role[p].client = FALSE]
        s1 == IF updated THEN update_peer(noted, m) ELSE noted
        repeat_to_parent == ~updated /\ p = s.parent /\ root_id(m.path) = root(s) /\ p \notin limited
        pushed == IF root_id(m.path) > root(s) \/ repeat_to_parent
                  THEN send_tree_announces(s1, {p}, settled, limited)
                  ELSE Quietly(s1)
    IN  IF p \notin s.peers \/ ~ValidAnnounce(m) \/ StaleRole(s, m)
          THEN Quietly(s)
        ELSE IF ~updated
          THEN pushed
        ELSE ReactAfter(pushed, p, settled, limited)

\* Mutant: what the peer had announced is kept.
CleanupKeepsPath(s, p, settled) ==
    IF ~is_root(s) /\ s.parent = p
    THEN mark_all_tree_announces_pending(handle_parent_lost(s, settled))
    ELSE s

\* The peer p leaves the tree: it died, restarted or became a client.
handle_peer_removal_tree_cleanup(s, p, settled) ==
    LET gone == [s EXCEPT !.heard[p] = NotHeard]
    IN  IF ~is_root(s) /\ s.parent = p
        THEN mark_all_tree_announces_pending(handle_parent_lost(gone, settled))
        ELSE gone

\* Mutant: a new client stays in the tree.
ClientOnlyKeepsPath(s, m, settled) ==
    IF m.from \notin s.peers \/ StaleRole(s, m) THEN s
    ELSE refresh_client_role([s EXCEPT !.role[m.from].seq = m.seq, !.role[m.from].client = TRUE,
                                       !.role[m.from].supported = TRUE], settled)

handle_client_only(s, m, settled) ==
    LET p == m.from
        Leave(t) == IF s.role[p].client THEN t
                    ELSE handle_peer_removal_tree_cleanup(t, p, settled)
    IN  IF p \notin s.peers \/ StaleRole(s, m) THEN s
        ELSE Leave(refresh_client_role(
                      [s EXCEPT !.role[p].seq = m.seq, !.role[p].client = TRUE,
                                !.role[p].supported = TRUE], settled))

handle_client_support(s, m, settled) ==
    LET p == m.from
        Answered(t) == [node |-> t, sent |-> IF s.leaf_only \/ s.role[p].client THEN {}
                                             ELSE {ClientSupport(t, p)}]
        Pend(t) == [t EXCEPT !.pending = @ \cup {p}]
    IN  IF p \notin s.peers \/ s.role[p].supported THEN Quietly(s)
        ELSE Answered(Pend(refresh_client_role([s EXCEPT !.role[p].supported = TRUE], settled)))

check_periodic_parent_reeval(s, settled, limited) ==
    IF Cardinality(s.peers) < 2 THEN Quietly(s) ELSE Reselect(s, settled, limited)

\* A ReceiverReport of p, with the link cost it yields (0: no RTT yet).
handle_receiver_report(s, p, c, settled, limited) ==
    LET first_rtt == s.cost[p] = 0 /\ c > 0
        theirs == IF p \in Known(s) THEN peer_root(s, p) ELSE p
        defer_initial_better_root == (first_rtt \/ c = 0) /\ theirs < root(s)
        disagree == p \notin Known(s) \/ theirs # root(s)
        s1 == [s EXCEPT !.cost[p] = c,
                        !.pending = IF disagree /\ ~defer_initial_better_root
                                    THEN @ \cup {p} ELSE @]
    IN  IF first_rtt THEN Reselect(s1, settled, limited) ELSE Quietly(s1)

\* mark_link_dead_peer_inner: the peer stays, its tree state goes.
mark_link_dead(s, p, settled) == handle_peer_removal_tree_cleanup(s, p, settled)

remove_active_peer(s, p, settled) ==
    handle_peer_removal_tree_cleanup(
        refresh_client_role(
            [s EXCEPT !.peers = @ \ {p}, !.role[p] = NewRole, !.cost[p] = 0,
                      !.pending = @ \ {p}], settled), p, settled)

\* Mutant: the sequence numbers of the former process stay.
KeepRoutingAfterRestart(s, p, settled) == s

reset_peer_routing_after_restart(s, p, settled) ==
    mark_all_tree_announces_pending(
        handle_peer_removal_tree_cleanup(
            refresh_client_role([s EXCEPT !.role[p] = NewRole], settled), p, settled))

\* A completed handshake with p in startup epoch e: promote_connection and the
\* announcement that complete_owned_msg2_bootstrap sends.
promote_connection(s, p, e, settled, limited) ==
    LET restarted == p \in s.peers /\ s.seen[p] # e
        Add(t) == [t EXCEPT !.peers = @ \cup {p}, !.seen[p] = e]
        Renew(t) == [t EXCEPT !.cost[p] = 0, !.pending = @ \ {p}]
    IN  send_tree_announces(
            Add(IF restarted THEN Renew(reset_peer_routing_after_restart(s, p, settled)) ELSE s),
            {p}, settled, limited)
=============================================================================
