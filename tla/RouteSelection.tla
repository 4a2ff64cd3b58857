--------------------------- MODULE RouteSelection ---------------------------
(***************************************************************************)
(* Next-hop selection in tree routing mode (node/route_impl.rs), the       *)
(* coordinate cache it reads (cache/coord_cache.rs) and the choice of      *)
(* lookup peers (proto/lookup.rs), as operators on a node record:          *)
(*                                                                         *)
(*   addr, path    the address and my_coords, the path to the root         *)
(*   peers[p]      "none", "healthy" or "stale"; a stale peer can still    *)
(*                 be sent to, but carries no payload                      *)
(*   peerPath[p]   peer_ancestry[p], empty when the peer is not heard of   *)
(*   filter[p]     the addresses the inbound Bloom filter of p matches     *)
(*   coords[d]     the cached coordinates of d and whether they are the    *)
(*                 result of a verified lookup                             *)
(*                                                                         *)
(* All links cost the same, no peer is a client, nothing is bound to a     *)
(* source route and no direct path is degraded.  Entries of the cache do   *)
(* not reach their time to live and its capacity is not reached.           *)
(***************************************************************************)
EXTENDS Integers, SequencesExt

CONSTANT Node

Tree == INSTANCE TreeState

None == 0
Far  == 1000      \* usize::MAX, the distance between two trees

Uncached == [path |-> <<>>, verified |-> FALSE]

healthy(s, p)  == s.peers[p] = "healthy"
can_send(s, p) == s.peers[p] # "none"

root(s) == Last(s.path)

distance_to(a, b) ==
    IF a = <<>> \/ b = <<>> \/ Last(a) # Last(b) THEN Far ELSE Tree!distance_to(a, b)

(* A peer is a tree peer if it is our parent or declares us as its parent. *)
is_tree_peer(s, p) ==
    \/ Len(s.path) > 1 /\ s.path[2] = p
    \/ Len(s.peerPath[p]) > 1 /\ s.peerPath[p][2] = s.addr

(* The cached coordinates, or those of the root our own ancestry names. *)
get_dest_coords(s, d) ==
    IF s.coords[d].path # <<>> THEN s.coords[d].path
    ELSE IF d = root(s) THEN <<d>> ELSE <<>>

-----------------------------------------------------------------------------
(* The coordinate cache. *)

(* insert_hint and insert_with_path_mtu: a live verified entry rejects an  *)
(* unverified one.                                                         *)
insert_hint(s, d, path) ==
    IF s.coords[d].verified THEN s
    ELSE [s EXCEPT !.coords[d] = [path |-> path, verified |-> FALSE]]

insert_verified(s, d, path) ==
    [s EXCEPT !.coords[d] = [path |-> path, verified |-> TRUE]]

(* cache_current_root_coords takes a coordinate off a passing datagram if  *)
(* it names its owner and lies in the current tree.                        *)
cache_current_root_coords(s, d, path) ==
    IF Head(path) = d /\ Last(path) = root(s) THEN insert_hint(s, d, path) ELSE s

-----------------------------------------------------------------------------
(* Next hops. *)

(* The nearest of a set of peers strictly nearer to dest than we are, the  *)
(* smaller address first.                                                  *)
closer(s, p, dest) == distance_to(s.peerPath[p], dest) < distance_to(s.path, dest)

(* Without the strict comparison a peer as far away as we are will do. *)
nearest_NotStrict(s, among, dest) ==
    LET dist(p) == distance_to(s.peerPath[p], dest)
        best == {p \in among : dist(p) < Far}
    IN  IF best = {} THEN None
        ELSE CHOOSE p \in best : \A q \in best :
                dist(p) < dist(q) \/ (dist(p) = dist(q) /\ p <= q)

nearest(s, among, dest) ==
    LET best == {p \in among : closer(s, p, dest)}
        dist(p) == distance_to(s.peerPath[p], dest)
    IN  IF best = {} THEN None
        ELSE CHOOSE p \in best : \A q \in best :
                dist(p) < dist(q) \/ (dist(p) = dist(q) /\ p <= q)

select_tree_payload_candidate_avoiding(s, dest, d, direct, excluded) ==
    IF root(s) # Last(dest) THEN None
    ELSE nearest(s, {p \in Node \ {excluded} : healthy(s, p) /\ (p = d => direct)}, dest)

find_next_hop(s, d) ==
    LET dest  == get_dest_coords(s, d)
        bloom == {p \in Node : healthy(s, p) /\ d \in s.filter[p]}
    IN  IF d = s.addr THEN None
        ELSE IF healthy(s, d) THEN d
        ELSE IF dest = <<>> THEN None
        ELSE IF nearest(s, bloom, dest) # None THEN nearest(s, bloom, dest)
        ELSE select_tree_payload_candidate_avoiding(s, dest, d, FALSE, None)

(* plan_transit_next_hop, None for both NoRoute and Loop. *)
transit_via(s, d, previous, next, dest) ==
    LET progress == root(s) = Last(dest) /\ closer(s, next, dest)
    IN  IF next = None THEN None
        ELSE IF next = d /\ d # previous THEN d
        ELSE IF next # previous /\ (dest = <<>> \/ progress) THEN next
        ELSE IF dest = <<>> THEN None
        ELSE select_tree_payload_candidate_avoiding(s, dest, d, FALSE, previous)

plan_transit_next_hop(s, d, previous) ==
    IF d # previous /\ healthy(s, d) THEN d
    ELSE transit_via(s, d, previous, find_next_hop(s, d), get_dest_coords(s, d))

(* Application traffic needs coordinates the transit peers can use. *)
application_route_has_coordinates(s, d, next) ==
    \/ next = d
    \/ get_dest_coords(s, d) # <<>> /\ Last(get_dest_coords(s, d)) = root(s)

has_application_next_hop(s, d) ==
    LET next == find_next_hop(s, d)
    IN  next # None /\ application_route_has_coordinates(s, d, next)

(* resolve_session_handshake_runtime_route: a healthy direct peer, else    *)
(* one strict tree hop by the coordinates the message carries or, failing  *)
(* that, the cached ones, if they lie in our tree, else the ordinary hop.  *)
usable(s, d, path) == path # <<>> /\ Head(path) = d /\ Last(path) = root(s)

session_handshake_route(s, d, carried) ==
    LET dest == IF usable(s, d, carried) THEN carried ELSE s.coords[d].path
    IN  IF healthy(s, d) THEN d
        ELSE IF usable(s, d, dest)
             THEN select_tree_payload_candidate_avoiding(s, dest, d, FALSE, None)
             ELSE find_next_hop(s, d)

(* prepare_session_datagram_reply_runtime_route: the previous hop if it is *)
(* nearer to the source of the setup, else the nearest tree peer, else the *)
(* previous hop.                                                           *)
session_reply_route(s, previous, d, dest) ==
    LET tree == select_tree_payload_candidate_avoiding(s, dest, d, healthy(s, d), None)
    IN  IF closer(s, previous, dest) \/ tree = None THEN previous ELSE tree

-----------------------------------------------------------------------------
(* Lookup peers. *)

MayCarry(s, target, tree) ==
    {p \in Node : can_send(s, p) /\ target \in s.filter[p] /\ (is_tree_peer(s, p) <=> tree)}

plan_initiate_peers(s, target) == MayCarry(s, target, TRUE)

plan_forward_peers(s, from, target) ==
    LET tree == MayCarry(s, target, TRUE) \ {from}
    IN  IF tree # {} THEN tree ELSE MayCarry(s, target, FALSE) \ {from}

(* has_sendable_fallback_lookup_peer *)
has_fallback_peer(s, d) == \E p \in Node \ {d} : healthy(s, p)
=============================================================================
