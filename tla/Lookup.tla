------------------------------- MODULE Lookup -------------------------------
(***************************************************************************)
(* Coordinate discovery between nodes in tree routing mode, and the        *)
(* session bootstrap it serves: node/handlers/discovery.rs,                *)
(* discovery_lookup.rs, discovery/deferred_forward.rs, the transit path of *)
(* forwarding.rs and the queued traffic of session/node_datagram_tun.rs.   *)
(*                                                                         *)
(* A packet for an unknown destination is queued and a LookupRequest       *)
(* follows the Bloom filters down the tree; every transit node remembers   *)
(* who asked.  The target's LookupResponse retraces those records, leaves  *)
(* coordinates behind, and the origin sends a SessionSetup by coordinates, *)
(* which the target answers with a SessionAck and the origin with a        *)
(* SessionMsg3.                                                            *)
(*                                                                         *)
(* A node is a record; beside the fields of RouteSelection:                *)
(*   inc[p]       the incarnation of the link, link_id and authenticated_at*)
(*   recent, limiter, waiters, backoff[d]     see LookupTables             *)
(*   pending[d]   the PendingLookup, attempt 0 when there is none          *)
(*   queued       the destinations with pending session traffic            *)
(*   sess[d]      "none", "initiating", "awaiting" or "established"; the   *)
(*                role, the handshake hs, the ticks left to it or, once    *)
(*                established, the resends; whether one is due, and the    *)
(*                coordinates of the stored SessionAck                     *)
(*   ids          how many request ids this node has drawn                 *)
(*   tries        the same for handshakes, reused after Handshakes many    *)
(*   answered     the ids of the responses it has relayed (auxiliary)      *)
(* A handler returns the new record and the set of messages it sends.      *)
(* trail, the nodes a message has visited, and via, the trail of the       *)
(* request a response answers, are auxiliary.                              *)
(***************************************************************************)
EXTENDS LookupTables

CONSTANTS Worlds,     \* the scenarios
          Timeouts,   \* attempt_timeouts_secs, in ticks
          Handshake,  \* handshake_timeout_secs, in ticks
          Resends     \* handshake_max_resends once established

VARIABLES world, node, net

vars == <<world, node, net>>

NoLookup == [attempt |-> 0, left |-> 0, first |-> 0, ids |-> {}, recovery |-> FALSE]
NewLookup == [NoLookup EXCEPT !.attempt = 1, !.left = Timeouts[1]]
(* A handshake is told from the ones that may still be under way. *)
Handshakes == 3

NoSession == [state |-> "none", role |-> "none", hs |-> <<>>, left |-> 0, due |-> FALSE,
              mine |-> <<>>, theirs |-> <<>>]

Only(s) == [s |-> s, out |-> {}]

Visit(trail, n) == Append(trail, n)

-----------------------------------------------------------------------------
(* The originator. *)

Outstanding(s) == {d \in Node : s.pending[d].attempt > 0}

matches_origin_request(s, target, id) == id \in s.pending[target].ids

(* A retry that reuses the id of the first attempt. *)
initiate_lookup_SameId(s, d, lim) ==
    [s   |-> [s EXCEPT !.pending[d].ids = {<<s.addr, d>>},
                       !.pending[d].first = IF @ = 0 THEN s.pending[d].attempt ELSE @],
     out |-> {[kind |-> "req", from |-> s.addr, to |-> p, id |-> <<s.addr, d>>,
               origin |-> s.addr, target |-> d, ttl |-> lim.ttl,
               trail |-> <<s.addr>>] : p \in plan_initiate_peers(s, d)}]

(* initiate_lookup: a fresh id to every tree peer whose filter matches. *)
initiate_lookup(s, d, lim) ==
    LET id    == <<s.addr, s.ids>>
        peers == plan_initiate_peers(s, d)
    IN  IF peers = {}
        THEN Only(s)
        ELSE [s   |-> [s EXCEPT !.ids = @ + 1,
                                !.pending[d].ids = @ \cup {id},
                                !.pending[d].first = IF @ = 0 THEN s.pending[d].attempt ELSE @],
              out |-> {[kind |-> "req", from |-> s.addr, to |-> p, id |-> id,
                        origin |-> s.addr, target |-> d, ttl |-> lim.ttl,
                        trail |-> <<s.addr>>] : p \in peers}]

(* The part of maybe_initiate_lookup_with_purpose behind the admission. *)
start_lookup(s, d, recovery, lim) ==
    LET queued    == d \in s.queued
        reachable == \E p \in Node : can_send(s, p) /\ d \in s.filter[p]
        inserted  == [s EXCEPT !.pending[d] = [NewLookup EXCEPT !.recovery = recovery]]
        sent      == initiate_lookup(inserted, d, lim)
    IN  IF reachable
        THEN IF sent.out = {} /\ ~queued THEN Only(s) ELSE sent
        ELSE IF queued
             THEN Only(inserted)
             ELSE IF s.sess[d].state = "none"
                  THEN Only([s EXCEPT !.backoff[d] = record_failure(@, TRUE)])
                  ELSE Only(s)

(* A lookup in backoff may be retried once when reachability returns. *)
maybe_initiate_lookup(s, d, recovery, lim) ==
    IF s.pending[d].attempt > 0
    THEN Only([s EXCEPT !.pending[d].recovery = @ \/ recovery])
    ELSE IF Cardinality(Outstanding(s)) >= lim.pending
    THEN Only(s)
    ELSE IF ~is_suppressed(s.backoff[d])
    THEN start_lookup(s, d, recovery, lim)
    ELSE IF plan_initiate_peers(s, d) # {} /\ s.backoff[d].retry
    THEN start_lookup([s EXCEPT !.backoff[d].retry = FALSE], d, recovery, lim)
    ELSE Only(s)

maybe_initiate_path_recovery_lookup(s, d, lim) ==
    IF has_fallback_peer(s, d) THEN maybe_initiate_lookup(s, d, TRUE, lim) ELSE Only(s)

(* check_pending_lookups for one target whose attempt has timed out. *)
retry_lookup(s, d, lim) ==
    initiate_lookup([s EXCEPT !.pending[d].attempt = @ + 1,
                              !.pending[d].left = Timeouts[s.pending[d].attempt + 1]], d, lim)

fail_lookup(s, d) ==
    LET first == s.pending[d].first
    IN  [s EXCEPT !.pending[d] = NoLookup,
                  !.backoff[d] = record_failure(@, first = 0 \/ first > 1),
                  !.queued = @ \ {d}]

check_pending_lookup(s, d, lim) ==
    IF s.pending[d].attempt < Len(Timeouts)
    THEN retry_lookup(s, d, lim)
    ELSE IF s.sess[d].state # "none"
         THEN Only([s EXCEPT !.pending[d] = NoLookup])
         ELSE Only(fail_lookup(s, d))

(* resume_unsent_lookup_via_peer: queued lookups that could not be sent    *)
(* leave as soon as a healthy tree peer's filter matches.  At most one is  *)
(* outstanding at a node here.                                             *)
Resumable(s, p) ==
    {d \in Outstanding(s) : /\ s.pending[d].first = 0 /\ s.pending[d].left > 0
                            /\ d \in s.queued /\ d \in s.filter[p]
                            /\ is_tree_peer(s, p) /\ healthy(s, p)}

resume_unsent_lookup_via_peer(s, p, lim) ==
    IF Resumable(s, p) = {} THEN Only(s)
    ELSE initiate_lookup(s, CHOOSE d \in Resumable(s, p) : TRUE, lim)

-----------------------------------------------------------------------------
(* Sessions and queued traffic. *)

Datagram(s, kind, d, hop, hs, mine, theirs, lim) ==
    [kind |-> kind, from |-> s.addr, to |-> hop, src |-> s.addr, dest |-> d, hs |-> hs,
     srcPath |-> mine, destPath |-> theirs, ttl |-> lim.ttl, trail |-> <<s.addr>>]

(* The coordinates a setup carries; an unknown destination names itself. *)
SetupCoords(s, d) == IF get_dest_coords(s, d) = <<>> THEN <<d>> ELSE get_dest_coords(s, d)

SetupDatagram(s, d, hop, hs, lim) ==
    Datagram(s, "setup", d, hop, hs, s.path, SetupCoords(s, d), lim)

AckDatagram(s, d, hop, x, lim) == Datagram(s, "ack", d, hop, x.hs, x.mine, x.theirs, lim)

Msg3Datagram(s, d, hop, lim) == Datagram(s, "msg3", d, hop, s.sess[d].hs, <<>>, <<>>, lim)

setup_route(s, d) == session_handshake_route(s, d, SetupCoords(s, d))

(* initiate_session where it is not skipped and finds a route. *)
initiate_session(s, d, lim) ==
    LET hs == <<s.addr, s.tries>>
    IN  [s   |-> [s EXCEPT !.tries = (@ + 1) % Handshakes,
                           !.sess[d] = [NoSession EXCEPT !.state = "initiating", !.role = "init",
                                                         !.hs = hs, !.left = Handshake]],
         out |-> {SetupDatagram(s, d, setup_route(s, d), hs, lim)}]

(* retry_session_after_discovery *)
retry_session_after_discovery(s, d, lim) ==
    IF s.sess[d].state = "none" /\ setup_route(s, d) # None
    THEN initiate_session(s, d, lim)
    ELSE Only(s)

(* flush_pending_packets of an established session on the given next hop. *)
flush_pending_packets(s, d, hop, lim) ==
    IF d \notin s.queued
    THEN Only(s)
    ELSE IF hop # None /\ application_route_has_coordinates(s, d, hop)
    THEN Only([s EXCEPT !.queued = @ \ {d}])
    ELSE maybe_initiate_path_recovery_lookup(s, d, lim)

(* queue_dataplane_unrouted_tun_packet: a packet for d leaves the TUN. *)
queue_unrouted_packet(s, d, lim) ==
    LET q == [s EXCEPT !.queued = @ \cup {d}]
    IN  CASE s.sess[d].state = "established" ->
                 IF has_application_next_hop(s, d) THEN Only(s)
                 ELSE maybe_initiate_path_recovery_lookup(q, d, lim)
          [] s.sess[d].state \in {"initiating", "awaiting"} ->
                 IF find_next_hop(s, d) = None
                 THEN maybe_initiate_lookup(q, d, FALSE, lim)
                 ELSE Only(q)
          [] s.sess[d].state = "none" ->
                 IF find_next_hop(s, d) = None
                 THEN maybe_initiate_lookup(q, d, FALSE, lim)
                 ELSE IF setup_route(s, d) = None
                 THEN Only(s)          \* no loop-free route: the packet is dropped
                 ELSE initiate_session(q, d, lim)

(* resend_pending_session_handshakes for one stored payload.  Without a    *)
(* route for a setup the queued demand is rediscovered; the next pass      *)
(* tries again.                                                            *)
resend_setup(s, d, hop, lim) ==
    IF hop # None
    THEN [s |-> s, out |-> {SetupDatagram(s, d, hop, s.sess[d].hs, lim)}]
    ELSE IF d \in s.queued /\ find_next_hop(s, d) = None
    THEN maybe_initiate_lookup(s, d, FALSE, lim)
    ELSE Only(s)

resend_ack(s, d, hop, lim) ==
    [s |-> s, out |-> IF hop = None THEN {} ELSE {AckDatagram(s, d, hop, s.sess[d], lim)}]

resend_msg3(s, d, hop, lim) ==
    [s |-> s, out |-> IF hop = None THEN {} ELSE {Msg3Datagram(s, d, hop, lim)}]

resend_handshake(s, d, lim) ==
    CASE s.sess[d].state = "initiating" -> resend_setup(s, d, setup_route(s, d), lim)
      [] s.sess[d].role = "resp" ->
             resend_ack(s, d, session_handshake_route(s, d, s.sess[d].theirs), lim)
      [] OTHER -> resend_msg3(s, d, session_handshake_route(s, d, <<>>), lim)

(* purge of a timed-out handshake: the session goes, the traffic stays. *)
session_timeout(s, d, lim) ==
    LET gone == [s EXCEPT !.sess[d] = NoSession]
    IN  IF d \in s.queued
        THEN maybe_initiate_path_recovery_lookup(gone, d, lim)
        ELSE Only(gone)

-----------------------------------------------------------------------------
(* Transit of a LookupRequest. *)

(* defer_lookup_forward: one waiter per scope, for the admission and the   *)
(* link that brought the request.                                          *)
defer_lookup_forward(s, from, req, lim) ==
    LET scope   == ScopeOf(from, req)
        left    == deferred_deadline(s.limiter, scope, lim)
        rec     == s.recent.entries[req.id]
        expires == Expiry - rec.age
        waiter  == [scope |-> scope, req |-> req, gen |-> rec.gen, inc |-> s.inc[from],
                    due |-> Min({left, expires}), expires |-> expires]
    IN  IF /\ WaiterOf(s.waiters, scope) = {}
           /\ left # NoAge
           /\ healthy(s, from)
           /\ Known(s.recent, req.id)
           /\ rec.from = from /\ rec.target = req.target
           /\ ~rec.forwarded /\ rec.age <= Expiry
           /\ HasRoom(s.waiters, from, lim)
        THEN [s EXCEPT !.waiters = @ \cup {waiter}, !.recent = protect(@, req.id)]
        ELSE s

ForwardTo(s, req, peers) ==
    {[req EXCEPT !.from = s.addr, !.to = p, !.trail = Visit(req.trail, s.addr)] : p \in peers}

(* forward_ready_lookup_request.  `blocked': the peers to which the send   *)
(* fails.  A direct target gets the request alone; if that send fails the  *)
(* planned peers do.  noPeer: nothing was attempted or deferred.           *)
forward_ready_lookup_request(s, from, req, allow_deferral, blocked, lim) ==
    LET scope  == ScopeOf(from, req)
        plan   == plan_forward_peers(s, from, req.target)
        direct == req.target # from /\ can_send(s, req.target)
        spent  == [s EXCEPT !.limiter = Spent(@, scope, lim), !.recent = protect(@, req.id)]
        to     == IF direct /\ req.target \notin blocked THEN {req.target} ELSE plan \ blocked
    IN  IF ~direct /\ plan = {}
        THEN [s |-> s, out |-> {}, noPeer |-> TRUE]
        ELSE IF should_forward(s.limiter, scope, lim)
        THEN [s |-> spent, out |-> ForwardTo(s, req, to), noPeer |-> FALSE]
        ELSE [s |-> IF allow_deferral THEN defer_lookup_forward(s, from, req, lim) ELSE s,
              out |-> {}, noPeer |-> FALSE]

Settle(r, id) ==
    [s |-> IF r.noPeer THEN [r.s EXCEPT !.recent = Without(@, {id})] ELSE r.s, out |-> r.out]

(* forward_due_lookup_for_scope: a due waiter leaves the table and, if it  *)
(* still owns its admission and its link is the same, is forwarded.        *)
Owned(s, x) ==
    /\ Known(s.recent, x.req.id)
    /\ LET rec == s.recent.entries[x.req.id]
       IN  /\ rec.from = x.scope[1] /\ rec.target = x.scope[3]
           /\ rec.gen = x.gen /\ ~rec.forwarded /\ rec.age < Expiry
    /\ s.inc[x.scope[1]] = x.inc /\ healthy(s, x.scope[1])
    /\ x.expires > 0

forward_due_lookup(s, x, blocked, lim) ==
    LET taken == [s EXCEPT !.waiters = @ \ {x}]
    IN  IF Owned(s, x)
        THEN Settle(forward_ready_lookup_request(taken, x.scope[1], x.req, FALSE, blocked, lim),
                    x.req.id)
        ELSE Only(taken)

(* forward_lookup_request: the TTL is spent, then a due waiter of the same *)
(* scope goes first.                                                       *)
forward_lookup_request(s, from, req, blocked, lim) ==
    LET less  == [req EXCEPT !.ttl = @ - 1]
        due   == {x \in WaiterOf(s.waiters, ScopeOf(from, req)) : x.due = 0}
        first == IF due = {} THEN Only(s)
                 ELSE forward_due_lookup(s, CHOOSE x \in due : TRUE, blocked, lim)
        then  == Settle(forward_ready_lookup_request(first.s, from, less, TRUE, blocked, lim),
                        req.id)
    IN  [s |-> then.s, out |-> first.out \cup then.out]

(* An admitted request: answered by the target along the recorded hop,     *)
(* forwarded by anybody else while its TTL lasts.                          *)
serve_lookup_request(s, req, blocked, lim) ==
    IF req.target = s.addr
    THEN [s |-> s, out |-> {[kind |-> "resp", from |-> s.addr, to |-> s.recent.entries[req.id].from,
                             id |-> req.id, target |-> s.addr, path |-> s.path,
                             via |-> req.trail, trail |-> <<s.addr>>]}]
    ELSE IF req.ttl > 0 THEN forward_lookup_request(s, req.from, req, blocked, lim) ELSE Only(s)

(* handle_lookup_request, a set because of the eviction's tie-break.       *)
PeerCount(s) == Cardinality({p \in Node : can_send(s, p)})

handle_lookup_request(s, req, blocked, lim) ==
    LET purged   == [s EXCEPT !.recent = purge_expired(@)]
        admitted == record_request(purged.recent, req.id, req.from, req.target, lim, PeerCount(s))
    IN  IF matches_origin_request(s, req.target, req.id) \/ admitted = {}
        THEN {Only(purged)}
        ELSE {serve_lookup_request([purged EXCEPT !.recent = t], req, blocked, lim) : t \in admitted}

-----------------------------------------------------------------------------
(* A LookupResponse. *)

(* At a transit node: claim the reverse path, keep the coordinates if they *)
(* lie in our tree, and pass the response on.                              *)
relay_lookup_response(s, m) ==
    LET claimed == [s EXCEPT !.recent = claim_response_forward(@, m.id),
                             !.answered = @ \cup {m.id}]
        hinted  == IF Head(m.path) = m.target /\ Last(m.path) = root(s)
                   THEN insert_hint(claimed, m.target, m.path) ELSE claimed
    IN  [s |-> hinted,
         out |-> {[m EXCEPT !.from = s.addr, !.to = s.recent.entries[m.id].from,
                            !.trail = Visit(@, s.addr)]}]

(* At the origin: a foreign-root answer leaves the lookup pending unless   *)
(* the target itself answered on the direct route; otherwise the lookup is *)
(* over and the queued traffic gets its session, or is flushed.            *)
accept_lookup_response(s, m, lim) ==
    LET same  == Last(m.path) = root(s)
        fresh == IF same THEN insert_verified(s, m.target, m.path) ELSE s
        done  == [fresh EXCEPT !.backoff[m.target] = NoBackoff, !.pending[m.target] = NoLookup]
    IN  IF ~same /\ (m.from # m.target \/ find_next_hop(s, m.target) # m.target)
        THEN Only(s)
        ELSE IF m.target \notin s.queued
        THEN Only(done)
        ELSE IF s.sess[m.target].state = "established"
        THEN flush_pending_packets(done, m.target, find_next_hop(done, m.target), lim)
        ELSE retry_session_after_discovery(done, m.target, lim)

handle_lookup_response(s, m, lim) ==
    IF matches_origin_request(s, m.target, m.id)
    THEN accept_lookup_response([s EXCEPT !.recent = Without(@, {m.id})], m, lim)
    ELSE IF Claimable(s.recent, m.id, m.target) THEN relay_lookup_response(s, m) ELSE Only(s)

-----------------------------------------------------------------------------
(* Session datagrams. *)

(* try_warm_coord_cache_ref *)
warm_coord_cache(s, m) ==
    IF m.kind = "msg3" THEN s
    ELSE cache_current_root_coords(cache_current_root_coords(s, m.src, m.srcPath),
                                   m.dest, m.destPath)

(* handle_session_setup, as far as routing goes: of two crossed setups the *)
(* smaller address wins, a repeated one gets the stored answer.  For an    *)
(* established session it is the start of a rekey, see FspSession.         *)
become_responder(s, m, hop, lim) ==
    LET x == [state |-> "awaiting", role |-> "resp", hs |-> m.hs, left |-> Handshake,
              due |-> FALSE, mine |-> s.path, theirs |-> m.srcPath]
    IN  [s |-> [s EXCEPT !.sess[m.src] = x], out |-> {AckDatagram(s, m.src, hop, x, lim)}]

answer_setup(s, m, lim) ==
    LET x   == s.sess[m.src]
        hop == session_reply_route(s, m.from, m.src, m.srcPath)
    IN  IF x.state = "established" \/ (x.state = "initiating" /\ s.addr < m.src)
        THEN Only(s)
        ELSE IF x.state = "awaiting"
        THEN [s |-> s, out |-> {AckDatagram(s, m.src, hop, x, lim)}]
        ELSE become_responder(s, m, hop, lim)

(* The established owner starts on the hop that brought the message. *)
Established(s, d, role) ==
    [s EXCEPT !.sess[d].state = "established", !.sess[d].role = role,
              !.sess[d].left = Resends, !.sess[d].due = FALSE,
              !.pending[d] = NoLookup, !.backoff[d] = NoBackoff]

(* handle_session_ack: the answer to our handshake establishes the session *)
(* and SessionMsg3 leaves; only if it could be sent is the traffic         *)
(* flushed.  A repeated answer asks for SessionMsg3 again.                 *)
send_msg3_and_flush(up, m, hop, lim) ==
    IF hop = None
    THEN Only(up)
    ELSE LET r == flush_pending_packets(up, m.src, m.from, lim)
         IN  [s |-> r.s, out |-> r.out \cup {Msg3Datagram(up, m.src, hop, lim)}]

accept_ack(s, m, lim) ==
    LET x  == s.sess[m.src]
        up == Established(s, m.src, "init")
    IN  CASE x.state = "established" /\ x.role = "init" ->
                 resend_msg3(s, m.src, session_handshake_route(s, m.src, <<>>), lim)
          [] x.state = "initiating" /\ x.hs = m.hs ->
                 send_msg3_and_flush(up, m, session_handshake_route(up, m.src, <<>>), lim)
          [] OTHER -> Only(s)

(* handle_session_msg3: one of another handshake ends the half-open session. *)
accept_msg3(s, m, lim) ==
    IF s.sess[m.src].state # "awaiting" THEN Only(s)
    ELSE IF s.sess[m.src].hs # m.hs THEN Only([s EXCEPT !.sess[m.src] = NoSession])
    ELSE flush_pending_packets(Established(s, m.src, "resp"), m.src, m.from, lim)

deliver_locally(s, m, lim) ==
    CASE m.kind = "setup" -> answer_setup(s, m, lim)
      [] m.kind = "ack"   -> accept_ack(s, m, lim)
      [] m.kind = "msg3"  -> accept_msg3(s, m, lim)

(* prepare_session_datagram; without a route the datagram is dropped and   *)
(* the routing error it provokes finds no established session to repair.   *)
relay_datagram(s, m, next) ==
    IF next = None THEN Only(s)
    ELSE [s |-> s, out |-> {[m EXCEPT !.from = s.addr, !.to = next, !.ttl = @ - 1,
                                      !.trail = Visit(@, s.addr)]}]

prepare_session_datagram(s, m, lim) ==
    IF m.dest = s.addr THEN deliver_locally(s, m, lim)
    ELSE relay_datagram(s, m, plan_transit_next_hop(s, m.dest, m.from))

handle_session_datagram(s, m, lim) ==
    IF m.ttl = 0 THEN Only(s) ELSE prepare_session_datagram(warm_coord_cache(s, m), m, lim)

-----------------------------------------------------------------------------
(* A TreeAnnounce of a moved neighbour, as far as discovery is concerned: a *)
(* peer that becomes a tree peer releases the lookups that wait for one.   *)
handle_tree_announce(s, m, lim) ==
    LET heard == [s EXCEPT !.peerPath[m.from] = m.path]
    IN  IF ~is_tree_peer(s, m.from) /\ is_tree_peer(heard, m.from)
        THEN resume_unsent_lookup_via_peer(heard, m.from, lim)
        ELSE Only(heard)

-----------------------------------------------------------------------------
(* The system. *)

StartNode(w, n) ==
    [addr     |-> n,
     path     |-> w.path[n],
     peers    |-> [p \in Node |-> IF {n, p} \in w.links THEN "healthy" ELSE "none"],
     inc      |-> [p \in Node |-> 0],
     peerPath |-> [p \in Node |-> IF {n, p} \in w.links THEN w.path[p] ELSE <<>>],
     filter   |-> [p \in Node |-> {e.dest : e \in {f \in w.filters : f.at = n /\ f.via = p}}],
     coords   |-> [d \in Node |-> Uncached],
     recent   |-> EmptyRecent,
     limiter  |-> FreshLimiter(w.lim),
     waiters  |-> {},
     backoff  |-> [d \in Node |-> NoBackoff],
     pending  |-> [d \in Node |-> NoLookup],
     queued   |-> {},
     sess     |-> [d \in Node |-> NoSession],
     ids      |-> 0,
     tries    |-> 0,
     answered |-> {}]

Init ==
    /\ world \in Worlds
    /\ node = [n \in Node |-> StartNode(world, n)]
    /\ net = {}

(* Node n takes the result r of a handler. *)
Take(n, r, rest) ==
    /\ node' = [node EXCEPT ![n] = r.s]
    /\ net' = rest \cup r.out

(* The application of n has a packet for d. *)
Send ==
    \E e \in world.sends :
        /\ Take(e.at, queue_unrouted_packet(node[e.at], e.dest, world.lim), net)
        /\ world' = [world EXCEPT !.sends = @ \ {e}]

(* A link only carries what its two ends can exchange. *)
Arriving(kinds) ==
    {m \in net : m.kind \in kinds /\ can_send(node[m.to], m.from)}

(* Authenticated traffic refreshes a stale link before it is handled. *)
touch(s, p) == [s EXCEPT !.peers[p] = "healthy"]

(* In the worlds with failing sends a request may fail to reach any of the *)
(* chosen peers.                                                           *)
Blocked == IF world.fails > 0 THEN {{}, {p \in Node : TRUE}} \cup {{p} : p \in Node} ELSE {{}}

SpendFail(b) == IF b = {} THEN world ELSE [world EXCEPT !.fails = @ - 1]

ReceiveRequest ==
    \E m \in Arriving({"req"}), b \in Blocked :
        /\ \E r \in handle_lookup_request(touch(node[m.to], m.from), m, b, world.lim) : Take(m.to, r, net \ {m})
        /\ world' = SpendFail(b)

ReceiveResponse ==
    \E m \in Arriving({"resp"}) :
        /\ Take(m.to, handle_lookup_response(touch(node[m.to], m.from), m, world.lim), net \ {m})
        /\ UNCHANGED world

ReceiveDatagram ==
    \E m \in Arriving({"setup", "ack", "msg3"}) :
        /\ Take(m.to, handle_session_datagram(touch(node[m.to], m.from), m, world.lim), net \ {m})
        /\ UNCHANGED world

ReceiveAnnounce ==
    \E m \in Arriving({"tree"}) :
        /\ Take(m.to, handle_tree_announce(touch(node[m.to], m.from), m, world.lim), net \ {m})
        /\ UNCHANGED world

(* check_discovery_work *)
CheckLookup ==
    \E n \in Node : \E d \in Outstanding(node[n]) :
        /\ node[n].pending[d].left = 0
        /\ Take(n, check_pending_lookup(node[n], d, world.lim), net)
        /\ UNCHANGED world

ForwardDue ==
    \E n \in Node : \E x \in node[n].waiters, b \in Blocked :
        /\ x.due = 0
        /\ Take(n, forward_due_lookup(node[n], x, b, world.lim), net)
        /\ world' = SpendFail(b)

Resend ==
    \E n \in Node, d \in Node :
        /\ node[n].sess[d].due
        /\ Take(n, resend_handshake([node[n] EXCEPT !.sess[d].due = FALSE], d, world.lim), net)
        /\ UNCHANGED world

SessionTimeout ==
    \E n \in Node, d \in Node :
        /\ node[n].sess[d].state \in {"initiating", "awaiting"} /\ node[n].sess[d].left = 0
        /\ Take(n, session_timeout(node[n], d, world.lim), net)
        /\ UNCHANGED world

(* retry_pending_session_traffic *)
RetryTraffic ==
    \E n \in Node : \E d \in node[n].queued :
        /\ node[n].sess[d].state = "established"
        /\ find_next_hop(node[n], d) # None
        /\ Take(n, flush_pending_packets(node[n], d, find_next_hop(node[n], d), world.lim), net)
        /\ UNCHANGED world

-----------------------------------------------------------------------------
(* Time.  In a prompt world no time passes while there is work to do.      *)

AgeLookup(p) == IF p.attempt = 0 THEN p ELSE [p EXCEPT !.left = Less(@)]

(* A responder's half-open session that never times out. *)
AgeSession_InitiatorOnly(x) ==
    [x EXCEPT !.left = IF x.state = "awaiting" THEN @ ELSE Less(@),
              !.due = x.left > IF x.state = "established" THEN 0 ELSE Handshake \div 2]

(* The resend intervals double: the last falls at half the handshake timeout. *)
AgeSession(x) ==
    [x EXCEPT !.left = Less(@),
              !.due = x.left > IF x.state = "established" THEN 0 ELSE Handshake \div 2]

AgeNode(s, lim) ==
    [s EXCEPT !.recent  = AgeRecent(@),
              !.limiter = AgeLimiter(@, lim),
              !.waiters = AgeWaiters(@),
              !.backoff = [d \in Node |-> [@[d] EXCEPT !.left = Less(@)]],
              !.pending = [d \in Node |-> AgeLookup(@[d])],
              !.sess    = [d \in Node |-> AgeSession(@[d])]]

Busy(s) ==
    \/ \E d \in Node : \/ s.pending[d].attempt > 0 /\ s.pending[d].left = 0
                       \/ s.sess[d].state \in {"initiating", "awaiting"} /\ s.sess[d].left = 0
                       \/ s.sess[d].due
    \/ \E x \in s.waiters : x.due = 0

Tick ==
    /\ world.prompt => (net = {} /\ \A n \in Node : ~Busy(node[n]))
    /\ world.ticks > 0
    /\ node' = [n \in Node |-> AgeNode(node[n], world.lim)]
    /\ node' # node
    /\ world' = IF world.prompt THEN world ELSE [world EXCEPT !.ticks = @ - 1]
    /\ UNCHANGED net

(* The environment: a message is lost, a filter or a link changes, a leaf  *)
(* takes a new place in the tree.                                          *)
Lose ==
    /\ world.losses > 0
    /\ \E m \in net :
        /\ m.kind # "tree"
        /\ net' = net \ {m}
        /\ world' = [world EXCEPT !.losses = @ - 1]
    /\ UNCHANGED node

FilterArrives ==
    \E e \in world.late :
        /\ LET heard == [node[e.at] EXCEPT !.filter[e.via] = @ \cup {e.dest}]
           IN  Take(e.at, resume_unsent_lookup_via_peer(heard, e.via, world.lim), net)
        /\ world' = [world EXCEPT !.late = @ \ {e}]

(* A peer refresh prunes the endpoint behind a link: its direct path is    *)
(* marked stale at one end, its place in the tree and its filter stay.     *)
LinkStale ==
    \E e \in world.stale :
        /\ node' = [node EXCEPT ![e.at].peers[e.via] = "stale"]
        /\ world' = [world EXCEPT !.stale = @ \ {e}]
        /\ UNCHANGED net

(* A new handshake replaces the link at both ends, which ends the backoff  *)
(* and loses what was in flight.                                           *)
Relinked(s, p) ==
    [s EXCEPT !.peers[p] = "healthy", !.inc[p] = @ + 1, !.backoff = [d \in Node |-> NoBackoff]]

LinkReplaced ==
    \E e \in world.relink :
        /\ node' = [node EXCEPT ![e.at] = Relinked(@, e.via), ![e.via] = Relinked(@, e.at)]
        /\ net' = {m \in net : {m.from, m.to} # {e.at, e.via}}
        /\ world' = [world EXCEPT !.relink = @ \ {e}]

(* invalidate_tree_coordinates and the announcements of the new place. *)
Move ==
    \E e \in world.moves :
        /\ node' = [node EXCEPT ![e.at].path = e.path,
                                ![e.at].coords = [d \in Node |-> Uncached],
                                ![e.at].backoff = [d \in Node |-> NoBackoff]]
        /\ net' = net \cup {[kind |-> "tree", from |-> e.at, to |-> p, path |-> e.path] :
                                p \in {q \in Node : can_send(node[e.at], q)}}
        /\ world' = [world EXCEPT !.moves = @ \ {e}]

Next ==
    \/ Send \/ ReceiveRequest \/ ReceiveResponse \/ ReceiveDatagram \/ ReceiveAnnounce
    \/ CheckLookup \/ ForwardDue \/ Resend \/ SessionTimeout \/ RetryTraffic
    \/ Tick \/ Lose \/ FilterArrives \/ LinkStale \/ LinkReplaced \/ Move

(* The event loops run and links deliver: packets are handed over, what is *)
(* in flight arrives or is lost, due work is done, and then time passes.   *)
Flushable(s) ==
    \E d \in s.queued : s.sess[d].state = "established" /\ has_application_next_hop(s, d)

Fairness ==
    /\ <>(world.sends = {})
    /\ []<>(net = {})
    /\ []<>(\A n \in Node : ~Busy(node[n]) /\ ~Flushable(node[n]))
    /\ WF_vars(Tick)

Spec == Init /\ [][Next]_vars /\ Fairness

-----------------------------------------------------------------------------
(* Properties. *)

(* The recent-request table of RecentDiscoveryRequests: by_peer lists every *)
(* entry exactly once, under its ingress peer and in order of admission;   *)
(* the table and the share of each ingress keep their bounds; a protected  *)
(* entry is unanswered; the oldest-timestamp hint never hides an expired   *)
(* entry; and a deferred forward whose admission is still there and still  *)
(* unanswered holds it protected from eviction.                            *)
RecentTableSound ==
    \A n \in Node :
        LET t == node[n].recent
        IN  /\ Cardinality(DOMAIN t.entries) <= world.lim.recent
            /\ \A p \in Node : ToSet(t.byPeer[p]) = {i \in DOMAIN t.entries : t.entries[i].from = p}
            /\ \A p \in Node : \A i, j \in DOMAIN t.byPeer[p] :
                    i < j => t.entries[t.byPeer[p][i]].gen < t.entries[t.byPeer[p][j]].gen
            /\ \A i \in DOMAIN t.entries :
                    /\ t.entries[i].age <= t.oldest
                    /\ t.entries[i].protected => ~t.entries[i].forwarded
            /\ \A x \in node[n].waiters :
                    (Known(t, x.req.id) /\ t.entries[x.req.id].gen = x.gen) =>
                        (t.entries[x.req.id].protected \/ t.entries[x.req.id].forwarded)

(* Every transit node behind a LookupRequest in flight has relayed an      *)
(* answer to it or still remembers the hop it came from, protected from    *)
(* eviction, whatever other requests record_request admitted meanwhile;    *)
(* and a LookupResponse retraces, hop by hop, the very request it answers, *)
(* although duplicates of that request reached the same nodes by other     *)
(* ways.                                                                   *)
HeldFor(id, trail) ==
    \A i \in 2..Len(trail) :
        LET t == node[trail[i]].recent
        IN  \/ id \in node[trail[i]].answered
            \/ Known(t, id) /\ t.entries[id].from = trail[i - 1] /\ t.entries[id].protected

ReversePathsHeld ==
    \A m \in net :
        /\ m.kind = "req" => HeldFor(m.id, m.trail)
        /\ m.kind = "resp" =>
             \A i \in 2..Len(m.trail) : m.trail[i] = m.via[Len(m.via) - i + 2]

(* The way back of every request is kept: the table of recent requests is  *)
(* sound, and no admission evicts what an answer still needs.              *)
WaysBackAreKept == RecentTableSound /\ ReversePathsHeld

(* While the tree stands still no request, response or session datagram    *)
(* visits a node twice, also where a stale link makes plan_transit_next_hop*)
(* look for another way.                                                   *)
NothingLoops ==
    world.still =>
        \A m \in net : m.kind # "tree" => Cardinality(ToSet(m.trail)) = Len(m.trail)

(* Nothing that discovery starts outlives its purpose, whether or not the  *)
(* destination can be reached: lookups end in an answer or in a failure,   *)
(* deferred forwards leave, and no end keeps a half-open handshake that    *)
(* the other has given up.                                                 *)
AtRest(s) ==
    /\ Outstanding(s) = {}
    /\ s.waiters = {}
    /\ \A d \in Node : s.sess[d].state \in {"none", "established"}

DiscoveryRests == world.prompt => <>[](\A n \in Node : AtRest(node[n]))

(* In the worlds where the target stays reachable and the faults stay      *)
(* within what the retries cover, every packet ends in a session that both *)
(* ends have established by the same handshake, with nothing left queued.  *)
Bootstrapped ==
    /\ world.sends = {}
    /\ \A n \in Node : node[n].queued = {}
    /\ \A e \in world.goal :
            LET x == node[e[1]].sess[e[2]]
                y == node[e[2]].sess[e[1]]
            IN  x.state = "established" /\ y.state = "established" /\ x.hs = y.hs

SessionsBootstrap == world.reach => <>[]Bootstrapped
=============================================================================
