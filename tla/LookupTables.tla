---------------------------- MODULE LookupTables ----------------------------
(***************************************************************************)
(* The bounded tables of coordinate discovery, as operators on values:     *)
(*                                                                         *)
(*   - the recent-request table of proto/lookup_state.rs, which is at once *)
(*     duplicate suppression and the reverse path of a LookupResponse;     *)
(*   - the forwarding limiter of proto/lookup_limits.rs;                   *)
(*   - the deferred forwards of node/handlers/discovery/deferred_forward.rs*)
(*   - the originator's backoff of proto/lookup_limits.rs.                 *)
(*                                                                         *)
(* Time is kept relative: a record carries its age and a cooldown or a     *)
(* deadline the ticks that remain.  Capacities come from a record `lim`.   *)
(***************************************************************************)
EXTENDS RouteSelection, FiniteSets

CONSTANTS Expiry,       \* recent_expiry_secs, in ticks
          Interval,     \* forward_min_interval_secs, in ticks
          BackoffBase,  \* backoff_base_secs, in ticks
          BackoffMax    \* backoff_max_secs, in ticks

ASSUME LookupTimes ==
    /\ {Expiry, Interval, BackoffBase, BackoffMax} \subseteq Nat
    /\ Interval < Expiry

(***************************************************************************)
(* The recent-request table.  entries is a function from the ids present   *)
(* to their records, byPeer the arrival order of each ingress peer, gen    *)
(* the last admission generation and oldest the age of the oldest          *)
(* timestamp noted since the last purge (NoAge when there is none).        *)
(***************************************************************************)
NoAge == -1

EmptyRecent == [entries |-> [i \in {} |-> 0], byPeer |-> [p \in Node |-> <<>>],
                gen |-> 0, oldest |-> NoAge]

Known(t, id) == id \in DOMAIN t.entries

Unprotected(t, p) == SelectSeq(t.byPeer[p], LAMBDA i : ~t.entries[i].protected)

(* Dropping a set of ids from the entries and from the arrival order. *)
Without(t, ids) ==
    [t EXCEPT !.entries = [i \in DOMAIN @ \ ids |-> t.entries[i]],
              !.byPeer = [p \in Node |-> SelectSeq(@[p], LAMBDA i : i \notin ids)]]

(* The table after the oldest unprotected id of each victim was evicted.   *)
(* At capacity the victim is a peer with the longest queue among those     *)
(* with something to evict; the order of a HashMap breaks the tie.         *)
evict_oldest(t, p) == Without(t, {Head(Unprotected(t, p))})

Victims(t, from, over_share) ==
    LET open == {p \in Node : Unprotected(t, p) # <<>>}
    IN  IF over_share
        THEN {from} \cap open
        ELSE {p \in open : \A q \in open : Len(t.byPeer[q]) <= Len(t.byPeer[p])}

Admit(t, id, from, target) ==
    [entries |-> [i \in DOMAIN t.entries \cup {id} |->
                    IF i = id
                    THEN [gen |-> t.gen + 1, from |-> from, target |-> target, age |-> 0,
                          forwarded |-> FALSE, protected |-> FALSE]
                    ELSE t.entries[i]],
     byPeer  |-> [t.byPeer EXCEPT ![from] = Append(@, id)],
     gen     |-> t.gen + 1,
     oldest  |-> IF t.oldest = NoAge THEN 0 ELSE t.oldest]

(* A duplicate that is taken for a new request moves the reverse path. *)
record_request_Again(t, id, from, target, lim, peer_count) ==
    {Admit(Without(t, {id}), id, from, target)}

(* The tables record_request may leave behind when it accepts; the empty   *)
(* set when it refuses, because the id is known or nothing can be evicted. *)
record_request(t, id, from, target, lim, peer_count) ==
    LET share      == Max({lim.recent \div Max({peer_count, 1}), 1})
        over_share == Len(t.byPeer[from]) >= share
        at_capacity == Cardinality(DOMAIN t.entries) >= lim.recent
    IN  IF Known(t, id) \/ lim.recent = 0
        THEN {}
        ELSE IF over_share \/ at_capacity
             THEN {Admit(evict_oldest(t, p), id, from, target) : p \in Victims(t, from, over_share)}
             ELSE {Admit(t, id, from, target)}

(* protect keeps an unanswered reverse path from eviction. *)
protect_Nothing(t, id) == t

protect(t, id) ==
    IF Known(t, id) /\ ~t.entries[id].forwarded
    THEN [t EXCEPT !.entries[id].protected = TRUE]
    ELSE t

(* claim_response_forward: at most one response takes the reverse path. *)
Claimable(t, id, target) ==
    Known(t, id) /\ t.entries[id].target = target /\ ~t.entries[id].forwarded

claim_response_forward_Keep(t, id) ==
    [t EXCEPT !.entries[id].forwarded = TRUE]

claim_response_forward(t, id) ==
    [t EXCEPT !.entries[id].forwarded = TRUE, !.entries[id].protected = FALSE]

(* purge_expired scans only when the oldest noted timestamp has expired.   *)
purge_expired(t) ==
    LET gone == {i \in DOMAIN t.entries : t.entries[i].age > Expiry}
        kept == {t.entries[i].age : i \in DOMAIN t.entries \ gone}
    IN  IF t.oldest <= Expiry
        THEN t
        ELSE [Without(t, gone) EXCEPT !.oldest = IF kept = {} THEN NoAge ELSE Max(kept)]

(* A tick of the clock; ages beyond Expiry are not told apart. *)
Older(a) == IF a = NoAge THEN a ELSE Min({a + 1, Expiry + 1})

AgeRecent(t) ==
    [t EXCEPT !.entries = [i \in DOMAIN @ |-> [@[i] EXCEPT !.age = Older(@)]],
              !.oldest = Older(@)]

(***************************************************************************)
(* DiscoveryForwardRateLimiter.  last holds the scopes, an ingress, an     *)
(* origin and a target, in the order of their last forward with the        *)
(* cooldown left; tokens are the ingress budgets.                          *)
(***************************************************************************)
FreshLimiter(lim) == [last |-> <<>>, tokens |-> [p \in Node |-> lim.burst]]

ScopeOf(from, req) == <<from, req.origin, req.target>>

Cooldown(l, scope) ==
    LET at == {i \in DOMAIN l.last : l.last[i].scope = scope}
    IN  IF at = {} THEN NoAge ELSE l.last[CHOOSE i \in at : TRUE].left

(* decision_for_origin_at says yes. *)
should_forward(l, scope, lim) ==
    /\ Cooldown(l, scope) <= 0
    /\ (Cooldown(l, scope) = NoAge /\ Len(l.last) >= lim.scopes) =>
            (l.last # <<>> /\ Head(l.last).left = 0)
    /\ l.tokens[scope[1]] > 0

(* The limiter once it said yes: the token spent, the oldest scope         *)
(* reclaimed when a new one finds the table full.                          *)
Spent(l, scope, lim) ==
    LET reclaimed == IF Cooldown(l, scope) = NoAge /\ Len(l.last) >= lim.scopes
                     THEN Tail(l.last)
                     ELSE l.last
    IN  [last   |-> Append(SelectSeq(reclaimed, LAMBDA e : e.scope # scope),
                           [scope |-> scope, left |-> Interval]),
         tokens |-> [l.tokens EXCEPT ![scope[1]] = @ - 1]]

(* deferred_deadline: the ticks until the scope, or the oldest scope of a  *)
(* full table, is free again; NoAge when waiting would not help.           *)
deferred_deadline(l, scope, lim) ==
    LET left == IF Cooldown(l, scope) # NoAge
                THEN Cooldown(l, scope)
                ELSE IF Len(l.last) >= lim.scopes /\ l.last # <<>>
                     THEN Head(l.last).left
                     ELSE 0
    IN  IF left = 0 \/ l.tokens[scope[1]] = 0 THEN NoAge ELSE left

Less(n) == IF n > 0 THEN n - 1 ELSE n

(* A tick: cooldowns run and each ingress earns a token back. *)
AgeLimiter(l, lim) ==
    [last   |-> [i \in DOMAIN l.last |-> [l.last[i] EXCEPT !.left = Less(@)]],
     tokens |-> [p \in Node |-> Min({l.tokens[p] + 1, lim.burst})]]

(***************************************************************************)
(* Deferred forwards: a set of waiters, one per scope, each holding the    *)
(* request, the admission and the link it waits for, and two deadlines.    *)
(***************************************************************************)
WaiterOf(ws, scope) == {x \in ws : x.scope = scope}

HasRoom(ws, from, lim) ==
    /\ Cardinality(ws) < lim.waiters
    /\ Cardinality({x \in ws : x.scope[1] = from}) < lim.peerWaiters

AgeWaiters(ws) == {[x EXCEPT !.due = Less(@), !.expires = Less(@)] : x \in ws}

(***************************************************************************)
(* DiscoveryBackoff, one entry per target.                                 *)
(***************************************************************************)
NoBackoff == [failures |-> 0, left |-> 0, retry |-> FALSE]

(* record_failure and, with delayed, record_delayed_failure. *)
record_failure(b, delayed) ==
    [failures |-> Min({b.failures + 1, 3}),
     left     |-> Min({BackoffBase * 2 ^ b.failures, BackoffMax}),
     retry    |-> delayed]

is_suppressed(b) == b.left > 0
=============================================================================
