------------------------------- MODULE Gateway -------------------------------
(***************************************************************************)
(* The LAN gateway (fips-gateway): hosts without FIPS software ask its DNS  *)
(* server for a name, get a virtual address of a pool and send their        *)
(* traffic there; NAT rules translate it to the mesh address of the node.   *)
(*                                                                         *)
(* Four parts share the pool and one channel of events: the DNS task, the   *)
(* task that ticks the pool every ten seconds on a reading of the kernel's  *)
(* connection table, the event loop that owns the NAT table, and the kernel *)
(* with the LAN's clients.  The runtime has one thread: a task runs until   *)
(* it must wait, the pool's lock is never contended, and what waits are the *)
(* upstream query, the reading and a send into a full channel.  Waiting     *)
(* senders are served in their order.                                       *)
(*                                                                         *)
(* A unit of time is the pool's tick interval.                              *)
(***************************************************************************)
EXTENDS Integers, Sequences, FiniteSets, Functions

CONSTANTS
    Targets,    \* the mesh nodes the LAN may ask for
    Addresses,  \* the pool: the first so many addresses of its prefix
    Used,       \* those whose answers and flows are followed
    Ceiling,    \* most live mappings
    Burst,      \* the token bucket of new mappings
    Ttl,        \* of a DNS answer, and of an idle mapping
    Grace,      \* how long a mapping drains
    Capacity,   \* of the channel of pool events
    Stall       \* bound: the units a sender waits, and a reading is old when used

\* The addresses are numbered in the order in which they are first given out.  A sender
\* that waits, or a reading that is late, is so for less than a host may hold an answer,
\* and for at most half the time a mapping drains.
ASSUME GatewayAssumption ==
    /\ IsFiniteSet(Targets) /\ "none" \notin Targets
    /\ IsFiniteSet(Addresses) /\ Addresses = 1 .. Cardinality(Addresses)
    /\ {Capacity, Ttl, Grace, Stall} \subseteq Nat /\ Stall <= Ttl /\ 2 * Stall <= Grace + 1

None == "none"

\* A node without a mapping, and a host without an answer.
Free == [vip |-> 0, state |-> "Free", idle |-> 0, drained |-> 0]
NoAnswer == [vip |-> 0, age |-> 0]

VARIABLES
    pool,       \* [available, mappings, tokens]: VirtualIpPool
    dns,        \* the node whose new mapping the DNS task waits to report, or None
    ticker,     \* [pc, snapshot, out, due]: the tick task
    chan,       \* the channel of pool events
    waiters,    \* the tasks waiting to send, in their order
    nat,        \* address -> node of the installed rules, or None
    status,     \* "up", or why the event loop ended
    lan,        \* [cache, conns]: the answers hosts hold and the flows they run
    late        \* [dns, read]: the units that passed since the wait or the reading

gvars == <<pool, dns, ticker, chan, waiters, nat, status, lan, late>>

Mapped == {n \in Targets : pool.mappings[n] # Free}

with_limits ==
    [available |-> [v \in Addresses |-> v], mappings |-> [n \in Targets |-> Free], tokens |-> Burst]

GatewayInit ==
    /\ pool = with_limits
    /\ dns = None
    /\ ticker = [pc |-> "idle", snapshot |-> {}, out |-> <<>>, due |-> FALSE]
    /\ chan = <<>> /\ waiters = <<>>
    /\ nat = [v \in Addresses |-> None]
    /\ status = "up"
    /\ lan = [cache |-> [n \in Targets |-> NoAnswer], conns |-> {}]
    /\ late = [dns |-> 0, read |-> 0]

-----------------------------------------------------------------------------
(***************************************************************************)
(* The pool.  A mapping has an address, a state, the time since it was last *)
(* referenced and the time it has drained.                                  *)
(***************************************************************************)
\* Mutant: a renewal does not end the draining.
refresh_keeping_drain(m) == [m EXCEPT !.idle = 0]

refresh_at(m) ==
    [m EXCEPT !.idle = 0, !.drained = 0, !.state = IF @ = "Draining" THEN "Allocated" ELSE @]

\* The new mapping's address comes off the front; nothing is refused to a name that
\* is already mapped.
Admits == Cardinality(Mapped) < Ceiling /\ pool.tokens > 0 /\ pool.available # <<>>

allocate_at(n) ==
    [available |-> Tail(pool.available),
     mappings  |-> [pool.mappings EXCEPT
                      ![n] = [vip |-> Head(pool.available), state |-> "Allocated",
                              idle |-> 0, drained |-> 0]],
     tokens    |-> pool.tokens - 1]

\* What a tick that sees the sessions makes of a mapping.
Aged(m, sessions) ==
    CASE sessions -> [m EXCEPT !.idle = 0, !.drained = 0, !.state = "Active"]
      [] ~sessions /\ m.state # "Draining" /\ m.idle > Ttl -> [m EXCEPT !.state = "Draining"]
      [] OTHER -> m

\* Mutant: an idle mapping is reclaimed without draining.
expired_when_idle(m, sessions) == ~sessions /\ m.idle > Ttl

Expired(m, sessions) == ~sessions /\ m.state = "Draining" /\ m.drained > Grace

\* Mutant: reclaimed addresses are the next to be given out.
push_front(available, freed) == [i \in DOMAIN freed |-> freed[Len(freed) + 1 - i]] \o available

push_back(available, freed) == available \o freed

\* The orders in which a set may be listed.
Listings(S) == Bijection(1 .. Cardinality(S), S)

\* freed lists the nodes whose mappings end, in the order of the map's iteration.
tick(snapshot, freed) ==
    [available |-> push_back(pool.available,
                             [i \in DOMAIN freed |-> pool.mappings[freed[i]].vip]),
     mappings  |-> [n \in Targets |->
                      IF n \notin Mapped \/ n \in Range(freed) THEN Free
                      ELSE Aged(pool.mappings[n], pool.mappings[n].vip \in snapshot)],
     tokens    |-> pool.tokens]

-----------------------------------------------------------------------------
(***************************************************************************)
(* The channel: an event goes in when there is room and nobody waits.       *)
(***************************************************************************)
Room == IF waiters = <<>> THEN Capacity - Len(chan) ELSE 0

MappingCreated(n, v) == [kind |-> "created", node |-> n, vip |-> v]
MappingRemoved(v) == [kind |-> "removed", node |-> None, vip |-> v]

\* The host holds the answer for its TTL.
Answered(n, v) ==
    IF n \in Used THEN [lan EXCEPT !.cache[n] = [vip |-> v, age |-> 0]] ELSE lan

(***************************************************************************)
(* handle_query: a query the daemon resolved to node n.  One it did not     *)
(* resolve, and a refused one, changes nothing.                             *)
(***************************************************************************)
Query(n) ==
    /\ status = "up" /\ dns = None
    /\ \/ /\ n \in Mapped
          /\ pool' = [pool EXCEPT !.mappings[n] = refresh_at(@)]
          /\ lan' = Answered(n, pool.mappings[n].vip)
          /\ UNCHANGED <<dns, chan, waiters>>
       \/ /\ n \notin Mapped /\ Admits
          /\ pool' = allocate_at(n)
          /\ IF Room > 0
             THEN /\ chan' = Append(chan, MappingCreated(n, Head(pool.available)))
                  /\ lan' = Answered(n, Head(pool.available))
                  /\ UNCHANGED <<dns, waiters>>
             ELSE /\ dns' = n
                  /\ waiters' = Append(waiters, "dns")
                  /\ UNCHANGED <<chan, lan>>
    /\ UNCHANGED <<ticker, nat, status, late>>

\* A query that is not for an IPv6 address renews a mapping and creates none.
QueryOther(n) ==
    /\ status = "up" /\ dns = None /\ n \in Mapped
    /\ pool' = [pool EXCEPT !.mappings[n] = refresh_at(@)]
    /\ UNCHANGED <<dns, ticker, chan, waiters, nat, status, lan, late>>

-----------------------------------------------------------------------------
(***************************************************************************)
(* The tick task.  The connection table is read on another thread; a        *)
(* reading that fails ends the turn.                                        *)
(***************************************************************************)
read_conntrack ==
    /\ status = "up" /\ ticker.pc = "idle" /\ ticker.due
    /\ \/ ticker' = [ticker EXCEPT !.pc = "read", !.due = FALSE,
                                   !.snapshot = {c.vip : c \in lan.conns}]
       \/ ticker' = [ticker EXCEPT !.due = FALSE]
    /\ UNCHANGED <<pool, dns, chan, waiters, nat, status, lan, late>>

PoolTick ==
    /\ status = "up" /\ ticker.pc = "read"
    /\ \E freed \in Listings(
                      {n \in Mapped : Expired(pool.mappings[n],
                                              pool.mappings[n].vip \in ticker.snapshot)}) :
         LET events == [i \in DOMAIN freed |-> MappingRemoved(pool.mappings[freed[i]].vip)]
             sent == IF Room < Len(events) THEN Room ELSE Len(events)
             left == SubSeq(events, sent + 1, Len(events))
         IN  /\ pool' = tick(ticker.snapshot, freed)
             /\ chan' = chan \o SubSeq(events, 1, sent)
             /\ ticker' = [ticker EXCEPT !.pc = IF left = <<>> THEN "idle" ELSE "sending",
                                         !.snapshot = {}, !.out = left]
             /\ waiters' = IF left = <<>> THEN waiters ELSE Append(waiters, "tick")
    /\ late' = [late EXCEPT !.read = 0]
    /\ UNCHANGED <<dns, nat, status, lan>>

-----------------------------------------------------------------------------
(***************************************************************************)
(* The event loop.  Each event rebuilds the kernel's table in one           *)
(* transaction; when the kernel refuses it, or the rules to be removed are  *)
(* not there, the gateway stops and cleans up.                              *)
(***************************************************************************)
rebuild(event) == [nat EXCEPT ![event.vip] = event.node]

\* The slot that was freed goes to the first waiter, which sends; the tick task
\* queues again behind the others for its next event.
Granted(rest) ==
    IF waiters = <<>>
    THEN chan' = rest /\ UNCHANGED <<waiters, dns, ticker, lan, late>>
    ELSE IF Head(waiters) = "dns"
    THEN LET v == pool.mappings[dns].vip
         IN  /\ chan' = Append(rest, MappingCreated(dns, v))
             /\ waiters' = Tail(waiters)
             /\ lan' = Answered(dns, v)
             /\ dns' = None
             /\ late' = [late EXCEPT !.dns = 0]
             /\ UNCHANGED ticker
    ELSE LET left == Tail(ticker.out)
         IN  /\ chan' = Append(rest, Head(ticker.out))
             /\ waiters' = Tail(waiters) \o (IF left = <<>> THEN <<>> ELSE <<"tick">>)
             /\ ticker' = [ticker EXCEPT !.out = left,
                                         !.pc = IF left = <<>> THEN "idle" ELSE "sending"]
             /\ UNCHANGED <<dns, lan, late>>

RuleNotFound(event) == event.kind = "removed" /\ nat[event.vip] = None

Recv ==
    /\ status = "up" /\ chan # <<>> /\ ~RuleNotFound(Head(chan))
    /\ nat' = rebuild(Head(chan))
    /\ Granted(Tail(chan))
    /\ UNCHANGED <<pool, status>>

\* The gateway stops: its tasks are aborted and its table is deleted.
Stop ==
    /\ status = "up" /\ chan # <<>>
    /\ status' = IF RuleNotFound(Head(chan)) THEN "rule not found" ELSE "kernel refused"
    /\ nat' = [v \in Addresses |-> None]
    /\ UNCHANGED <<pool, dns, ticker, chan, waiters, lan, late>>

-----------------------------------------------------------------------------
(***************************************************************************)
(* The LAN and the clock.                                                   *)
(***************************************************************************)
\* A host opens a flow to the address of an answer it still holds.
Open(n) ==
    /\ status = "up" /\ lan.cache[n] # NoAnswer
    /\ lan' = [lan EXCEPT !.conns = @ \cup {[node |-> n, vip |-> lan.cache[n].vip]}]
    /\ UNCHANGED <<pool, dns, ticker, chan, waiters, nat, status, late>>

\* The kernel forgets a flow that has ended or timed out.
Close(c) ==
    /\ status = "up"
    /\ lan' = [lan EXCEPT !.conns = @ \ {c}]
    /\ UNCHANGED <<pool, dns, ticker, chan, waiters, nat, status, late>>

Older(age, bound) == IF age > bound THEN age ELSE age + 1

OlderMapping(m) ==
    IF m = Free THEN Free
    ELSE [m EXCEPT !.idle = Older(@, Ttl),
                   !.drained = IF m.state = "Draining" THEN Older(@, Grace) ELSE @]

\* An answer that is older than its TTL is forgotten.
OlderAnswer(a) == IF a = NoAnswer \/ a.age = Ttl THEN NoAnswer ELSE [a EXCEPT !.age = @ + 1]

\* Bucket::refill: the rate refills the bucket within a unit.
Tick ==
    /\ status = "up"
    /\ dns # None => late.dns < Stall
    /\ ticker.pc = "read" => late.read < Stall
    /\ late' = [dns |-> IF dns # None THEN late.dns + 1 ELSE 0,
                read |-> IF ticker.pc = "read" THEN late.read + 1 ELSE 0]
    /\ pool' = [pool EXCEPT !.tokens = Burst,
                            !.mappings = [n \in Targets |-> OlderMapping(@[n])]]
    /\ lan' = [lan EXCEPT !.cache = [n \in Targets |-> OlderAnswer(@[n])]]
    /\ ticker' = [ticker EXCEPT !.due = TRUE]
    /\ UNCHANGED <<dns, chan, waiters, nat, status>>

GatewayNext ==
    \/ \E n \in Targets : Query(n) \/ QueryOther(n) \/ Open(n)
    \/ \E c \in lan.conns : Close(c)
    \/ read_conntrack \/ PoolTick \/ Recv \/ Stop \/ Tick

GatewaySpec == GatewayInit /\ [][GatewayNext]_gvars

-----------------------------------------------------------------------------
\* The tasks that report changes of the pool have nothing left to report.
Settled == status = "up" /\ chan = <<>> /\ waiters = <<>>

\* The rules follow the pool: an address is free or of one mapping, the events of an
\* address reach the event loop in the order of the pool's changes although two tasks
\* send them after releasing the pool, so that once nothing is in flight every mapping
\* has its rules and no other address has any, and no rules are missing when they are
\* to be removed (which would end the gateway).  It rests on addresses being reused in
\* the order in which their removals are reported, and on waiting senders being served
\* in their order.
TranslationFollowsPool ==
    /\ \A v \in Addresses :
         Cardinality({i \in DOMAIN pool.available : pool.available[i] = v})
           + Cardinality({n \in Mapped : pool.mappings[n].vip = v}) = 1
    /\ Settled => \A v \in Addresses, n \in Targets :
         nat[v] = n <=> n \in Mapped /\ pool.mappings[n].vip = v
    /\ status # "rule not found"

\* An address that a host may use stays with its node: as long as an answer is within
\* its TTL, and as long as a flow that was opened with one is in the kernel's table, the
\* pool has the mapping the answer named.  The tick decides on a reading that may be
\* older than the flow; what protects the flow is that a mapping ends only by a second
\* tick, a grace period after the first one found it idle.
UsedAddressesStay ==
    status = "up" =>
      /\ \A n \in Targets : lan.cache[n] # NoAnswer =>
           n \in Mapped /\ pool.mappings[n].vip = lan.cache[n].vip
      /\ \A c \in lan.conns : c.node \in Mapped /\ pool.mappings[c.node].vip = c.vip
=============================================================================
