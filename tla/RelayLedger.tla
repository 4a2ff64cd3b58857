---------------------------- MODULE RelayLedger ----------------------------
(***************************************************************************)
(* The accounting of a paid relay, in memory: neighbour channels, the      *)
(* forwarding contracts that share their credit, and the history of the    *)
(* channels that were retired (fips-relay: ledger.rs and ledger/).         *)
(*                                                                         *)
(* Every operation of RelayLedger runs under its state mutex and is one    *)
(* operator here: a predicate Can... for the checks before the first       *)
(* assignment, and the ledger it leaves.  Terms and contracts are immutable *)
(* in the code; an identifier stands here for its terms.  Amounts stay far *)
(* below 2^64, so the checked additions do not fail.                       *)
(***************************************************************************)
EXTENDS Integers, FiniteSets, FiniteSetsExt, Functions, TLC

CONSTANTS
    Terms,    \* [channel -> [buyer, mint, expires, capacity, grace]]
    Quotes,   \* [contract -> [channel, destination, expires, msat, per, max_units, billing]],
              \* billing in {"legacy", "attempt", "data"}
    Limits,   \* [max_channels, max_contracts, max_packets, max_pending]
    Sat       \* millisatoshi in a satoshi: 1000 in the code

Channels == DOMAIN Terms
Contracts == DOMAIN Quotes
Relation(c) == <<Terms[c].buyer, Terms[c].mint>>
Relations == {Relation(c) : c \in Channels}

\* saturating_sub and div_ceil
Less(a, b) == IF a > b THEN a - b ELSE 0
DivCeil(a, b) == (a + b - 1) \div b

Legacy(k) == Quotes[k].billing = "legacy"

NoUnits == [reserved |-> 0, submitted |-> 0, unconfirmed |-> 0]
NoRoutes == [through |-> 0, contracts |-> 0, units |-> NoUnits, reserved |-> 0, submitted |-> 0]
NoSpend == [reserved |-> 0, submitted |-> 0, lost |-> 0, paid |-> 0]
NoHistory == [channels |-> 0, through |-> 0, capacity |-> 0, usage |-> NoSpend,
              routes |-> NoRoutes, debts |-> [r \in Relations |-> 0]]

EmptyLedger == [channels |-> <<>>, accounts |-> <<>>, history |-> NoHistory,
                seen |-> {}, pending |-> {}, next_token |-> 0]

Without(f, S) == Restrict(f, DOMAIN f \ S)

-----------------------------------------------------------------------------
(* Amounts *)

amount_due_msat(k, units) == DivCeil(units * Quotes[k].msat, Quotes[k].per)

validate_channel(c) == Terms[c].capacity # 0 /\ Terms[c].grace <= Terms[c].capacity * Sat

validate_contract(k) ==
    /\ Quotes[k].max_units # 0
    /\ Quotes[k].msat # 0
    /\ Quotes[k].expires <= Terms[Quotes[k].channel].expires

Debt(usage) == Less(usage.reserved, usage.paid)

\* Unpaid exposure of the other channels of the relation, retired ones included.
Carried(l, c) ==
    l.history.debts[Relation(c)]
      + MapThenSumSet(LAMBDA d : Debt(l.channels[d].usage),
                      {d \in DOMAIN l.channels \ {c} : Relation(d) = Relation(c)})

relationship_reservation_limit_without_history(l, c, paid) ==
    Min({Terms[c].capacity * Sat, paid + Terms[c].grace})

relationship_reservation_limit(l, c, paid) ==
    Min({Terms[c].capacity * Sat, Less(paid + Terms[c].grace, Carried(l, c))})

-----------------------------------------------------------------------------
(* Evidence of retired routes *)

rejects(routes, expiry) == routes.contracts # 0 /\ expiry <= routes.through

SumUnits(u, v) == [f \in DOMAIN u |-> u[f] + v[f]]

merged(r, s) ==
    [through   |-> Max({r.through, s.through}),
     contracts |-> r.contracts + s.contracts,
     units     |-> SumUnits(r.units, s.units),
     reserved  |-> r.reserved + s.reserved,
     submitted |-> r.submitted + s.submitted]

\* The evidence one contract leaves: rounded by itself, as before its retirement.
RouteOf(k, units) ==
    [through |-> Quotes[k].expires, contracts |-> 1, units |-> units,
     reserved |-> amount_due_msat(k, units.reserved),
     submitted |-> amount_due_msat(k, units.submitted)]

RoutesValid(routes, channel_expiry) ==
    IF routes.contracts = 0 THEN routes = NoRoutes
    ELSE /\ routes.through <= channel_expiry
         /\ routes.units.submitted + routes.units.unconfirmed = routes.units.reserved
         /\ routes.submitted <= routes.reserved

-----------------------------------------------------------------------------
(* Channels and contracts *)

OfChannel(l, c) == {k \in DOMAIN l.accounts : Quotes[k].channel = c}
ActiveOf(l, c) == {k \in OfChannel(l, c) : l.accounts[k].active}

\* Opening or adding again what is there is accepted and changes nothing.
CanOpen(l, c, paid) ==
    /\ validate_channel(c)
    /\ paid <= Terms[c].capacity * Sat
    /\ IF c \in DOMAIN l.channels
       THEN paid <= l.channels[c].usage.paid
       ELSE LET others == {d \in DOMAIN l.channels : Relation(d) = Relation(c)}
                unpaid == \/ l.history.debts[Relation(c)] > 0
                          \/ \E d \in others : Debt(l.channels[d].usage) > 0
            IN /\ l.history.channels # 0 => Terms[c].expires > l.history.through
               /\ \A d \in others : ~l.channels[d].active
               /\ ~(unpaid /\ relationship_reservation_limit(l, c, paid) = 0)
               /\ Cardinality(DOMAIN l.channels) < Limits.max_channels

\* (in f @@ g the values of f win)
open_channel_verified(l, c, paid) ==
    [l EXCEPT !.channels = @ @@ (c :> [usage |-> [NoSpend EXCEPT !.paid = paid],
                                       retired |-> NoRoutes, active |-> TRUE])]

CanAddContract(l, k) ==
    LET c == Quotes[k].channel
    IN /\ c \in DOMAIN l.channels
       /\ validate_contract(k)
       /\ ~rejects(l.channels[c].retired, Quotes[k].expires)
       /\ k \in DOMAIN l.accounts \/
            /\ l.channels[c].active
            /\ ~\E a \in DOMAIN l.accounts :
                  /\ l.accounts[a].active
                  /\ Quotes[a].destination = Quotes[k].destination
                  /\ Terms[Quotes[a].channel].buyer = Terms[c].buyer
            /\ Cardinality(DOMAIN l.accounts) < Limits.max_contracts

add_contract(l, k) ==
    [l EXCEPT !.accounts = @ @@ (k :> [usage |-> NoUnits, completed |-> NoUnits,
                                       attempts |-> {}, active |-> TRUE])]

CanApplyBalance(l, c, paid) ==
    /\ c \in DOMAIN l.channels
    /\ paid >= l.channels[c].usage.paid
    /\ paid <= Terms[c].capacity * Sat

apply_verified_balance(l, c, paid) == [l EXCEPT !.channels[c].usage.paid = paid]

close_contract(l, k) == [l EXCEPT !.accounts[k].active = FALSE]

close_channel_alone(l, c) == [l EXCEPT !.channels[c].active = FALSE]

close_channel(l, c) ==
    [l EXCEPT !.channels[c].active = FALSE,
              !.accounts = [k \in DOMAIN @ |->
                  IF Quotes[k].channel = c THEN [@[k] EXCEPT !.active = FALSE] ELSE @[k]]]

Pending(a) == {x \in a.attempts : x.state = "pending"}
UnitsOf(attempts) == MapThenSumSet(LAMBDA x : x.units, attempts)

Unconfirmed(attempts) == {[x EXCEPT !.state = IF @ = "pending" THEN "unconfirmed" ELSE @] : x \in attempts}

SealedAccount(k, a) ==
    LET usage == [a.usage EXCEPT !.unconfirmed = @ + UnitsOf(Pending(a))]
    IN [a EXCEPT !.usage = usage,
                 !.completed = IF Legacy(k) THEN @ ELSE usage,
                 !.attempts = IF Legacy(k) THEN Unconfirmed(@) ELSE {}]

\* A seal that freezes the claim and forgets that a token is still to be completed.
seal_channel_keep_tokens(l, c) ==
    [close_channel(l, c) EXCEPT
        !.accounts = [k \in DOMAIN @ |->
            IF Quotes[k].channel = c THEN SealedAccount(k, @[k]) ELSE @[k]]]

seal_channel(l, c) ==
    [close_channel(l, c) EXCEPT
        !.accounts = [k \in DOMAIN @ |->
            IF Quotes[k].channel = c THEN SealedAccount(k, @[k]) ELSE @[k]],
        !.pending = {p \in @ : Quotes[p.account].channel # c}]

-----------------------------------------------------------------------------
(* Retirement of routes and of channels *)

RetiredPrefix(l, c, through) == {k \in OfChannel(l, c) : Quotes[k].expires <= through}

\* uninstalled: agreements of the channel that never became accounts
CanRetireRoutes(l, c, through, uninstalled) ==
    /\ c \in DOMAIN l.channels
    /\ \A k \in RetiredPrefix(l, c, through) :
          ~l.accounts[k].active /\ ~Legacy(k) /\ l.accounts[k].attempts = {}
    /\ \A k \in uninstalled :
          /\ validate_contract(k)
          /\ Quotes[k].channel = c /\ Quotes[k].expires <= through /\ ~Legacy(k)
          /\ k \notin DOMAIN l.accounts

retire_closed_routes(l, c, through, uninstalled) ==
    LET gone == RetiredPrefix(l, c, through)
        fenced == {k \in uninstalled : ~rejects(l.channels[c].retired, Quotes[k].expires)}
        add(k, r) == merged(r, RouteOf(k, IF k \in gone THEN l.accounts[k].usage ELSE NoUnits))
    IN [l EXCEPT !.accounts = Without(@, gone),
                 !.channels[c].retired = FoldSet(add, @, gone \cup fenced)]

HistoryWith(h, c, saved) ==
    [channels |-> h.channels + 1,
     through  |-> Max({h.through, Terms[c].expires}),
     capacity |-> h.capacity + Terms[c].capacity,
     usage    |-> SumUnits(h.usage, saved.usage),
     routes   |-> merged(h.routes, saved.retired),
     debts    |-> [h.debts EXCEPT ![Relation(c)] = @ + Debt(saved.usage)]]

HistoryValid(h) ==
    IF h.channels = 0 THEN h = NoHistory
    ELSE LET debt == MapThenSumSet(LAMBDA r : h.debts[r], Relations)
             owing == Cardinality({r \in Relations : h.debts[r] # 0})
         IN /\ owing <= Limits.max_channels /\ owing <= h.channels
            /\ h.channels <= h.capacity
            /\ h.through # 0
            /\ Max({h.usage.paid, h.usage.reserved}) <= h.capacity * Sat
            /\ RoutesValid(h.routes, h.through)
            /\ h.routes.reserved + h.usage.lost = h.usage.reserved
            /\ h.routes.submitted = h.usage.submitted
            /\ debt <= h.usage.reserved
            /\ debt >= Less(h.usage.reserved, h.usage.paid)

CanPlanRetirement(l, c, now) ==
    /\ c \in DOMAIN l.channels
    /\ ~l.channels[c].active
    /\ Terms[c].expires < now
    /\ OfChannel(l, c) = {}

channel_retirement_plan(l, c) ==
    [channel |-> c, saved |-> l.channels[c], before |-> l.history,
     after |-> HistoryWith(l.history, c, l.channels[c])]

PlanValid(p) ==
    LET u == p.saved.usage
        routes == p.saved.retired
    IN /\ ~p.saved.active
       /\ RoutesValid(routes, Terms[p.channel].expires)
       /\ u.reserved <= Terms[p.channel].capacity * Sat
       /\ u.reserved <= u.paid + Terms[p.channel].grace
       /\ routes.reserved + u.lost = u.reserved
       /\ routes.submitted = u.submitted
       /\ p.after = HistoryWith(p.before, p.channel, p.saved)
       /\ HistoryValid(p.before) /\ HistoryValid(p.after)

\* A repeated handoff finds its effect in place and changes nothing.
PlanDone(l, p) == l.history = p.after /\ p.channel \notin DOMAIN l.channels

CanRetireChannel(l, p) ==
    /\ PlanValid(p)
    /\ ~PlanDone(l, p)
    /\ l.history = p.before
    /\ p.channel \in DOMAIN l.channels
    /\ l.channels[p.channel] = p.saved
    /\ OfChannel(l, p.channel) = {}

retire_channels(l, p) ==
    [l EXCEPT !.channels = Without(@, {p.channel}), !.history = p.after]

-----------------------------------------------------------------------------
(* Admission and completion *)

Windowed(l, windows, c) ==
    Min({relationship_reservation_limit(l, c, l.channels[c].usage.paid),
         IF c \in DOMAIN windows THEN windows[c] ELSE 0})

Cost(l, k, units) ==
    amount_due_msat(k, l.accounts[k].usage.reserved + units)
      - amount_due_msat(k, l.accounts[k].usage.reserved)

\* The one active account of the buyer for the packet's destination.
Accounts(l, buyer, packet) ==
    {k \in DOMAIN l.accounts : /\ l.accounts[k].active
                               /\ Quotes[k].destination = packet.destination
                               /\ Terms[Quotes[k].channel].buyer = buyer}

\* A packet on another next hop than the contract's is refused before this.
CanAdmit(l, k, packet, now, windows) ==
    LET a == l.accounts[k]
        c == Quotes[k].channel
    IN /\ packet.units # 0
       /\ Cardinality(l.pending) < Limits.max_pending
       /\ ~(Quotes[k].billing = "data" /\ packet.handshake)
       /\ now < Quotes[k].expires
       /\ Legacy(k) => /\ Cardinality(a.attempts) < Limits.max_packets
                       /\ <<Terms[c].buyer, packet.id>> \notin l.seen
       /\ a.usage.reserved + packet.units <= Quotes[k].max_units
       /\ l.channels[c].active
       /\ now < Terms[c].expires
       /\ l.channels[c].usage.reserved + Cost(l, k, packet.units) <= Windowed(l, windows, c)

admit_with_windows(l, k, packet) ==
    LET c == Quotes[k].channel
        token == l.next_token + 1
    IN [l EXCEPT
          !.accounts[k].usage.reserved = @ + packet.units,
          !.accounts[k].attempts = @ \cup
              {[token |-> token, id |-> IF Legacy(k) THEN packet.id ELSE 0,
                units |-> packet.units, state |-> "pending"]},
          !.channels[c].usage.reserved = @ + Cost(l, k, packet.units),
          !.next_token = token,
          !.seen = IF Legacy(k) THEN @ \cup {<<Terms[c].buyer, packet.id>>} ELSE @,
          !.pending = @ \cup {[token |-> token, account |-> k]}]

\* outcome is "submitted" or "unconfirmed"
complete(l, p, outcome) ==
    LET k == p.account
        x == CHOOSE y \in l.accounts[k].attempts : y.token = p.token
        sum(u) == [u EXCEPT ![outcome] = @ + x.units]
        before == amount_due_msat(k, l.accounts[k].usage.submitted)
        after == amount_due_msat(k, sum(l.accounts[k].usage).submitted)
    IN [l EXCEPT
          !.pending = @ \ {p},
          !.accounts[k].usage = sum(@),
          !.accounts[k].completed =
              IF Legacy(k) THEN @ ELSE [sum(@) EXCEPT !.reserved = @ + x.units],
          !.accounts[k].attempts =
              (@ \ {x}) \cup (IF Legacy(k) THEN {[x EXCEPT !.state = outcome]} ELSE {}),
          !.channels[Quotes[k].channel].usage.submitted = @ + (after - before)]

-----------------------------------------------------------------------------
(* Recovery of a saved ledger *)

RestoredAccount(k, a) ==
    LET usage == [a.usage EXCEPT !.unconfirmed = @ + UnitsOf(Pending(a))]
    IN [usage |-> usage,
        completed |-> IF Legacy(k) THEN NoUnits ELSE usage,
        attempts |-> IF Legacy(k) THEN Unconfirmed(a.attempts) ELSE {},
        active |-> a.active]

AccountRestorable(l, k) ==
    LET a == l.accounts[k]
        with(state) == UnitsOf({x \in a.attempts : x.state = state})
    IN /\ Legacy(k) => /\ Cardinality(a.attempts) <= Limits.max_packets
                       /\ a.completed = NoUnits
       /\ ~Legacy(k) => \A x \in a.attempts : x.state = "pending"
       /\ a.completed.submitted + a.completed.unconfirmed = a.completed.reserved
       /\ Quotes[k].channel \in DOMAIN l.channels
       /\ ~rejects(l.channels[Quotes[k].channel].retired, Quotes[k].expires)
       /\ \A x \in a.attempts : x.token \in 1..l.next_token
       /\ a.completed.reserved + UnitsOf(a.attempts) = a.usage.reserved
       /\ a.completed.submitted + with("submitted") = a.usage.submitted
       /\ a.completed.unconfirmed + with("unconfirmed") = a.usage.unconfirmed
       /\ a.usage.reserved <= Quotes[k].max_units

ChannelRestorable(l, c) ==
    LET u == l.channels[c].usage
        routes == l.channels[c].retired
        due(f) == MapThenSumSet(LAMBDA k : amount_due_msat(k, l.accounts[k].usage[f]), OfChannel(l, c))
    IN /\ RoutesValid(routes, Terms[c].expires)
       /\ Max({u.paid, u.reserved}) <= Terms[c].capacity * Sat
       /\ u.reserved <= u.paid + Terms[c].grace
       /\ u.lost <= u.reserved
       /\ u.lost + routes.reserved + due("reserved") = u.reserved
       /\ routes.submitted + due("submitted") = u.submitted

\* Tokens are unique; so are the fingerprints of one buyer's legacy attempts.
AttemptsDistinct(l) ==
    \A k, m \in DOMAIN l.accounts : \A x \in l.accounts[k].attempts, y \in l.accounts[m].attempts :
        \/ k = m /\ x = y
        \/ /\ x.token # y.token
           /\ Legacy(k) /\ Legacy(m) /\ Terms[Quotes[k].channel].buyer = Terms[Quotes[m].channel].buyer
                => x.id # y.id

\* restore accepts the snapshot
Restorable(l) ==
    /\ Cardinality(DOMAIN l.channels) <= Limits.max_channels
    /\ Cardinality(DOMAIN l.accounts) <= Limits.max_contracts
    /\ HistoryValid(l.history)
    /\ \A c \in DOMAIN l.channels : ChannelRestorable(l, c)
    /\ \A k \in DOMAIN l.accounts : AccountRestorable(l, k)
    /\ AttemptsDistinct(l)
    /\ MapThenSumSet(LAMBDA k : Cardinality(Pending(l.accounts[k])), DOMAIN l.accounts) <= Limits.max_pending

\* recover_windows accepts the snapshot with its ceilings
Recoverable(l, ceilings) ==
    /\ Restorable(l)
    /\ \A c, d \in DOMAIN l.channels :
          c # d /\ l.channels[c].active /\ l.channels[d].active => Relation(c) # Relation(d)
    /\ \A k \in DOMAIN l.accounts : l.accounts[k].active =>
          /\ l.channels[Quotes[k].channel].active
          /\ Quotes[k].channel \in DOMAIN ceilings
          /\ \A m \in DOMAIN l.accounts \ {k} :
                l.accounts[m].active /\ Quotes[m].destination = Quotes[k].destination =>
                    Terms[Quotes[m].channel].buyer # Terms[Quotes[k].channel].buyer
    /\ \A c \in DOMAIN ceilings :
          /\ c \in DOMAIN l.channels
          /\ l.channels[c].active
          /\ ActiveOf(l, c) # {}
          /\ ceilings[c] >= l.channels[c].usage.reserved
          /\ ceilings[c] <= relationship_reservation_limit(l, c, l.channels[c].usage.paid)

\* Recovery that trusts the saved total and charges nothing for the open window.
recover_saved_total(l, ceilings) ==
    [l EXCEPT
        !.accounts = [k \in DOMAIN @ |-> RestoredAccount(k, @[k])],
        !.pending = {}]

\* The whole window that was granted and not recorded is charged, as lost.
recover_windows(l, ceilings) ==
    [l EXCEPT
        !.channels = [c \in DOMAIN @ |->
            IF c \in DOMAIN ceilings
            THEN [@[c] EXCEPT !.usage.lost = @ + (ceilings[c] - l.channels[c].usage.reserved),
                              !.usage.reserved = ceilings[c]]
            ELSE @[c]],
        !.accounts = [k \in DOMAIN @ |-> RestoredAccount(k, @[k])],
        !.seen = UNION {{<<Terms[Quotes[k].channel].buyer, x.id>> : x \in l.accounts[k].attempts} :
                        k \in {m \in DOMAIN l.accounts : Legacy(m)}},
        !.pending = {}]

============================================================================
