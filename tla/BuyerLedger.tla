---------------------------- MODULE BuyerLedger ----------------------------
(***************************************************************************)
(* What a buyer of forwarding keeps: the channels it funded, the quotes it *)
(* accepted, the sends it observed itself and the payments it authorized   *)
(* (fips-relay: buyer.rs and buyer/).                                      *)
(*                                                                         *)
(* The state is a record                                                   *)
(*   channels : channel -> [authorized, retired, active]                   *)
(*   quotes   : contract -> [active, attempts, observed, submitted,        *)
(*                           completed, quota_blocked]                     *)
(* with attempts a sequence, because pending names an attempt by its index *)
(* and completion removes by moving the last attempt into the gap.         *)
(* A single provider sells all channels here.                              *)
(***************************************************************************)
EXTENDS RelayLedger, Sequences

CONSTANTS Budget,      \* total_budget_sat
          Advance      \* advance_msat, per channel

NoEvidence == [observed |-> 0, submitted |-> 0]
NoPurchases == [channels |-> 0, through |-> 0, authorized |-> 0, capacity |-> 0,
                advance |-> 0, routes |-> NoRoutes]

NewBuyer == [channels |-> <<>>, quotes |-> <<>>, history |-> NoPurchases,
             seen |-> {}, pending |-> <<>>, next_token |-> 1]

OfPurchase(b, c) == {k \in DOMAIN b.quotes : Quotes[k].channel = c}

evidence_msat(b, c) ==
    b.channels[c].retired.submitted
      + MapThenSumSet(LAMBDA k : amount_due_msat(k, b.quotes[k].submitted), OfPurchase(b, c))

Authorized(b) == b.history.authorized + MapThenSumSet(LAMBDA c : b.channels[c].authorized, DOMAIN b.channels)

-----------------------------------------------------------------------------
(* Agreements *)

\* Accepting again what is there is accepted and changes nothing.
CanAcceptChannel(b, c) ==
    /\ validate_channel(c)
    /\ Advance <= Terms[c].capacity * Sat
    /\ c \in DOMAIN b.channels \/
         /\ b.history.channels # 0 => Terms[c].expires > b.history.through
         /\ Cardinality(DOMAIN b.channels) < Limits.max_channels
         /\ \A d \in DOMAIN b.channels : ~(b.channels[d].active /\ Terms[d].mint = Terms[c].mint)

accept_channel(b, c) ==
    [b EXCEPT !.channels = @ @@ (c :> [authorized |-> 0, retired |-> NoRoutes, active |-> TRUE])]

CanAcceptQuote(b, k) ==
    /\ Quotes[k].channel \in DOMAIN b.channels
    /\ validate_contract(k)
    /\ ~rejects(b.channels[Quotes[k].channel].retired, Quotes[k].expires)
    /\ k \in DOMAIN b.quotes \/
         /\ b.channels[Quotes[k].channel].active
         /\ Cardinality(DOMAIN b.quotes) < Limits.max_contracts
         /\ \A m \in DOMAIN b.quotes :
               ~(b.quotes[m].active /\ Quotes[m].destination = Quotes[k].destination)

accept_quote(b, k) ==
    [b EXCEPT !.quotes = @ @@ (k :> [active |-> TRUE, attempts |-> <<>>, observed |-> 0, submitted |-> 0,
                                     completed |-> NoEvidence, quota_blocked |-> FALSE])]

close_quote(b, k) == [b EXCEPT !.quotes[k].active = FALSE]

close_purchase(b, c) ==
    [b EXCEPT !.channels[c].active = FALSE,
              !.quotes = [k \in DOMAIN @ |->
                  IF Quotes[k].channel = c THEN [@[k] EXCEPT !.active = FALSE] ELSE @[k]]]

-----------------------------------------------------------------------------
(* Sends *)

\* The quote that covers a packet now.
Covering(b, packet, now) ==
    {k \in DOMAIN b.quotes :
        /\ b.quotes[k].active
        /\ b.channels[Quotes[k].channel].active
        /\ Quotes[k].destination = packet.destination
        /\ now < Quotes[k].expires
        /\ now < Terms[Quotes[k].channel].expires}

\* prepare: a kept paid route never turns into an untracked send.
Rejected(b, packet, now) ==
    /\ Covering(b, packet, now) = {}
    /\ \E k \in DOMAIN b.quotes : Quotes[k].destination = packet.destination /\ ~Legacy(k)

CanReserve(b, k, packet) ==
    /\ packet.units # 0
    /\ Cardinality(DOMAIN b.pending) < Limits.max_pending
    /\ Legacy(k) => /\ packet.id \notin b.seen
                    /\ Len(b.quotes[k].attempts) < Limits.max_packets

WithinQuota(b, k, packet) == b.quotes[k].observed + packet.units <= Quotes[k].max_units

reserve_attempt(b, k, packet) ==
    [b EXCEPT
        !.quotes[k].observed = @ + packet.units,
        !.quotes[k].attempts = Append(@, [id |-> IF Legacy(k) THEN packet.id ELSE 0,
                                          units |-> packet.units, outcome |-> "pending",
                                          token |-> IF Legacy(k) THEN 0 ELSE b.next_token]),
        !.pending = (b.next_token :> [quote |-> k, index |-> Len(b.quotes[k].attempts) + 1]) @@ @,
        !.seen = IF Legacy(k) THEN @ \cup {packet.id} ELSE @,
        !.next_token = @ + 1]

BlockQuota(b, k) == [b EXCEPT !.quotes[k].quota_blocked = TRUE]

\* The last element takes the place of the removed one.
SwapRemove(s, i) == [j \in 1..(Len(s) - 1) |-> IF j = i THEN s[Len(s)] ELSE s[j]]

CompletedQuote(q, k, i, outcome) ==
    LET units == q.attempts[i].units
        earned == IF outcome = "submitted" THEN units ELSE 0
    IN [q EXCEPT !.submitted = @ + earned,
                 !.completed = IF Legacy(k) THEN @
                               ELSE [observed |-> @.observed + units, submitted |-> @.submitted + earned],
                 !.attempts = IF Legacy(k) THEN [@ EXCEPT ![i].outcome = outcome] ELSE SwapRemove(@, i)]

\* Completion that leaves the moved attempt under its old index.
complete_send_no_fixup(b, token, outcome) ==
    LET at == b.pending[token]
    IN [b EXCEPT
          !.quotes[at.quote] = CompletedQuote(@, at.quote, at.index, outcome),
          !.pending = Without(@, {token})]

complete_send(b, token, outcome) ==
    LET at == b.pending[token]
        left == Without(b.pending, {token})
        q == b.quotes[at.quote]
        moved == ~Legacy(at.quote) /\ at.index < Len(q.attempts)
    IN [b EXCEPT
          !.quotes[at.quote] = CompletedQuote(@, at.quote, at.index, outcome),
          !.pending = IF moved THEN [left EXCEPT ![q.attempts[Len(q.attempts)].token].index = at.index]
                      ELSE left]

-----------------------------------------------------------------------------
(* Payment authorization *)

SignedBalance(b, c, claimed) == Max({DivCeil(claimed, Sat), b.channels[c].authorized})

\* reproduce: resend what is authorized, with the funding attached, at any time
CanSign(b, c, claimed, now, reproduce) ==
    /\ c \in DOMAIN b.channels
    /\ now >= Terms[c].expires => reproduce /\ claimed = 0
    /\ claimed <= evidence_msat(b, c) + Advance
    /\ SignedBalance(b, c, claimed) <= Terms[c].capacity
    /\ Authorized(b) + SignedBalance(b, c, claimed) - b.channels[c].authorized <= Budget

\* A stale claim lowers what an earlier one authorized.
sign_claim_lowers(b, c, claimed) == [b EXCEPT !.channels[c].authorized = DivCeil(claimed, Sat)]

sign_claim(b, c, claimed) == [b EXCEPT !.channels[c].authorized = SignedBalance(b, c, claimed)]

-----------------------------------------------------------------------------
(* Retirement *)

PurchasePrefix(b, c, through) == {k \in OfPurchase(b, c) : Quotes[k].expires <= through}

CanRetirePurchases(b, c, through) ==
    /\ c \in DOMAIN b.channels
    /\ \A k \in PurchasePrefix(b, c, through) :
          ~b.quotes[k].active /\ ~Legacy(k) /\ b.quotes[k].attempts = <<>>

retire_purchases(b, c, through) ==
    LET gone == PurchasePrefix(b, c, through)
        units(k) == [reserved |-> b.quotes[k].observed, submitted |-> b.quotes[k].submitted,
                     unconfirmed |-> b.quotes[k].observed - b.quotes[k].submitted]
        add(k, r) == merged(r, RouteOf(k, units(k)))
    IN [b EXCEPT !.quotes = Without(@, gone), !.channels[c].retired = FoldSet(add, @, gone)]

PurchasesWith(h, c, saved) ==
    [channels   |-> h.channels + 1,
     through    |-> Max({h.through, Terms[c].expires}),
     authorized |-> h.authorized + saved.authorized,
     capacity   |-> h.capacity + Terms[c].capacity,
     advance    |-> h.advance + Advance,
     routes     |-> merged(h.routes, saved.retired)]

PurchasesValid(h) ==
    IF h.channels = 0 THEN h = NoPurchases
    ELSE /\ h.through # 0
         /\ h.channels <= h.capacity
         /\ h.authorized <= h.capacity
         /\ h.authorized <= DivCeil(h.routes.submitted + h.advance, Sat) + h.channels - 1
         /\ RoutesValid(h.routes, h.through)

CanPlanPurchase(b, c, now) ==
    /\ c \in DOMAIN b.channels
    /\ ~b.channels[c].active
    /\ Terms[c].expires < now
    /\ OfPurchase(b, c) = {}

purchase_retirement_plan(b, c) ==
    [channel |-> c, saved |-> b.channels[c], before |-> b.history,
     after |-> PurchasesWith(b.history, c, b.channels[c])]

PurchasePlanValid(p) ==
    /\ ~p.saved.active
    /\ RoutesValid(p.saved.retired, Terms[p.channel].expires)
    /\ p.saved.authorized <= Terms[p.channel].capacity
    /\ p.saved.authorized <= DivCeil(p.saved.retired.submitted + Advance, Sat)
    /\ p.after = PurchasesWith(p.before, p.channel, p.saved)
    /\ PurchasesValid(p.before) /\ PurchasesValid(p.after)

PurchasePlanDone(b, p) == b.history = p.after /\ p.channel \notin DOMAIN b.channels

CanRetirePurchase(b, p) ==
    /\ PurchasePlanValid(p)
    /\ ~PurchasePlanDone(b, p)
    /\ b.history = p.before
    /\ p.channel \in DOMAIN b.channels /\ b.channels[p.channel] = p.saved
    /\ OfPurchase(b, p.channel) = {}

retire_purchase(b, p) ==
    [b EXCEPT !.channels = Without(@, {p.channel}), !.history = p.after]

-----------------------------------------------------------------------------
(* Recovery *)

QuoteRecoverable(b, k) ==
    LET q == b.quotes[k]
        total(outcomes) == MapThenSumSet(LAMBDA i : q.attempts[i].units,
                                         {i \in DOMAIN q.attempts : q.attempts[i].outcome \in outcomes})
    IN /\ Quotes[k].channel \in DOMAIN b.channels
       /\ ~rejects(b.channels[Quotes[k].channel].retired, Quotes[k].expires)
       /\ Legacy(k) => Len(q.attempts) <= Limits.max_packets /\ q.completed = NoEvidence
       /\ q.completed.submitted <= q.completed.observed
       /\ q.active => /\ b.channels[Quotes[k].channel].active
                      /\ \A m \in DOMAIN b.quotes \ {k} :
                            ~(b.quotes[m].active /\ Quotes[m].destination = Quotes[k].destination)
       /\ ~Legacy(k) => \A i \in DOMAIN q.attempts :
             q.attempts[i].outcome = "pending" /\ q.attempts[i].token \in 1..(b.next_token - 1)
       /\ q.completed.observed + total({"pending", "submitted", "unconfirmed"}) = q.observed
       /\ q.completed.submitted + total({"submitted"}) = q.submitted
       /\ q.observed <= Quotes[k].max_units

\* validate_and_recover accepts the saved state
BuyerRecoverable(b) ==
    /\ Cardinality(DOMAIN b.channels) <= Limits.max_channels
    /\ Cardinality(DOMAIN b.quotes) <= Limits.max_contracts
    /\ PurchasesValid(b.history)
    /\ \A c \in DOMAIN b.channels :
          /\ RoutesValid(b.channels[c].retired, Terms[c].expires)
          /\ b.channels[c].authorized <= Terms[c].capacity
          /\ b.channels[c].authorized <= DivCeil(evidence_msat(b, c) + Advance, Sat)
    /\ \A c, d \in DOMAIN b.channels :
          c # d /\ b.channels[c].active /\ b.channels[d].active => Terms[c].mint # Terms[d].mint
    /\ Authorized(b) <= Budget
    /\ \A k \in DOMAIN b.quotes : QuoteRecoverable(b, k)
    /\ MapThenSumSet(LAMBDA k : Cardinality({i \in DOMAIN b.quotes[k].attempts :
                                              b.quotes[k].attempts[i].outcome = "pending"}),
                     DOMAIN b.quotes) <= Limits.max_pending
    /\ \A k, m \in DOMAIN b.quotes :
          \A i \in DOMAIN b.quotes[k].attempts, j \in DOMAIN b.quotes[m].attempts :
             LET x == b.quotes[k].attempts[i]
                 y == b.quotes[m].attempts[j]
             IN \/ k = m /\ i = j
                \/ /\ Legacy(k) /\ Legacy(m) => x.id # y.id
                   /\ ~Legacy(k) /\ ~Legacy(m) => x.token # y.token

RecoveredQuote(k, q) ==
    [q EXCEPT !.attempts = IF Legacy(k)
                           THEN [i \in DOMAIN @ |->
                                   [@[i] EXCEPT !.outcome = IF @ = "submitted" THEN @ ELSE "unconfirmed"]]
                           ELSE <<>>,
              !.completed = IF Legacy(k) THEN @ ELSE [observed |-> q.observed, submitted |-> q.submitted],
              !.quota_blocked = FALSE]

recover_buyer(b) ==
    [b EXCEPT !.quotes = [k \in DOMAIN @ |-> RecoveredQuote(k, @[k])],
              !.pending = <<>>,
              !.seen = UNION {{b.quotes[k].attempts[i].id : i \in DOMAIN b.quotes[k].attempts} :
                              k \in {m \in DOMAIN b.quotes : Legacy(m)}}]

============================================================================
