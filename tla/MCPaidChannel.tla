--------------------------- MODULE MCPaidChannel ---------------------------
(***************************************************************************)
(* Small instances of PaidChannel.                                         *)
(***************************************************************************)
EXTENDS PaidChannel

\* Two channels of one relation, one after the other.
MCTerms ==
    [c1 |-> [buyer |-> "B", mint |-> "m", expires |-> 4, capacity |-> 3, grace |-> 3],
     c2 |-> [buyer |-> "B", mint |-> "m", expires |-> 8, capacity |-> 3, grace |-> 4]]

MCQuotes ==
    [k1 |-> [channel |-> "c1", destination |-> "D", expires |-> 2, msat |-> 1, per |-> 1,
             max_units |-> 4, billing |-> "attempt"],
     k2 |-> [channel |-> "c1", destination |-> "D", expires |-> 4, msat |-> 1, per |-> 2,
             max_units |-> 4, billing |-> "legacy"],
     k3 |-> [channel |-> "c2", destination |-> "D", expires |-> 8, msat |-> 1, per |-> 2,
             max_units |-> 3, billing |-> "data"]]

MCLimits == [max_channels |-> 2, max_contracts |-> 2, max_packets |-> 2, max_pending |-> 2]

Packet(i, u) == [id |-> i, destination |-> "D", units |-> u, handshake |-> FALSE]

Handshake(i) == [Packet(i, 1) EXCEPT !.handshake = TRUE]

Open(c) == [do |-> "open", channel |-> c, paid |-> 0]
Add(k) == [do |-> "add", contract |-> k]
Seal(c) == [do |-> "seal", channel |-> c]
Suspend_ == [do |-> "suspend"]
RetireRoutes_(c, t, u) == [do |-> "retire_routes", channel |-> c, through |-> t, uninstalled |-> u]
Plan(c) == [do |-> "plan", channel |-> c]
RetireChannel_(c) == [do |-> "retire_channel", channel |-> c]
Accept(c) == [do |-> "accept", channel |-> c]
Quote(k) == [do |-> "quote", contract |-> k]
Reproduce(c) == [do |-> "reproduce", channel |-> c]
Close(k) == [do |-> "close", contract |-> k]
CloseChannel_(c) == [do |-> "close_channel", channel |-> c]

\* A channel with one contract, at the relay and at the buyer.
Selling(c, k) == add_contract(open_channel_verified(EmptyLedger, c, 0), k)
Buying(c, k) == accept_quote(accept_channel(NewBuyer, c), k)

\* ... after a packet was forwarded, or sent
Forwarded(l, k, p) ==
    LET a == admit_with_windows(l, k, p) IN complete(a, CHOOSE x \in a.pending : x.token = a.next_token, "submitted")
Sent(b, k, p) == complete_send(reserve_attempt(b, k, p), b.next_token, "submitted")

Calm == [ledger |-> EmptyLedger, buyer |-> NewBuyer, air |-> {}, script |-> <<>>, bscript |-> <<>>,
         packets |-> {}, dups |-> 0, losses |-> 0, faults |-> 0, stops |-> 0, bstops |-> 0,
         times |-> {1, 3, 9}]

\* Traffic over two restarts of the relay, with a write that fails.
Crashing == [Calm EXCEPT !.ledger = Selling("c1", "k1"), !.air = {Packet(1, 1), Packet(2, 1)}, !.times = {1},
                         !.stops = 2, !.faults = 1]

\* One contract replaced by another of the channel, under traffic.
Replacing == [Calm EXCEPT !.ledger = Selling("c1", "k1"), !.air = {Packet(1, 1), Packet(2, 2)}, !.dups = 1,
                          !.script = <<Close("k1"), Add("k2")>>, !.times = {1, 3}]

\* A channel sealed with a packet outstanding, retired, and followed by the next.
Renewing == [Calm EXCEPT !.ledger = admit_with_windows(Selling("c1", "k1"), "k1", Packet(1, 2)),
                         !.air = {Packet(3, 1)},
                         !.script = <<Seal("c1"), Open("c2"), Add("k3"), RetireRoutes_("c1", 4, {}), Plan("c1"),
                                      RetireChannel_("c1")>>, !.stops = 1]

\* Operations the ledger refuses, an agreement never installed, and an orderly stop.
Refusing == [Calm EXCEPT !.ledger = Selling("c1", "k1"), !.air = {Packet(1, 1), Handshake(2)},
                         !.script = <<Open("c2"), Add("k3"), Close("k3"), Seal("c2"), RetireRoutes_("c1", 4, {}),
                                      Plan("c1"), RetireChannel_("c1"), RetireRoutes_("c1", 1, {}),
                                      CloseChannel_("c1"), Suspend_>>, !.stops = 1, !.times = {1}]
Uninstalling == [Calm EXCEPT !.ledger = seal_channel(open_channel_verified(EmptyLedger, "c2", 0), "c2"),
                             !.script = <<RetireRoutes_("c2", 8, {"k3"}), Plan("c2"), RetireChannel_("c2"),
                                          Open("c2")>>, !.stops = 1]

\* Money follows traffic: both sides hold evidence and nothing is paid yet.
Owing == [Calm EXCEPT !.ledger = Forwarded(Selling("c1", "k1"), "k1", Packet(1, 1)),
                      !.buyer = Sent(Buying("c1", "k1"), "k1", Packet(1, 1)),
                      !.packets = {Packet(2, 2)}, !.times = {1}]
Paying1 == [Owing EXCEPT !.losses = 1]
Paying2 == [Owing EXCEPT !.stops = 1]
Paying3 == [Owing EXCEPT !.bstops = 1, !.packets = {}]
Paying4 == [Owing EXCEPT !.faults = 1, !.bscript = <<Close("k1")>>, !.packets = {}]
Paying5 == [Owing EXCEPT !.script = <<Suspend_>>, !.packets = {}]

\* Sends that complete out of order, over a restart of the buyer; one does not
\* fit the quota, one is not covered.
Sending == [Calm EXCEPT !.buyer = Buying("c1", "k1"), !.packets = {Packet(1, 1), Packet(2, 1), Packet(3, 1)},
                        !.bstops = 1, !.times = {1}]
Overrunning == [Calm EXCEPT !.buyer = Buying("c2", "k3"), !.packets = {Packet(1, 2), Packet(2, 2), Handshake(3)},
                            !.times = {1, 9}]

\* The buyer's side of a renewal.
BuyerRenewing ==
    [Calm EXCEPT !.buyer = sign_claim(Sent(Buying("c1", "k1"), "k1", Packet(1, 3)), "c1", 3),
                 !.bscript = <<Close("k1"), CloseChannel_("c1"), Reproduce("c1"), RetireRoutes_("c1", 4, {}),
                               Plan("c1"), RetireChannel_("c1"), Accept("c2"), Quote("k3")>>,
                 !.packets = {Packet(2, 3)}, !.bstops = 1]
BuyerRefusing ==
    [Calm EXCEPT !.buyer = Buying("c1", "k1"), !.times = {1},
                 !.bscript = <<Accept("c2"), Quote("k3"), Close("k3"), CloseChannel_("c2"), Reproduce("c2"),
                               RetireRoutes_("c1", 4, {}), Plan("c1"), RetireChannel_("c1")>>]

MCWorlds == {Crashing, Replacing, Renewing, Refusing, Uninstalling, Paying1, Paying2, Paying3, Paying4, Paying5,
             Sending, Overrunning, BuyerRenewing, BuyerRefusing}
============================================================================
