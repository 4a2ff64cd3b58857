------------------------------ MODULE MCLookup ------------------------------
(***************************************************************************)
(* Instances of Lookup.  1 is the root; 4 asks for 5, a child of 3.        *)
(***************************************************************************)
EXTENDS Lookup

Limits == [recent |-> 4, scopes |-> 4, burst |-> 3, waiters |-> 2, peerWaiters |-> 1,
           pending |-> 2, ttl |-> 6]

Fact(at, via, dest) == [at |-> at, via |-> via, dest |-> dest]
Packet(at, dest, k) == [at |-> at, dest |-> dest, k |-> k]

\* 4 - 1 - 3 - 5, all links in the tree.
Base ==
    [path |-> [n \in 1..6 |-> CASE n = 1 -> <<1>> [] n = 2 -> <<2, 1>> [] n = 3 -> <<3, 1>>
                                [] n = 4 -> <<4, 1>> [] n = 5 -> <<5, 3, 1>> [] n = 6 -> <<6>>],
     links |-> {{1, 4}, {1, 3}, {3, 5}},
     filters |-> {Fact(4, 1, 5), Fact(1, 3, 5), Fact(3, 5, 5)},
     sends |-> {Packet(4, 5, 1)}, late |-> {}, stale |-> {}, relink |-> {}, moves |-> {},
     losses |-> 0, fails |-> 0, ticks |-> 2, prompt |-> FALSE, reach |-> FALSE, still |-> TRUE,
     goal |-> {<<4, 5>>}, lim |-> Limits]

Prompt == [Base EXCEPT !.prompt = TRUE, !.reach = TRUE]
PromptLoss == [Prompt EXCEPT !.losses = 1]
\* The filter that names the target comes late.
PromptLate == [Prompt EXCEPT !.reach = FALSE,
                 !.filters = {Fact(1, 3, 5), Fact(3, 5, 5)}, !.late = {Fact(4, 1, 5)}]
\* The hop to the target refuses a send.
PromptFail == [Prompt EXCEPT !.fails = 1]
\* The link to the origin is replaced while a retry may be waiting.
PromptRelink == [Prompt EXCEPT !.losses = 1, !.reach = FALSE, !.relink = {[at |-> 1, via |-> 4]}]
\* A second packet, and the target takes another place.
PromptMove == [Prompt EXCEPT !.links = @ \cup {{1, 2}, {2, 5}}, !.sends = @ \cup {Packet(4, 5, 2)},
                 !.moves = {[at |-> 5, path |-> <<5, 2, 1>>]},
                 !.late = {Fact(1, 2, 5), Fact(2, 5, 5)}, !.still = FALSE]
\* The target is a root of its own and joins.
PromptJoin == [Prompt EXCEPT !.reach = FALSE, !.path[5] = <<5>>, !.filters = @ \ {Fact(3, 5, 5)},
                 !.late = {Fact(3, 5, 5)},
                 !.moves = {[at |-> 5, path |-> <<5, 3, 1>>]}, !.still = FALSE]
\* 4 - 2 and then by cross links 3 and 6, the child of 3.
Diamond == [Base EXCEPT !.path = [@ EXCEPT ![4] = <<4, 2, 1>>, ![6] = <<6, 3, 1>>],
              !.links = {{4, 2}, {1, 2}, {1, 3}, {3, 6}, {2, 3}, {2, 6}, {3, 5}},
              !.filters = {Fact(4, 2, 5), Fact(2, 3, 5), Fact(2, 6, 5), Fact(6, 3, 5), Fact(3, 5, 5)},
              !.ticks = 1]
\* 2, 4 and 6 ask for 3 through a root with room for two requests.
Crowd == [Base EXCEPT !.path[6] = <<6, 1>>, !.links = {{1, 2}, {1, 3}, {1, 4}, {1, 6}},
            !.lim.recent = 2, !.filters = {Fact(n, 1, 3) : n \in {2, 4, 6}},
            !.sends = {Packet(n, 3, 1) : n \in {2, 4, 6}}, !.goal = {<<n, 3>> : n \in {2, 4, 6}},
            !.ticks = 0]
\* The first two of them, with room for one.
Narrow == [Crowd EXCEPT !.lim.recent = 1, !.sends = {e \in @ : e.at # 6},
             !.goal = {g \in @ : g[1] # 6}]
\* 2 and 4 ask for 5.
PromptTwo == [Prompt EXCEPT !.links = @ \cup {{1, 2}}, !.lim.recent = 6,
                !.filters = @ \cup {Fact(2, 1, 5)},
                !.sends = @ \cup {Packet(2, 5, 1)}, !.goal = @ \cup {<<2, 5>>}]
\* Two packets; the link of the origin turns stale at both ends.
PromptStale == [Prompt EXCEPT !.reach = FALSE, !.sends = @ \cup {Packet(4, 5, 2)},
                 !.stale = {[at |-> 1, via |-> 4], [at |-> 4, via |-> 1]}]
\* 4 - 2 - 5 is the tree path, stale at 4; 5 also has a link to the root.
PromptDetour == [Prompt EXCEPT !.reach = FALSE,
                 !.path = [@ EXCEPT ![2] = <<2, 4, 1>>, ![5] = <<5, 2, 4, 1>>],
                 !.links = {{1, 4}, {4, 2}, {2, 5}, {1, 5}},
                 !.filters = {Fact(4, 1, 5), Fact(4, 2, 5)},
                 !.stale = {[at |-> 4, via |-> 2]}, !.losses = 1]
\* The last hop turns stale for the datagrams behind the lookup, beside a cross link.
PromptLoop == [Prompt EXCEPT !.reach = FALSE, !.links = @ \cup {{1, 2}, {2, 3}},
                 !.stale = {[at |-> 3, via |-> 5]}]
\* Both ends have traffic at once.
PromptBoth == [Prompt EXCEPT !.sends = @ \cup {Packet(5, 4, 1)},
                 !.filters = @ \cup {Fact(5, 3, 4), Fact(3, 1, 4), Fact(1, 4, 4)}]

MCTimeouts == <<1, 2>>

MCWorlds == {Base, Prompt, PromptLoss, PromptLate, PromptFail, PromptRelink, PromptMove, PromptJoin,
             PromptTwo, PromptStale, PromptDetour, PromptLoop, PromptBoth, Diamond, Crowd, Narrow}
=============================================================================
