--------------------------- MODULE MCSpanningTree ---------------------------
(***************************************************************************)
(* Networks for model checking the spanning tree.                           *)
(***************************************************************************)
EXTENDS SpanningTree

Pair == {{1, 2}}
Line == {{1, 2}, {2, 3}}
Triangle == {{1, 2}, {2, 3}, {1, 3}}
Diamond == {{1, 2}, {1, 3}, {2, 4}, {3, 4}}

Alone == [n \in Node |-> <<n>>]
LineTree == [Alone EXCEPT ![2] = <<2, 1>>, ![3] = <<3, 2, 1>>]
TriangleTree == [Alone EXCEPT ![2] = <<2, 1>>, ![3] = <<3, 1>>]
DiamondTree == [TriangleTree EXCEPT ![4] = <<4, 2, 1>>]

Network(edges, start, coords) ==
    [edges |-> edges, leaf_only |-> {}, start |-> start, coords |-> coords, costs |-> {1},
     refresh |-> FALSE, max_seq |-> 4, cuts |-> 0, restarts |-> 0, reports |-> 0,
     losses |-> 0, flight |-> 1, prompt |-> TRUE]

\* A line forms, with any rate limit and announcements that overtake each other.
Form == [Network(Line, "Alone", Alone) EXCEPT !.max_seq = 5, !.flight = 2, !.prompt = FALSE]

\* The bootstrap announcements of a triangle arrive in any order; one on a line is lost.
Bootstrap == [Network(Triangle, "Joined", Alone) EXCEPT !.max_seq = 3]
Lossy == [Network(Line, "Joined", Alone) EXCEPT !.max_seq = 3, !.losses = 1]

\* Two neighbours are lost, in a tree with another way round.
CutTriangle == [Network(Triangle, "Formed", TriangleTree) EXCEPT !.cuts = 2]
CutDiamond == [Network(Diamond, "Formed", DiamondTree) EXCEPT !.max_seq = 3, !.cuts = 2]

\* A process restarts, and a neighbour is lost.
Restarted == [Network(Line, "Formed", LineTree) EXCEPT !.cuts = 1, !.restarts = 1]

\* Links turn out cheap or expensive.
Measure == [Network(Triangle, "Formed", TriangleTree) EXCEPT !.costs = {1, 3}, !.reports = 3]

\* A client with one router for neighbour, which it loses, or between two.
Client == [Network(Pair, "Alone", Alone) EXCEPT
              !.leaf_only = {1}, !.max_seq = 5, !.cuts = 1, !.flight = 2]
ClientBetween == [Network(Line, "Alone", Alone) EXCEPT !.leaf_only = {2}, !.max_seq = 3]

SafetyWorlds ==
    {Form, Bootstrap, Lossy, CutTriangle, CutDiamond, Restarted, Measure, Client,
     ClientBetween}
=============================================================================
