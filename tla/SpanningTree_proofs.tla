------------------------ MODULE SpanningTree_proofs -------------------------
(***************************************************************************)
(* The declarations of a network of nodes are sound, for every set of       *)
(* addresses and every network of them.  First what the handlers of one     *)
(* node do to its TreeState, then what that leaves of what others hold of   *)
(* it, then one step of the network.                                        *)
(***************************************************************************)
EXTENDS SpanningTree, WellFoundedInduction, TLAPS

\* The provers for a step that names none, in the order in which they are tried.
USE SMTT(10), Zenon, SMTT(30)

-----------------------------------------------------------------------------
(* The state of a node.                                                      *)

StateFields ==
    {"addr", "epoch", "leaf_only", "leaf", "parent", "seq", "coords", "peers", "heard", "role",
     "cost", "seen", "pending"}
RoleFields == {"seq", "client", "supported", "asked"}

\* A path from p to a root: no node twice, and none smaller than the root.
IsPath(q, p) ==
    /\ q \in Seq(Node) /\ Len(q) > 0 /\ q[1] = p
    /\ IsInjective(q)
    /\ \A i \in 1 .. Len(q) : root_id(q) <= q[i]

\* What a node has heard of p: nothing, or a path under a sequence number.
HeardOK(h, p) ==
    \/ h = NotHeard
    \/ /\ DOMAIN h = {"parent", "seq", "path"}
       /\ h.seq \in Nat \ {0} /\ IsPath(h.path, p)

Shape(s) ==
    /\ DOMAIN s = StateFields
    /\ s.addr \in Node /\ s.epoch \in Nat /\ s.seq \in Nat \ {0}
    /\ s.peers \subseteq Node /\ s.addr \notin s.peers
    /\ DOMAIN s.heard = Node /\ \A p \in Node : HeardOK(s.heard[p], p)
    /\ DOMAIN s.role = Node /\ \A p \in Node : DOMAIN s.role[p] = RoleFields
    /\ DOMAIN s.cost = Node /\ \A p \in Node : s.cost[p] \in Nat
    /\ DOMAIN s.seen = Node /\ \A p \in Node : s.seen[p] \in Nat

\* p has announced a path that does not lead back to the node.
Open(s, p) == p \in Known(s) /\ s.addr \notin Range(s.heard[p].path)

\* The coordinates follow what the parent announced last; a router has a smaller root.
Linked(s) ==
    \/ s.parent = s.addr /\ s.coords = <<s.addr>>
    \/ /\ s.parent # s.addr /\ Open(s, s.parent)
       /\ s.coords = <<s.addr>> \o s.heard[s.parent].path
       /\ ~s.leaf => peer_root(s, s.parent) < s.addr

\* The coordinates are those of some such parent.
Coherent(s) ==
    /\ s.coords \in Seq(Node) /\ Len(s.coords) > 0 /\ s.coords[1] = s.addr
    /\ IsInjective(s.coords)
    /\ IF s.parent = s.addr THEN Len(s.coords) = 1
       ELSE Len(s.coords) > 1 /\ s.coords[2] = s.parent /\ s.parent \in Node
    /\ ~s.leaf => \A i \in 1 .. Len(s.coords) : root_id(s.coords) <= s.coords[i]

\* The peers that do not support clients yet, as far as the node knows.
Unsure(s) == {p \in s.peers : ~s.role[p].supported}

\* The node has the role that its configuration and its peers give it.
Settled(s) == (s.leaf_only /\ \A p \in s.peers : s.role[p].supported) = s.leaf

\* What no handler changes.
Same(s, t) ==
    /\ DOMAIN t = StateFields
    /\ t.addr = s.addr /\ t.epoch = s.epoch /\ t.leaf_only = s.leaf_only

\* A step that changes the declaration at most.
Declares(s, t) ==
    /\ Same(s, t) /\ t.peers = s.peers /\ t.heard = s.heard /\ t.role = s.role
    /\ t.cost = s.cost /\ t.seen = s.seen

\* A sequence number names one declaration.
Advances(s, t) ==
    /\ t.seq \in Nat
    /\ t.seq > s.seq \/ (t.seq = s.seq /\ t.parent = s.parent /\ t.coords = s.coords)

-----------------------------------------------------------------------------
(* Paths.                                                                    *)

\* Addresses are numbers.
LEMMA Addresses == \A a \in Node : a \in Int /\ a > 0
  BY NodesArePositive

\* What it means to prepend a node to a sequence.
LEMMA Prepended ==
    ASSUME NEW a \in Node, NEW q \in Seq(Node), Len(q) > 0
    PROVE  LET r == <<a>> \o q
           IN  /\ r \in Seq(Node) /\ Len(r) = Len(q) + 1 /\ r[1] = a /\ r[2] = q[1]
               /\ \A i \in 2 .. Len(r) : r[i] = q[i - 1]
               /\ root_id(r) = root_id(q)
  BY DEF root_id

\* A path stays free of repetitions when a node that is not on it is prepended.
LEMMA StaysSimple ==
    ASSUME NEW a \in Node, NEW p \in Node, NEW q, IsPath(q, p), a \notin Range(q)
    PROVE  IsInjective(<<a>> \o q)
<1> DEFINE r == <<a>> \o q
<1>1. q \in Seq(Node) /\ Len(q) > 0 /\ IsInjective(q)
  BY DEF IsPath
<1>2. DOMAIN q = 1 .. Len(q) /\ DOMAIN r = 1 .. Len(r) /\ Len(r) = Len(q) + 1 /\ Len(q) \in Nat
  BY <1>1
<1>3. r[1] = a /\ \A i \in 2 .. Len(r) : r[i] = q[i - 1]
  BY <1>1
<1>4. \A i \in 1 .. Len(q) : q[i] # a
  BY <1>2 DEF Range
<1> HIDE DEF r
<1>5. IsInjective(r)
  BY <1>1, <1>2, <1>3, <1>4 DEF IsInjective
<1>6. QED
  BY <1>5 DEF r

\* The peers a node has heard of are those with a path.
LEMMA KnownPaths ==
    ASSUME NEW s, Shape(s)
    PROVE  \A p \in Known(s) : /\ p \in Node /\ IsPath(s.heard[p].path, p)
                               /\ peer_root(s, p) \in Node
<1>1. ASSUME NEW p \in Known(s) PROVE p \in Node /\ IsPath(s.heard[p].path, p)
  BY <1>1 DEF Known, Shape, HeardOK, NotHeard
<1>2. ASSUME NEW q, NEW p, IsPath(q, p) PROVE root_id(q) \in Node
  BY <1>2 DEF IsPath, root_id
<1>3. QED
  BY <1>1, <1>2 DEF peer_root

\* Coordinates that follow a parent are a path of the node.
LEMMA LinkedCoheres ==
    ASSUME NEW s, Shape(s), Linked(s)
    PROVE  Coherent(s)
<1>1. CASE s.parent = s.addr
  <2>1. s.coords = <<s.addr>> /\ s.addr \in Node
    BY <1>1 DEF Linked, Shape
  <2>2. s.addr <= s.addr
    BY <2>1, Addresses
  <2> DEFINE c == <<s.addr>>
  <2>3. c \in Seq(Node) /\ Len(c) = 1 /\ Len(c) > 0 /\ c[1] = s.addr
    BY <2>1
  <2>4. DOMAIN c = 1 .. 1
    OBVIOUS
  <2>5. s.coords = c
    BY <2>1
  <2> HIDE DEF c
  <2>6. IsInjective(c)
    BY <2>4 DEF IsInjective
  <2>7. \A i \in 1 .. Len(c) : root_id(c) <= c[i]
    BY <2>2, <2>3 DEF root_id
  <2>8. QED
    BY <1>1, <2>3, <2>5, <2>6, <2>7, Zenon DEF Coherent
<1>2. CASE s.parent # s.addr
  <2> DEFINE q == s.heard[s.parent].path
             r == <<s.addr>> \o q
  <2>1. /\ s.parent \in Known(s) /\ s.addr \notin Range(q) /\ s.coords = r
        /\ ~s.leaf => root_id(q) < s.addr
    BY <1>2, Zenon DEF Linked, Open, peer_root
  <2>2. s.addr \in Node /\ s.parent \in Node /\ IsPath(q, s.parent)
    BY <2>1, KnownPaths, Zenon DEF Shape
  <2>3. IsInjective(r)
    BY <2>1, <2>2, StaysSimple
  <2>4. q \in Seq(Node) /\ Len(q) > 0 /\ q[1] = s.parent /\ Len(q) \in Nat
    BY <2>2 DEF IsPath
  <2>5. /\ r \in Seq(Node) /\ Len(r) = Len(q) + 1 /\ r[1] = s.addr /\ r[2] = q[1]
        /\ \A i \in 2 .. Len(r) : r[i] = q[i - 1]
        /\ root_id(r) = root_id(q)
    BY <2>2, <2>4, Prepended
  <2>8. root_id(q) \in Node
    BY <2>4 DEF root_id
  <2> HIDE DEF r, q
  <2>6. ASSUME ~s.leaf, NEW i \in 1 .. Len(r) PROVE root_id(r) <= r[i]
    <3>1. CASE i = 1
      <4>1. root_id(r) < s.addr /\ r[i] = s.addr
        BY <3>1, <2>1, <2>5, <2>6
      <4>2. QED
        BY <4>1, <2>2, <2>5, <2>8, Addresses
    <3>2. CASE i # 1
      <4>1. i - 1 \in 1 .. Len(q) /\ r[i] = q[i - 1]
        BY <3>2, <2>4, <2>5
      <4>2. QED
        BY <4>1, <2>2, <2>5 DEF IsPath
    <3>3. QED
      BY <3>1, <3>2
  <2>7. QED
    BY <1>2, <2>1, <2>2, <2>3, <2>4, <2>5, <2>6, SMTT(20), SMTT(30) DEF Coherent
<1>3. QED
  BY <1>1, <1>2

\* A node is its own root exactly when it is its own parent.
LEMMA RootHasNoParent ==
    ASSUME NEW s, Shape(s), Coherent(s)
    PROVE  is_root(s) <=> s.parent = s.addr
<1>1. s.coords \in Seq(Node) /\ Len(s.coords) \in Nat /\ DOMAIN s.coords = 1 .. Len(s.coords)
  BY DEF Coherent
<1>2. QED
  BY <1>1 DEF Coherent, is_root, root, root_id, IsInjective

-----------------------------------------------------------------------------
(* Choosing a parent.                                                        *)

\* A set of numbers that is not empty has a smallest one.
LEMMA Smallest ==
    ASSUME NEW T \in SUBSET Nat, T # {}
    PROVE  \E x \in T : \A y \in T : x <= y
<1>1. PICK x \in T : \A y \in T : ~(<<y, x>> \in OpToRel(<, Nat))
  BY NatLessThanWellFounded, WFMin, Zenon
<1>2. \A y \in T : ~(y < x)
  BY <1>1, Zenon DEF OpToRel
<1>3. QED
  BY <1>2

\* The best candidate is one.
LEMMA BestIsCandidate ==
    ASSUME NEW s, Shape(s), Candidates(s) # {}
    PROVE  BestCandidate(s) \in Candidates(s)
<1> DEFINE C == Candidates(s)
           D == {EffectiveDepth(s, p) : p \in C}
<1>1. \A p \in C : p \in Nat /\ EffectiveDepth(s, p) \in Nat
  <2>1. ASSUME NEW p \in C PROVE p \in Node /\ p \in Known(s)
    BY <2>1 DEF Candidates, Known
  <2>2. ASSUME NEW p \in C PROVE Len(s.heard[p].path) - 1 \in Nat
    BY <2>1, <2>2, KnownPaths DEF IsPath
  <2>3. ASSUME NEW p \in C PROVE s.cost[p] \in Nat
    BY <2>1, <2>3 DEF Shape
  <2>4. ASSUME NEW p \in C PROVE EffectiveDepth(s, p) \in Nat
    <3> DEFINE l == Len(s.heard[p].path) - 1
               c == IF p \in Measured(s) THEN s.cost[p] ELSE 1
    <3>1. l \in Nat /\ c \in Nat
      BY <2>2, <2>3, <2>4
    <3>2. EffectiveDepth(s, p) = l + c
      BY DEF EffectiveDepth
    <3> HIDE DEF l, c
    <3>3. QED
      BY <3>1, <3>2
  <2>5. QED
    BY <2>1, <2>4, NodesArePositive, Zenon
<1>2. PICK d \in D : \A e \in D : d <= e
  <2>1. D \in SUBSET Nat /\ D # {}
    BY <1>1
  <2>2. QED
    BY <2>1, Smallest, Zenon
<1> DEFINE B == {p \in C : EffectiveDepth(s, p) = d}
<1>3. PICK p \in B : \A q \in B : p <= q
  <2>1. B \in SUBSET Nat /\ B # {}
    BY <1>1, <1>2
  <2>2. QED
    BY <2>1, Smallest, Zenon
<1>4. \A q \in C : Better(s, p, q)
  <2>1. ASSUME NEW q \in C PROVE Better(s, p, q)
    <3>1. p \in C /\ EffectiveDepth(s, p) = d /\ d <= EffectiveDepth(s, q)
      BY <1>2, <1>3
    <3>2. EffectiveDepth(s, q) = d => p <= q
      BY <1>3
    <3>3. QED
      BY <3>1, <3>2, <1>1 DEF Better
  <2>2. QED
    BY <2>1
<1>5. QED
  BY <1>3, <1>4 DEF BestCandidate

\* Parent selection names a peer whose path does not lead back, or nobody.
LEMMA Evaluated ==
    ASSUME NEW s, Shape(s), NEW x
    PROVE  evaluate_parent(s, x) = None \/ Open(s, evaluate_parent(s, x))
<1>1. ASSUME Candidates(s) # {} PROVE Open(s, BestCandidate(s))
  BY <1>1, BestIsCandidate DEF Open, Candidates
<1>2. QED
  BY <1>1 DEF evaluate_parent, IfSwitch

-----------------------------------------------------------------------------
(* Declaring.                                                                *)

\* Recomputing coordinates from a parent whose path does not lead back links them.
LEMMA Recomputed ==
    ASSUME NEW s, Shape(s), s.parent = s.addr \/ Open(s, s.parent)
    PROVE  LET t == recompute_coords(s)
           IN  Declares(s, t) /\ t.seq = s.seq /\ t.leaf = s.leaf /\ Linked(t)
<1>0. DOMAIN s = StateFields /\ s.addr \in Node
  BY DEF Shape
<1>1. CASE s.parent = s.addr
  <2> DEFINE t == [s EXCEPT !.coords = <<s.addr>>]
  <2>1. recompute_coords(s) = t
    BY <1>1 DEF recompute_coords
  <2>2. Declares(s, t) /\ t.seq = s.seq /\ t.leaf = s.leaf /\ t.parent = s.addr /\ t.coords = <<s.addr>>
    BY <1>0, <1>1 DEF Declares, Same, StateFields
  <2> HIDE DEF t
  <2>3. QED
    BY <2>1, <2>2, Zenon DEF Linked, Declares, Same
<1>2. CASE s.parent # s.addr /\ ~s.leaf /\ s.addr <= peer_root(s, s.parent)
  <2> DEFINE t == [s EXCEPT !.parent = s.addr, !.coords = <<s.addr>>]
  <2>1. recompute_coords(s) = t
    BY <1>2, Zenon DEF recompute_coords, Open
  <2>2. Declares(s, t) /\ t.seq = s.seq /\ t.leaf = s.leaf /\ t.parent = s.addr /\ t.coords = <<s.addr>>
    BY <1>0 DEF Declares, Same, StateFields
  <2> HIDE DEF t
  <2>3. QED
    BY <2>1, <2>2, Zenon DEF Linked, Declares, Same
<1>3. CASE s.parent # s.addr /\ ~(~s.leaf /\ s.addr <= peer_root(s, s.parent))
  <2> DEFINE c == <<s.addr>> \o s.heard[s.parent].path
             t == [s EXCEPT !.coords = c]
  <2>1. recompute_coords(s) = t
    BY <1>3, Zenon DEF recompute_coords, Open
  <2> HIDE DEF c
  <2>2. /\ Declares(s, t) /\ t.seq = s.seq /\ t.leaf = s.leaf /\ t.parent = s.parent
        /\ t.coords = c
    BY <1>0 DEF Declares, Same, StateFields
  <2> HIDE DEF t
  <2>3. Known(t) = Known(s) /\ peer_root(t, s.parent) = peer_root(s, s.parent)
    BY <2>2 DEF Declares, Known, peer_root
  <2>4. ~s.leaf => peer_root(s, s.parent) < s.addr
    BY <1>0, <1>3, KnownPaths, Addresses DEF Open
  <2>5. QED
    BY <1>3, <2>1, <2>2, <2>3, <2>4, Zenon DEF Linked, Declares, Same, Open, c
<1>4. QED
  BY <1>1, <1>2, <1>3

\* The state keeps its shape when only the declaration changes.
LEMMA ShapeKept ==
    ASSUME NEW s, NEW t, Shape(s), Declares(s, t), t.seq \in Nat \ {0}
    PROVE  Shape(t)
  BY DEF Shape, Declares, Same

\* A new declaration.
Rebased(s, t) == Declares(s, t) /\ t.seq = s.seq + 1 /\ t.leaf = s.leaf /\ Linked(t)

\* Adopting a parent whose path does not lead back makes one; so does becoming the root.
LEMMA Adopted ==
    ASSUME NEW s, Shape(s), NEW p, p = s.addr \/ Open(s, p)
    PROVE  Rebased(s, AdoptParent(s, p))
<1> DEFINE u == [s EXCEPT !.parent = p, !.seq = s.seq + 1]
           t == recompute_coords(u)
<1>1. DOMAIN s = StateFields /\ s.seq \in Nat
  BY DEF Shape
<1>2. AdoptParent(s, p) = t
  BY DEF AdoptParent, set_parent
<1> HIDE DEF t
<1>3. Declares(s, u) /\ u.seq = s.seq + 1 /\ u.leaf = s.leaf /\ u.parent = p
  BY <1>1 DEF Declares, Same, StateFields
<1> USE DEF t
<1> HIDE DEF u
<1>4. Shape(u)
  <2>1. u.seq \in Nat \ {0}
    BY <1>1, <1>3
  <2>2. QED
    BY <1>3, <2>1, ShapeKept
<1>5. u.parent = u.addr \/ Open(u, u.parent)
  BY <1>3, Zenon DEF Open, Known, Declares, Same
<1>6. Declares(u, t) /\ t.seq = u.seq /\ t.leaf = u.leaf /\ Linked(t)
  BY <1>4, <1>5, Recomputed, Zenon
<1>7. QED
  BY <1>2, <1>3, <1>6, Zenon DEF Rebased, Declares, Same

\* become_root makes a new declaration.
LEMMA Rooted ==
    ASSUME NEW s, Shape(s)
    PROVE  Rebased(s, become_root(s))
<1>1. become_root(s) = AdoptParent(s, s.addr)
  BY DEF become_root, AdoptParent
<1>2. QED
  BY <1>1, Adopted

\* The parent is lost: the next best one, or none.
LEMMA ParentLost ==
    ASSUME NEW s, Shape(s), NEW x
    PROVE  Rebased(s, handle_parent_lost(s, x))
  BY Evaluated, Adopted, Rooted DEF handle_parent_lost, AdoptOrRoot

\* A re-evaluation makes a new declaration if it finds a parent or should be the root.
LEMMA Reevaluated ==
    ASSUME NEW s, Shape(s), NEW x
    PROVE  LET t == Reselected(s, evaluate_parent(s, x))
           IN  /\ t = s \/ Rebased(s, t)
               /\ (~is_root(s) /\ (evaluate_parent(s, x) # None \/ should_be_root(s))) => Rebased(s, t)
  BY Evaluated, Adopted, Rooted DEF Reselected

\* The same state but for what is owed to peers.
Identical(s, t) ==
    /\ Declares(s, t)
    /\ t.seq = s.seq /\ t.leaf = s.leaf /\ t.parent = s.parent /\ t.coords = s.coords

\* mark_all_tree_announces_pending changes nothing else.
LEMMA MarkedPending ==
    ASSUME NEW s, Shape(s)
    PROVE  Identical(s, mark_all_tree_announces_pending(s))
<1>1. DOMAIN s = StateFields
  BY DEF Shape
<1>2. QED
  BY <1>1 DEF mark_all_tree_announces_pending, Identical, Declares, Same, StateFields

\* Shape and links depend on nothing else.
LEMMA IdenticalKeeps ==
    ASSUME NEW s, NEW t, Shape(s), Identical(s, t)
    PROVE  /\ Shape(t)
           /\ Linked(s) => Linked(t)
           /\ Known(t) = Known(s)
           /\ Settled(s) => Settled(t)
<1>1. Shape(t)
  BY ShapeKept DEF Identical, Shape
<1>2. Linked(s) => Linked(t)
  BY Zenon DEF Identical, Declares, Same, Linked, Open, Known, peer_root
<1>3. Known(t) = Known(s)
  BY Zenon DEF Identical, Declares, Known
<1>4. Settled(s) => Settled(t)
  BY Zenon DEF Identical, Declares, Same, Settled
<1>5. QED
  BY <1>1, <1>2, <1>3, <1>4

-----------------------------------------------------------------------------
(* The role of a client.                                                     *)

\* A node with its proper role keeps it.
LEMMA RoleKept ==
    ASSUME NEW s, Settled(s), NEW x
    PROVE  refresh_client_role(s, x) = s
  BY Zenon DEF refresh_client_role, Settled

\* Otherwise it takes it under a new sequence number, and a client looks for a parent.
LEMMA RoleRefreshed ==
    ASSUME NEW s, Shape(s), Linked(s), NEW x
    PROVE  LET t == refresh_client_role(s, x)
           IN  /\ Declares(s, t) /\ Shape(t) /\ Linked(t) /\ Settled(t)
               /\ t = s \/ t.seq = s.seq + 1
<1> DEFINE client == s.leaf_only /\ \A p \in s.peers : s.role[p].supported
           u == [s EXCEPT !.leaf = client, !.seq = @ + 1]
           v == recompute_coords(u)
           w == ClientJoins(v, x)
           t == mark_all_tree_announces_pending(w)
<1>0. DOMAIN s = StateFields /\ s.seq \in Nat \ {0}
  BY DEF Shape
<1>1. CASE client = s.leaf
  <2>1. refresh_client_role(s, x) = s
    BY <1>1, Zenon DEF refresh_client_role
  <2>2. Settled(s)
    BY <1>1, Zenon DEF Settled
  <2>3. Declares(s, s)
    BY <1>0 DEF Declares, Same
  <2>4. QED
    BY <2>1, <2>2, <2>3, Zenon
<1>2. CASE client # s.leaf
  <2>1. refresh_client_role(s, x) = t
    BY <1>2, Zenon DEF refresh_client_role, AdvanceRole
  <2> HIDE DEF client
  <2>2. Declares(s, u) /\ u.seq = s.seq + 1 /\ u.leaf = client /\ u.parent = s.parent
    BY <1>0 DEF Declares, Same, StateFields
  <2> HIDE DEF u
  <2>3. Shape(u) /\ u.seq \in Nat \ {0}
    <3>1. u.seq \in Nat \ {0}
      BY <1>0, <2>2
    <3>2. QED
      BY <3>1, <2>2, ShapeKept
  <2>4. u.parent = u.addr \/ Open(u, u.parent)
    BY <2>2, Zenon DEF Linked, Open, Known, Declares, Same
  <2>5. Declares(u, v) /\ v.seq = u.seq /\ v.leaf = u.leaf /\ Linked(v)
    BY <2>3, <2>4, Recomputed, Zenon
  <2> HIDE DEF v
  <2>6. Shape(v)
    BY <2>3, <2>5, ShapeKept
  <2>7. Declares(v, w) /\ w.seq = v.seq /\ w.leaf = v.leaf /\ Linked(w)
    <3>1. CASE w = v
      BY <3>1, <2>5, <2>6 DEF Declares, Same, Shape
    <3>2. CASE w # v
      <4> DEFINE p == evaluate_parent(v, x)
                 z == [v EXCEPT !.parent = p, !.seq = v.seq]
      <4>1. p # None /\ w = recompute_coords(z)
        BY <3>2, Zenon DEF ClientJoins, KeepOrJoin, set_parent
      <4> HIDE DEF w
      <4>2. Open(v, p)
        BY <4>1, <2>6, Evaluated
      <4> HIDE DEF p
      <4>3. Declares(v, z) /\ z.seq = v.seq /\ z.leaf = v.leaf /\ z.parent = p
        BY <2>6 DEF Declares, Same, StateFields, Shape
      <4> HIDE DEF z
      <4>4. Shape(z)
        BY <4>3, <2>3, <2>5, <2>6, ShapeKept
      <4>5. Open(z, z.parent)
        BY <4>2, <4>3, Zenon DEF Open, Known, Declares, Same
      <4>6. Declares(z, w) /\ w.seq = z.seq /\ w.leaf = z.leaf /\ Linked(w)
        BY <4>1, <4>4, <4>5, Recomputed, Zenon
      <4>7. QED
        BY <4>3, <4>6, Zenon DEF Declares, Same
    <3>3. QED
      BY <3>1, <3>2
  <2> HIDE DEF w
  <2>8. Shape(w)
    BY <2>3, <2>5, <2>6, <2>7, ShapeKept
  <2>9. Identical(w, t)
    BY <2>8, MarkedPending
  <2> HIDE DEF t
  <2>10. Shape(t) /\ Linked(t)
    BY <2>7, <2>8, <2>9, IdenticalKeeps, Zenon
  <2>11. Declares(s, t) /\ t.seq = s.seq + 1 /\ t.leaf = client
    BY <2>2, <2>5, <2>7, <2>9, Zenon DEF Identical, Declares, Same
  <2>12. Settled(t)
    BY <2>11, Zenon DEF Settled, Declares, Same, client
  <2>13. QED
    BY <2>1, <2>10, <2>11, <2>12, Zenon
<1>3. QED
  BY <1>1, <1>2

-----------------------------------------------------------------------------
(* Announcements.                                                            *)

\* An announcement that its receiver will accept.
Sound(m) ==
    /\ IsPath(m.path, m.from) /\ m.seq \in Nat \ {0}
    /\ IF m.parent = m.from THEN Len(m.path) = 1
                            ELSE Len(m.path) > 1 /\ m.path[2] = m.parent

\* The node t, or the same node earlier, has sent m.
Posted(m, t) ==
    /\ m.from = t.addr /\ m.to \in t.peers /\ m.epoch = t.epoch
    /\ m.type = "tree" =>
          /\ Sound(m) /\ m.seq <= t.seq
          /\ m.seq = t.seq => m.parent = t.parent /\ m.path = t.coords

\* The same declaration: only what is owed and asked may differ, and old roles.
Unmoved(s, t) ==
    /\ Same(s, t) /\ t.peers = s.peers /\ t.heard = s.heard
    /\ t.cost = s.cost /\ t.seen = s.seen
    /\ t.seq = s.seq /\ t.leaf = s.leaf /\ t.parent = s.parent /\ t.coords = s.coords
    /\ DOMAIN t.role = Node
    /\ \A p \in Node : DOMAIN t.role[p] = RoleFields /\ t.role[p].supported = s.role[p].supported

\* Shape, links and role survive such a step.
LEMMA UnmovedKeeps ==
    ASSUME NEW s, NEW t, Shape(s), Unmoved(s, t)
    PROVE  /\ Shape(t)
           /\ Linked(s) => Linked(t)
           /\ Coherent(s) => Coherent(t)
           /\ Known(t) = Known(s)
           /\ Settled(s) => Settled(t)
<1>1. Shape(t)
  BY DEF Shape, Unmoved, Same
<1>2. Linked(s) => Linked(t)
  BY Zenon DEF Unmoved, Same, Linked, Open, Known, peer_root
<1>3. Coherent(s) => Coherent(t)
  BY Zenon DEF Unmoved, Same, Coherent
<1>4. Known(t) = Known(s)
  BY Zenon DEF Unmoved, Known
<1>5. Settled(s) => Settled(t)
  <2>1. s.peers \subseteq Node
    BY DEF Shape
  <2>2. (\A p \in t.peers : t.role[p].supported) = (\A p \in s.peers : s.role[p].supported)
    BY <2>1 DEF Unmoved
  <2>3. QED
    BY <2>2, Zenon DEF Unmoved, Same, Settled
<1>6. QED
  BY <1>1, <1>2, <1>3, <1>4, <1>5

\* A node whose debts alone have changed has not moved.
LEMMA IdenticalIsUnmoved ==
    ASSUME NEW s, NEW t, Shape(s), Identical(s, t)
    PROVE  Unmoved(s, t)
  BY DEF Shape, Identical, Declares, Unmoved

\* What a node with coherent coordinates announces is sound.
LEMMA AnnouncesSound ==
    ASSUME NEW s, Shape(s), Coherent(s), ~s.leaf, NEW p \in s.peers
    PROVE  Posted(TreeAnnounce(s, p), s)
<1> DEFINE m == TreeAnnounce(s, p)
<1>1. /\ m.from = s.addr /\ m.to = p /\ m.epoch = s.epoch
      /\ m.parent = s.parent /\ m.seq = s.seq /\ m.path = s.coords
  BY DEF TreeAnnounce
<1> HIDE DEF m
<1>2. s.seq \in Nat \ {0} /\ s.addr \in Node
  BY DEF Shape
<1>3. IsPath(s.coords, s.addr)
  BY DEF Coherent, IsPath
<1>4. IF s.parent = s.addr THEN Len(s.coords) = 1 ELSE Len(s.coords) > 1 /\ s.coords[2] = s.parent
  BY DEF Coherent
<1>5. Sound(m)
  BY <1>1, <1>2, <1>3, <1>4, Zenon DEF Sound
<1>6. m.seq <= s.seq
  BY <1>1, <1>2
<1>7. Posted(m, s)
  BY <1>1, <1>5, <1>6, Zenon DEF Posted
<1>8. QED
  BY <1>7 DEF m

\* ClientOnly and ClientSupport messages carry no path.
LEMMA OthersSound ==
    ASSUME NEW s, NEW p \in s.peers
    PROVE  Posted(ClientOnly(s, p), s) /\ Posted(ClientSupport(s, p), s)
  BY DEF ClientOnly, ClientSupport, Posted

\* Sending changes no declaration, and sends what is sound.
LEMMA SentToEach ==
    ASSUME NEW s, Shape(s), Coherent(s), NEW targets, NEW limited
    PROVE  LET r == SendToEach(s, targets, limited)
           IN  Unmoved(s, r.node) /\ \A m \in r.sent : Posted(m, s)
<1> DEFINE go == (targets \cap s.peers) \ limited
           asked == {p \in go : s.leaf_only /\ ~s.role[p].supported /\ ~s.role[p].asked}
           told == go \ asked
           supports == {p \in told : /\ ~s.leaf /\ ~s.role[p].client
                                     /\ s.leaf_only \/ s.role[p].supported}
           pending == (s.pending \cup (targets \cap s.peers)) \ told
           role == [p \in Node |-> IF p \in asked THEN [s.role[p] EXCEPT !.asked = p \in Known(s)]
                                                   ELSE s.role[p]]
           t == [s EXCEPT !.pending = pending, !.role = role]
           sent == {ClientSupport(s, p) : p \in asked \cup supports}
                     \cup {IF s.leaf THEN ClientOnly(s, p) ELSE TreeAnnounce(s, p) : p \in told}
<1>1. DOMAIN s = StateFields /\ \A p \in Node : DOMAIN s.role[p] = RoleFields
  BY DEF Shape
<1>2. /\ SendToEach(s, targets, limited).node = t
      /\ SendToEach(s, targets, limited).sent = sent
  BY <1>1 DEF SendToEach, StateFields
<1>3. asked \subseteq s.peers /\ told \subseteq s.peers /\ supports \subseteq s.peers
  OBVIOUS
<1>4. \A m \in sent : Posted(m, s)
  BY <1>3, AnnouncesSound, OthersSound
<1>5. /\ DOMAIN role = Node
      /\ \A p \in Node : DOMAIN role[p] = RoleFields /\ role[p].supported = s.role[p].supported
  BY <1>1 DEF RoleFields
<1> HIDE DEF sent, role, pending
<1>6. Unmoved(s, t)
  BY <1>1, <1>5 DEF Unmoved, Same, StateFields
<1>7. QED
  BY <1>2, <1>4, <1>6, Zenon

\* What was sent stays sound while the declaration advances.
LEMMA PostedLater ==
    ASSUME NEW s, NEW t, s.seq \in Nat, Advances(s, t), NEW m, Posted(m, s),
           t.addr = s.addr, t.epoch = s.epoch, t.peers = s.peers
    PROVE  Posted(m, t)
<1>1. CASE m.type # "tree"
  BY <1>1 DEF Posted
<1>2. CASE m.type = "tree"
  <2>1. Sound(m) /\ m.seq \in Nat /\ m.seq <= s.seq
    BY <1>2 DEF Posted, Sound
  <2>2. m.seq <= t.seq
    BY <2>1 DEF Advances
  <2>3. ASSUME m.seq = t.seq PROVE m.parent = t.parent /\ m.path = t.coords
    <3>1. t.seq = s.seq /\ t.parent = s.parent /\ t.coords = s.coords
      BY <2>1, <2>3 DEF Advances
    <3>2. QED
      BY <1>2, <2>3, <3>1 DEF Posted
  <2>4. QED
    BY <1>2, <2>1, <2>2, <2>3, Zenon DEF Posted
<1>3. QED
  BY <1>1, <1>2

-----------------------------------------------------------------------------
(* The handlers.                                                             *)

\* A handler that hears nothing leaves t and has sent M.
Outcome(s, t, M) ==
    /\ Shape(t) /\ Linked(t) /\ Settled(t)
    /\ Same(s, t) /\ t.peers = s.peers /\ t.heard = s.heard /\ t.seen = s.seen
    /\ Advances(s, t)
    /\ \A m \in M : Posted(m, t)

\* A silent handler that changes nothing.
LEMMA NoChange ==
    ASSUME NEW s, Shape(s), Linked(s), Settled(s)
    PROVE  Outcome(s, s, {})
  BY DEF Outcome, Shape, Same, Advances

\* A handler that begins with a new declaration.
LEMMA OutcomeFrom ==
    ASSUME NEW s, NEW u, NEW t, NEW M, s.seq \in Nat, u.seq \in Nat,
           Same(s, u), u.peers = s.peers, u.heard = s.heard, u.seen = s.seen,
           Advances(s, u), Outcome(u, t, M)
    PROVE  Outcome(s, t, M)
<1>1. Advances(s, t)
  BY DEF Outcome, Advances
<1>2. QED
  BY <1>1, Zenon DEF Outcome, Same

\* send_tree_announce_to_peer settles the role and announces it.
LEMMA SentAnnounces ==
    ASSUME NEW s, Shape(s), Linked(s), NEW targets, NEW x, NEW limited
    PROVE  LET r == send_tree_announces(s, targets, x, limited)
           IN  Outcome(s, r.node, r.sent)
<1> DEFINE u == refresh_client_role(s, x)
           r == SendToEach(u, targets, limited)
           t == r.node
           M == r.sent
<1>1. send_tree_announces(s, targets, x, limited) = r
  BY DEF send_tree_announces
<1>2. /\ Declares(s, u) /\ Shape(u) /\ Linked(u) /\ Settled(u)
      /\ u = s \/ u.seq = s.seq + 1
  BY RoleRefreshed, Zenon
<1>3. Coherent(u)
  BY <1>2, LinkedCoheres
<1> HIDE DEF u
<1>4. Unmoved(u, t) /\ \A m \in M : Posted(m, u)
  BY <1>2, <1>3, SentToEach, Zenon
<1> HIDE DEF t, M
<1>5. Shape(t) /\ Linked(t) /\ Settled(t)
  BY <1>2, <1>4, UnmovedKeeps, Zenon
<1>6. s.seq \in Nat /\ u.seq \in Nat
  BY <1>2 DEF Shape
<1>7. Advances(u, t)
  BY <1>4, <1>6 DEF Unmoved, Advances
<1>8. \A m \in M : Posted(m, t)
  BY <1>4, <1>6, <1>7, PostedLater, Zenon DEF Unmoved, Same
<1>9. Outcome(u, t, M)
  BY <1>4, <1>5, <1>7, <1>8, Zenon DEF Outcome, Unmoved
<1>10. Advances(s, u)
  BY <1>2, <1>6 DEF Advances
<1>11. Outcome(s, t, M)
  BY <1>2, <1>6, <1>9, <1>10, OutcomeFrom, Zenon DEF Declares
<1>12. QED
  BY <1>1, <1>11, Zenon DEF t, M

\* So does send_tree_announce_to_all, for all peers.
LEMMA SentToAll ==
    ASSUME NEW s, Shape(s), Linked(s), NEW x, NEW limited
    PROVE  LET r == send_tree_announce_to_all(s, x, limited)
           IN  Outcome(s, r.node, r.sent)
<1> DEFINE u == mark_all_tree_announces_pending(s)
           r == send_tree_announces(u, s.peers, x, limited)
<1>1. send_tree_announce_to_all(s, x, limited) = r
  BY DEF send_tree_announce_to_all
<1>2. Identical(s, u)
  BY MarkedPending
<1> HIDE DEF u
<1>3. Shape(u) /\ Linked(u)
  BY <1>2, IdenticalKeeps
<1>4. Outcome(u, r.node, r.sent)
  BY <1>3, SentAnnounces, Zenon
<1> HIDE DEF r
<1>5. s.seq \in Nat /\ u.seq \in Nat /\ Advances(s, u)
  BY <1>2, <1>3 DEF Shape, Advances, Identical
<1>6. Outcome(s, r.node, r.sent)
  BY <1>2, <1>4, <1>5, OutcomeFrom, Zenon DEF Identical, Declares
<1>7. QED
  BY <1>1, <1>6, Zenon

\* A new declaration that is announced.
LEMMA AnnouncedMove ==
    ASSUME NEW s, Shape(s), NEW u, Rebased(s, u), NEW x, NEW limited
    PROVE  LET r == send_tree_announce_to_all(u, x, limited)
           IN  Outcome(s, r.node, r.sent)
<1> DEFINE r == send_tree_announce_to_all(u, x, limited)
<1>1. s.seq \in Nat /\ u.seq \in Nat \ {0}
  BY DEF Shape, Rebased
<1>2. Shape(u) /\ Linked(u)
  BY <1>1, ShapeKept DEF Rebased
<1>3. Outcome(u, r.node, r.sent)
  BY <1>2, SentToAll, Zenon
<1> HIDE DEF r
<1>4. Advances(s, u)
  BY <1>1 DEF Advances, Rebased
<1>5. Outcome(s, r.node, r.sent)
  BY <1>1, <1>3, <1>4, OutcomeFrom, Zenon DEF Rebased, Declares
<1>6. QED
  BY <1>5 DEF r

\* A re-evaluation, also right after the parent has announced something new, if that
\* makes the node switch.
LEMMA Reselects ==
    ASSUME NEW s, Shape(s), Settled(s), NEW x, NEW limited,
           \/ Linked(s)
           \/ ~is_root(s) /\ (evaluate_parent(s, x) # None \/ should_be_root(s))
    PROVE  LET r == Reselect(s, x, limited)
           IN  Outcome(s, r.node, r.sent)
<1> DEFINE t == Reselected(s, evaluate_parent(s, x))
<1>1. Reselect(s, x, limited) =
        IF t = s THEN Quietly(s) ELSE send_tree_announce_to_all(t, x, limited)
  BY Zenon DEF Reselect, AnnounceChange
<1>2. /\ t = s \/ Rebased(s, t)
      /\ (~is_root(s) /\ (evaluate_parent(s, x) # None \/ should_be_root(s))) => Rebased(s, t)
  BY Reevaluated, Zenon
<1> HIDE DEF t
<1>3. ASSUME Rebased(s, t) PROVE t # s
  BY <1>3 DEF Shape, Rebased
<1>4. CASE t = s
  <2>1. Outcome(s, s, {})
    BY <1>2, <1>3, <1>4, NoChange
  <2>2. QED
    BY <1>1, <1>4, <2>1 DEF Quietly
<1>5. CASE t # s
  BY <1>1, <1>2, <1>5, AnnouncedMove, Zenon
<1>6. QED
  BY <1>4, <1>5

\* The parent has announced something new, and stays the parent unless its path now
\* leads through the node.
LEMMA ParentMoved ==
    ASSUME NEW s, Shape(s), Settled(s), s.parent \in Known(s), NEW x, NEW limited
    PROVE  LET r == ParentUpdated(s, x, limited)
           IN  Outcome(s, r.node, r.sent)
<1> DEFINE looped == s.addr \in Range(s.heard[s.parent].path)
           t == Updated(s, looped, x)
<1>1. ParentUpdated(s, x, limited) =
        IF looped \/ t.coords # s.coords THEN send_tree_announce_to_all(t, x, limited)
        ELSE Quietly(t)
  BY Zenon DEF ParentUpdated, AnnounceMove
<1>2. Rebased(s, t)
  <2>1. CASE looped
    BY <2>1, ParentLost, Zenon DEF Updated
  <2>2. CASE ~looped
    BY <2>2, Adopted, Zenon DEF Updated, Open
  <2>3. QED
    BY <2>1, <2>2
<1> HIDE DEF t, looped
<1>3. Outcome(s, t, {})
  <2>1. s.seq \in Nat /\ t.seq \in Nat \ {0}
    BY <1>2 DEF Shape, Rebased
  <2>2. Shape(t) /\ Linked(t)
    BY <1>2, <2>1, ShapeKept DEF Rebased
  <2>3. Settled(t)
    BY <1>2, Zenon DEF Rebased, Declares, Same, Settled
  <2>4. Advances(s, t)
    BY <1>2, <2>1 DEF Advances, Rebased
  <2>5. QED
    BY <1>2, <2>2, <2>3, <2>4, Zenon DEF Outcome, Rebased, Declares
<1>4. QED
  BY <1>1, <1>2, <1>3, AnnouncedMove DEF Quietly

\* The same place in the tree: roles, costs, peers and debts may differ.
Placed(s, t) ==
    /\ Same(s, t) /\ t.heard = s.heard
    /\ t.seq = s.seq /\ t.leaf = s.leaf /\ t.parent = s.parent /\ t.coords = s.coords

\* The links depend on the place alone.
LEMMA PlacedKeeps ==
    ASSUME NEW s, NEW t, Shape(s), Placed(s, t)
    PROVE  /\ Linked(s) => Linked(t)
           /\ Known(t) = Known(s)
           /\ Advances(s, t)
<1>1. Linked(s) => Linked(t)
  BY Zenon DEF Placed, Same, Linked, Open, Known, peer_root
<1>2. Known(t) = Known(s)
  BY Zenon DEF Placed, Known
<1>3. Advances(s, t)
  BY DEF Placed, Advances, Shape
<1>4. QED
  BY <1>1, <1>2, <1>3

\* Declarations advance along a handler.
LEMMA AdvancesOn ==
    ASSUME NEW s, NEW u, NEW t, s.seq \in Nat, Advances(s, u), Advances(u, t)
    PROVE  Advances(s, t)
  BY DEF Advances

\* The node forgets what p announced, and looks for another parent if p was it.
Forgets(s, t, p) ==
    /\ Shape(t) /\ Linked(t) /\ Settled(t) /\ Same(s, t)
    /\ t.peers = s.peers /\ t.seen = s.seen
    /\ t.heard = [s.heard EXCEPT ![p] = NotHeard]
    /\ Advances(s, t)

\* handle_peer_removal_tree_cleanup does that.
LEMMA CleanedUp ==
    ASSUME NEW s, Shape(s), Linked(s), Settled(s), NEW p \in Node, NEW x
    PROVE  Forgets(s, handle_peer_removal_tree_cleanup(s, p, x), p)
<1> DEFINE heard == [s.heard EXCEPT ![p] = NotHeard]
           gone == [s EXCEPT !.heard = heard]
           u == handle_parent_lost(gone, x)
           t == mark_all_tree_announces_pending(u)
<1>1. DOMAIN s = StateFields /\ DOMAIN s.heard = Node /\ s.seq \in Nat \ {0}
  BY DEF Shape
<1>2. handle_peer_removal_tree_cleanup(s, p, x) = IF ~is_root(s) /\ s.parent = p THEN t ELSE gone
  BY <1>1 DEF handle_peer_removal_tree_cleanup, StateFields
<1>3. is_root(s) <=> s.parent = s.addr
  BY LinkedCoheres, RootHasNoParent
<1>4. DOMAIN heard = Node /\ heard[p] = NotHeard /\ \A q \in Node \ {p} : heard[q] = s.heard[q]
  BY <1>1
<1> HIDE DEF heard
<1>5. /\ Same(s, gone) /\ gone.peers = s.peers /\ gone.seen = s.seen /\ gone.heard = heard
      /\ gone.role = s.role /\ gone.cost = s.cost
      /\ gone.seq = s.seq /\ gone.leaf = s.leaf /\ gone.parent = s.parent /\ gone.coords = s.coords
  BY <1>1 DEF Same, StateFields
<1> HIDE DEF gone
<1>6. Shape(gone)
  BY <1>4, <1>5 DEF Shape, Same, HeardOK
<1>7. Settled(gone)
  BY <1>5, Zenon DEF Settled, Same
<1>8. CASE ~is_root(s) /\ s.parent = p
  <2>1. Rebased(gone, u)
    BY <1>6, ParentLost
  <2> HIDE DEF u
  <2>2. u.seq \in Nat \ {0} /\ gone.seq \in Nat
    BY <1>1, <1>5, <2>1 DEF Rebased
  <2>3. Shape(u) /\ Linked(u)
    BY <1>6, <2>1, <2>2, ShapeKept DEF Rebased
  <2>4. Identical(u, t)
    BY <2>3, MarkedPending
  <2> HIDE DEF t
  <2>5. Shape(t) /\ Linked(t)
    BY <2>3, <2>4, IdenticalKeeps
  <2>6. Settled(t)
    BY <1>7, <2>1, <2>4, Zenon, ZenonT(30) DEF Settled, Rebased, Identical, Declares, Same
  <2>7. t.seq = s.seq + 1
    BY <1>5, <2>1, <2>4 DEF Rebased, Identical
  <2>8. Advances(s, t)
    BY <1>1, <2>7 DEF Advances
  <2>9. Forgets(s, t, p)
    BY <1>5, <2>1, <2>4, <2>5, <2>6, <2>8, Zenon DEF Forgets, Rebased, Identical, Declares, Same, heard
  <2>10. QED
    BY <1>2, <1>8, <2>9, Zenon
<1>9. CASE ~(~is_root(s) /\ s.parent = p)
  <2>1. s.parent # s.addr => s.parent # p /\ s.parent \in Node
    BY <1>3, <1>9 DEF Linked, Open, Known
  <2>2. s.parent # s.addr => gone.heard[s.parent] = s.heard[s.parent]
    BY <1>4, <1>5, <2>1
  <2>3. Linked(gone)
    BY <1>5, <2>1, <2>2, Zenon DEF Linked, Open, Known, peer_root, Same
  <2>4. Advances(s, gone)
    BY <1>1, <1>5 DEF Advances
  <2>5. Forgets(s, gone, p)
    BY <1>5, <1>6, <1>7, <2>3, <2>4, Zenon DEF Forgets, heard
  <2>6. QED
    BY <1>2, <1>9, <2>5, Zenon
<1>10. QED
  BY <1>8, <1>9

-----------------------------------------------------------------------------
(* A node between two handlers.                                              *)

Good(s) == Shape(s) /\ Linked(s) /\ Settled(s) /\ Known(s) \subseteq s.peers

\* A handler has left t and sent M, and has heard no path.
Handled(s, t, M) ==
    /\ Good(t) /\ Same(s, t) /\ t.peers \subseteq s.peers /\ t.seen = s.seen
    /\ Advances(s, t)
    /\ \A q \in Node : t.heard[q] = s.heard[q] \/ t.heard[q] = NotHeard
    /\ \A m \in M : Posted(m, t)

\* A handler that only notes a role, cost or debt before it acts.
LEMMA OutcomeIsHandled ==
    ASSUME NEW s, NEW u, NEW t, NEW M, Good(s), Placed(s, u), u.peers = s.peers,
           u.seen = s.seen, Outcome(u, t, M)
    PROVE  Handled(s, t, M)
<1>1. Known(t) = Known(s)
  BY Zenon DEF Known, Outcome, Placed
<1>2. Advances(s, t)
  <2>1. s.seq \in Nat
    BY DEF Good, Shape
  <2>2. Advances(s, u)
    BY <2>1 DEF Advances, Placed
  <2>3. QED
    BY <2>1, <2>2, AdvancesOn, Zenon DEF Outcome
<1>3. Good(t)
  BY <1>1, Zenon DEF Good, Outcome
<1>4. QED
  BY <1>2, <1>3, Zenon DEF Handled, Outcome, Placed, Same

\* Forgetting p, after a change of peers and roles that keeps the place in the tree.
LEMMA ForgetIsHandled ==
    ASSUME NEW s, NEW u, NEW t, NEW p \in Node, Good(s), s.seq \in Nat, Same(s, u), u.heard = s.heard,
           u.seen = s.seen, Advances(s, u), u.peers \subseteq s.peers,
           s.peers \subseteq u.peers \cup {p}, Forgets(u, t, p)
    PROVE  Handled(s, t, {})
<1>1. \A q \in Node : t.heard[q] = s.heard[q] \/ t.heard[q] = NotHeard
  BY DEF Forgets, Good, Shape
<1>2. t.heard[p] = NotHeard
  BY DEF Forgets, Good, Shape
<1>3. Known(t) \subseteq Known(s) \ {p}
  BY <1>1, <1>2 DEF Known, NotHeard
<1>4. Known(t) \subseteq t.peers
  BY <1>3 DEF Good, Forgets
<1>5. Advances(s, t)
  BY AdvancesOn, Zenon DEF Forgets
<1>6. QED
  BY <1>1, <1>4, <1>5 DEF Handled, Good, Forgets, Same

\* LinkDead: the peer stays, what it announced goes.
LEMMA LinkDeadHandled ==
    ASSUME NEW s, Good(s), NEW p \in s.peers, NEW x
    PROVE  Handled(s, mark_link_dead(s, p, x), {})
<1>1. p \in Node /\ s.seq \in Nat /\ Same(s, s) /\ Advances(s, s)
  BY DEF Good, Shape, Same, Advances
<1>2. Forgets(s, mark_link_dead(s, p, x), p)
  BY <1>1, CleanedUp, Zenon DEF mark_link_dead, Good
<1>3. QED
  BY <1>1, <1>2, ForgetIsHandled

\* The announcements that are due go out.
LEMMA DispatchHandled ==
    ASSUME NEW s, Good(s), NEW targets, NEW x, NEW limited
    PROVE  LET r == send_tree_announces(s, targets, x, limited) IN Handled(s, r.node, r.sent)
<1>1. Placed(s, s)
  BY DEF Good, Shape, Placed, Same
<1>2. LET r == send_tree_announces(s, targets, x, limited) IN Outcome(s, r.node, r.sent)
  BY SentAnnounces, Zenon DEF Good
<1>3. QED
  BY <1>1, <1>2, OutcomeIsHandled, Zenon

\* The periodic re-evaluation.
LEMMA ReevaluateHandled ==
    ASSUME NEW s, Good(s), NEW x, NEW limited
    PROVE  LET r == check_periodic_parent_reeval(s, x, limited) IN Handled(s, r.node, r.sent)
<1> DEFINE r == check_periodic_parent_reeval(s, x, limited)
<1>1. Placed(s, s)
  BY DEF Good, Shape, Placed, Same
<1>2. Outcome(s, r.node, r.sent)
  <2>1. Outcome(s, s, {})
    BY NoChange DEF Good
  <2>2. LET q == Reselect(s, x, limited) IN Outcome(s, q.node, q.sent)
    BY Reselects, Zenon DEF Good
  <2>3. QED
    BY <2>1, <2>2 DEF check_periodic_parent_reeval, Quietly
<1> HIDE DEF r
<1>3. Handled(s, r.node, r.sent)
  BY <1>1, <1>2, OutcomeIsHandled, Zenon
<1>4. QED
  BY <1>3 DEF r

\* A receiver report measures a link.
LEMMA ReportHandled ==
    ASSUME NEW s, Good(s), NEW p \in s.peers, NEW c \in Nat, NEW x, NEW limited
    PROVE  LET r == handle_receiver_report(s, p, c, x, limited) IN Handled(s, r.node, r.sent)
<1> DEFINE r == handle_receiver_report(s, p, c, x, limited)
<1>1. Shape(s) /\ DOMAIN s = StateFields /\ DOMAIN s.cost = Node
  BY DEF Good, Shape
<1>2. PICK pending : LET u == [s EXCEPT !.cost[p] = c, !.pending = pending]
                     IN  r = Reselect(u, x, limited) \/ r = Quietly(u)
  BY Zenon DEF handle_receiver_report
<1> DEFINE cost == [s.cost EXCEPT ![p] = c]
           u == [s EXCEPT !.cost = cost, !.pending = pending]
<1>3. r = Reselect(u, x, limited) \/ r = Quietly(u)
  BY <1>1, <1>2 DEF StateFields
<1> HIDE DEF r
<1>4. DOMAIN cost = Node /\ \A q \in Node : cost[q] \in Nat
  BY <1>1 DEF Shape
<1> HIDE DEF cost
<1>5. /\ Placed(s, u) /\ u.peers = s.peers /\ u.role = s.role /\ u.seen = s.seen /\ u.cost = cost
  BY <1>1 DEF Placed, Same, StateFields
<1> HIDE DEF u
<1>6. Shape(u)
  BY <1>1, <1>4, <1>5 DEF Shape, Placed, Same
<1>7. Linked(u)
  BY <1>1, <1>5, PlacedKeeps, Zenon DEF Good
<1>8. Settled(u)
  BY <1>5, Zenon DEF Good, Settled, Placed, Same
<1>9. Outcome(u, u, {})
  BY <1>6, <1>7, <1>8, NoChange
<1>10. LET q == Reselect(u, x, limited) IN Outcome(u, q.node, q.sent)
  BY <1>6, <1>7, <1>8, Reselects, Zenon
<1>11. Outcome(u, r.node, r.sent)
  BY <1>3, <1>9, <1>10 DEF Quietly
<1>12. Handled(s, r.node, r.sent)
  BY <1>5, <1>11, OutcomeIsHandled, Zenon
<1>13. QED
  BY <1>12 DEF r

\* A role changes and the client role is refreshed.
Renewed(s, u, v) ==
    /\ Shape(v) /\ Linked(v) /\ Settled(v) /\ Same(s, v) /\ v.peers = u.peers
    /\ v.heard = s.heard /\ v.seen = s.seen /\ Advances(s, v)

\* refresh_client_role after such a change of roles or peers.
LEMMA RoleNoted ==
    ASSUME NEW s, Shape(s), Linked(s), NEW u, Shape(u), Placed(s, u), u.seen = s.seen, NEW x
    PROVE  Renewed(s, u, refresh_client_role(u, x))
<1> DEFINE v == refresh_client_role(u, x)
<1>1. Linked(u) /\ Advances(s, u)
  BY PlacedKeeps
<1>2. Declares(u, v) /\ Shape(v) /\ Linked(v) /\ Settled(v) /\ (v = u \/ v.seq = u.seq + 1)
  BY <1>1, RoleRefreshed, Zenon
<1> HIDE DEF v
<1>3. Advances(s, v)
  <2>1. s.seq \in Nat /\ u.seq \in Nat
    BY DEF Shape
  <2>2. Advances(u, v)
    BY <1>2, <2>1 DEF Advances
  <2>3. QED
    BY <1>1, <2>1, <2>2, AdvancesOn
<1>4. Renewed(s, u, v)
  BY <1>2, <1>3, Zenon DEF Declares, Placed, Same, Renewed
<1>5. QED
  BY <1>4 DEF v

\* A peer declares itself a client and leaves the tree.
LEMMA ClientOnlyHandled ==
    ASSUME NEW s, Good(s), NEW m, m.from \in Node, NEW x
    PROVE  Handled(s, handle_client_only(s, m, x), {})
<1> DEFINE p == m.from
           role == [s.role EXCEPT ![p] = [s.role[p] EXCEPT !.seq = m.seq, !.client = TRUE,
                                                           !.supported = TRUE]]
           u == [s EXCEPT !.role = role]
           v == refresh_client_role(u, x)
           t == handle_client_only(s, m, x)
<1>1. /\ Shape(s) /\ Linked(s) /\ DOMAIN s = StateFields /\ DOMAIN s.role = Node /\ s.seq \in Nat
      /\ \A q \in Node : DOMAIN s.role[q] = RoleFields
      /\ DOMAIN s.cost = Node /\ \A q \in Node : s.cost[q] \in Nat
  BY DEF Good, Shape
<1>2. Handled(s, s, {})
  BY <1>1 DEF Good, Handled, Same, Advances
<1>3. u = [s EXCEPT !.role[p].seq = m.seq, !.role[p].client = TRUE, !.role[p].supported = TRUE]
  BY <1>1, Zenon DEF StateFields, RoleFields
<1>4. t = s \/ t = v \/ t = handle_peer_removal_tree_cleanup(v, p, x)
  BY <1>3, Zenon DEF handle_client_only
<1> HIDE DEF t
<1>5. DOMAIN role = Node /\ \A q \in Node : DOMAIN role[q] = RoleFields
  BY <1>1 DEF RoleFields
<1> HIDE DEF role
<1>6. Placed(s, u) /\ u.role = role /\ u.peers = s.peers /\ u.seen = s.seen /\ u.cost = s.cost
  BY <1>1 DEF Placed, Same, StateFields
<1> HIDE DEF u
<1>7. /\ Shape(v) /\ Linked(v) /\ Settled(v) /\ Same(s, v) /\ v.peers = u.peers
      /\ v.heard = s.heard /\ v.seen = s.seen /\ Advances(s, v)
  <2>1. Shape(u)
    BY <1>1, <1>5, <1>6 DEF Shape, Placed, Same
  <2>2. Renewed(s, u, v)
    BY <1>1, <1>6, <2>1, RoleNoted, Zenon
  <2>3. QED
    BY <2>2, Zenon DEF Renewed
<1> HIDE DEF v
<1>8. Handled(s, v, {})
  <2>1. Known(v) = Known(s)
    BY <1>7, Zenon DEF Known
  <2>2. QED
    BY <1>6, <1>7, <2>1 DEF Handled, Good
<1>9. Forgets(v, handle_peer_removal_tree_cleanup(v, p, x), p)
  BY <1>7, CleanedUp
<1>10. Handled(s, handle_peer_removal_tree_cleanup(v, p, x), {})
  BY <1>1, <1>6, <1>7, <1>9, ForgetIsHandled
<1>11. Handled(s, t, {})
  BY <1>2, <1>4, <1>8, <1>10, Zenon
<1>12. QED
  BY <1>11 DEF t

\* A peer understands clients.
LEMMA SupportHandled ==
    ASSUME NEW s, Good(s), NEW m, m.from \in Node, NEW x
    PROVE  LET r == handle_client_support(s, m, x) IN Handled(s, r.node, r.sent)
<1> DEFINE p == m.from
           role == [s.role EXCEPT ![p] = [s.role[p] EXCEPT !.supported = TRUE]]
           u == [s EXCEPT !.role = role]
           v == refresh_client_role(u, x)
           t == [v EXCEPT !.pending = @ \cup {p}]
           r == handle_client_support(s, m, x)
<1>1. /\ Shape(s) /\ Linked(s) /\ DOMAIN s = StateFields /\ DOMAIN s.role = Node /\ s.seq \in Nat
      /\ \A q \in Node : DOMAIN s.role[q] = RoleFields
      /\ DOMAIN s.cost = Node /\ \A q \in Node : s.cost[q] \in Nat
  BY DEF Good, Shape
<1>2. Handled(s, s, {})
  BY <1>1 DEF Good, Handled, Same, Advances
<1>3. u = [s EXCEPT !.role[p].supported = TRUE]
  BY <1>1 DEF StateFields, RoleFields
<1>4. \/ r.node = s /\ r.sent = {}
      \/ p \in s.peers /\ r.node = t /\ (r.sent = {} \/ r.sent = {ClientSupport(t, p)})
  <2>1. CASE p \notin s.peers \/ s.role[p].supported
    BY <2>1 DEF handle_client_support, Quietly
  <2>2. CASE ~(p \notin s.peers \/ s.role[p].supported)
    <3>1. r = [node |-> t, sent |-> IF s.leaf_only \/ s.role[p].client THEN {}
                                    ELSE {ClientSupport(t, p)}]
      BY <1>3, <2>2, Zenon DEF handle_client_support
    <3> HIDE DEF r, t
    <3>2. QED
      BY <2>2, <3>1
  <2>3. QED
    BY <2>1, <2>2, Zenon
<1> HIDE DEF r
<1>5. DOMAIN role = Node /\ \A q \in Node : DOMAIN role[q] = RoleFields
  BY <1>1, Zenon DEF RoleFields
<1> HIDE DEF role
<1>6. Placed(s, u) /\ u.role = role /\ u.peers = s.peers /\ u.seen = s.seen /\ u.cost = s.cost
  BY <1>1 DEF Placed, Same, StateFields
<1> HIDE DEF u
<1>7. /\ Shape(v) /\ Linked(v) /\ Settled(v) /\ Same(s, v) /\ v.peers = u.peers
      /\ v.heard = s.heard /\ v.seen = s.seen /\ Advances(s, v)
  <2>1. Shape(u)
    BY <1>1, <1>5, <1>6 DEF Shape, Placed, Same
  <2>2. Renewed(s, u, v)
    BY <1>1, <1>6, <2>1, RoleNoted, Zenon
  <2>3. QED
    BY <2>2, Zenon DEF Renewed
<1> HIDE DEF v
<1>8. Identical(v, t)
  BY <1>7 DEF Shape, Identical, Declares, Same, StateFields
<1> HIDE DEF t
<1>9. Shape(t) /\ Linked(t) /\ Settled(t) /\ Known(t) = Known(v)
  BY <1>7, <1>8, IdenticalKeeps
<1>10. Advances(s, t)
  BY <1>7, <1>8 DEF Advances, Identical
<1>11. /\ Same(s, t) /\ t.peers = s.peers /\ t.heard = s.heard /\ t.seen = s.seen
  BY <1>6, <1>7, <1>8, Zenon DEF Identical, Declares, Same
<1>12. Known(t) \subseteq t.peers
  BY <1>11, Zenon DEF Good, Known
<1>13. ASSUME NEW M, \A n \in M : Posted(n, t) PROVE Handled(s, t, M)
  BY <1>9, <1>10, <1>11, <1>12, <1>13 DEF Handled, Good
<1>14. p \in s.peers => Posted(ClientSupport(t, p), t)
  BY <1>11, OthersSound
<1>15. Handled(s, r.node, r.sent)
  <2>1. CASE r.node = s /\ r.sent = {}
    BY <1>2, <2>1
  <2>2. CASE p \in s.peers /\ r.node = t /\ (r.sent = {} \/ r.sent = {ClientSupport(t, p)})
    <3>1. \A n \in r.sent : Posted(n, t)
      BY <1>14, <2>2
    <3>2. QED
      BY <1>13, <2>2, <3>1
  <2>3. QED
    BY <1>4, <2>1, <2>2
<1>16. QED
  BY <1>15 DEF r

\* Depart: the peer is removed.
LEMMA DepartHandled ==
    ASSUME NEW s, Good(s), NEW p \in s.peers, NEW x
    PROVE  Handled(s, remove_active_peer(s, p, x), {})
<1> DEFINE role == [s.role EXCEPT ![p] = NewRole]
           cost == [s.cost EXCEPT ![p] = 0]
           u == [s EXCEPT !.peers = @ \ {p}, !.role = role, !.cost = cost, !.pending = @ \ {p}]
           v == refresh_client_role(u, x)
<1>1. /\ Shape(s) /\ Linked(s) /\ DOMAIN s = StateFields /\ DOMAIN s.role = Node /\ s.seq \in Nat
      /\ \A q \in Node : DOMAIN s.role[q] = RoleFields
      /\ DOMAIN s.cost = Node /\ \A q \in Node : s.cost[q] \in Nat
      /\ p \in Node
  BY DEF Good, Shape
<1>2. u = [s EXCEPT !.peers = @ \ {p}, !.role[p] = NewRole, !.cost[p] = 0, !.pending = @ \ {p}]
  BY <1>1 DEF StateFields
<1>3. remove_active_peer(s, p, x) = handle_peer_removal_tree_cleanup(v, p, x)
  BY <1>2, Zenon DEF remove_active_peer
<1>4. /\ DOMAIN role = Node /\ \A q \in Node : DOMAIN role[q] = RoleFields
      /\ DOMAIN cost = Node /\ \A q \in Node : cost[q] \in Nat
  BY <1>1 DEF RoleFields, NewRole
<1> HIDE DEF role, cost
<1>5. Placed(s, u) /\ u.role = role /\ u.peers = s.peers \ {p} /\ u.seen = s.seen /\ u.cost = cost
  BY <1>1 DEF Placed, Same, StateFields
<1> HIDE DEF u
<1>6. u.peers \subseteq s.peers /\ s.peers \subseteq u.peers \cup {p}
  BY <1>5
<1>7. /\ Shape(v) /\ Linked(v) /\ Settled(v) /\ Same(s, v) /\ v.peers = u.peers
      /\ v.heard = s.heard /\ v.seen = s.seen /\ Advances(s, v)
  <2>1. Shape(u)
    BY <1>1, <1>4, <1>5, <1>6 DEF Shape, Placed, Same
  <2>2. Renewed(s, u, v)
    BY <1>1, <1>5, <2>1, RoleNoted, Zenon
  <2>3. QED
    BY <2>2, Zenon DEF Renewed
<1> HIDE DEF v
<1>8. Forgets(v, handle_peer_removal_tree_cleanup(v, p, x), p)
  BY <1>1, <1>7, CleanedUp
<1>9. Handled(s, handle_peer_removal_tree_cleanup(v, p, x), {})
  BY <1>1, <1>6, <1>7, <1>8, ForgetIsHandled
<1>10. QED
  BY <1>3, <1>9

\* A handshake with p in startup epoch e: p is a peer, and what its former process
\* announced is forgotten.
Joins(s, t, p, e, M) ==
    /\ Good(t) /\ Same(s, t) /\ Advances(s, t)
    /\ t.peers = s.peers \cup {p} /\ t.seen = [s.seen EXCEPT ![p] = e]
    /\ \A q \in Node \ {p} : t.heard[q] = s.heard[q]
    /\ t.heard[p] = NotHeard \/ (t.heard[p] = s.heard[p] /\ p \in s.peers /\ s.seen[p] = e)
    /\ \A m \in M : Posted(m, t)

\* reset_peer_routing_after_restart forgets what the former process announced.
LEMMA ResetForgets ==
    ASSUME NEW s, Good(s), NEW p \in s.peers, NEW x
    PROVE  Forgets(s, reset_peer_routing_after_restart(s, p, x), p)
<1> DEFINE role == [s.role EXCEPT ![p] = NewRole]
           u == [s EXCEPT !.role = role]
           v == refresh_client_role(u, x)
           w == handle_peer_removal_tree_cleanup(v, p, x)
           t == mark_all_tree_announces_pending(w)
<1>1. /\ Shape(s) /\ Linked(s) /\ DOMAIN s = StateFields /\ DOMAIN s.role = Node /\ s.seq \in Nat
      /\ \A q \in Node : DOMAIN s.role[q] = RoleFields
      /\ p \in Node
  BY DEF Good, Shape
<1>2. reset_peer_routing_after_restart(s, p, x) = t
  BY <1>1 DEF reset_peer_routing_after_restart, StateFields
<1>3. DOMAIN role = Node /\ \A q \in Node : DOMAIN role[q] = RoleFields
  BY <1>1 DEF RoleFields, NewRole
<1> HIDE DEF role
<1>4. Placed(s, u) /\ u.role = role /\ u.peers = s.peers /\ u.seen = s.seen /\ u.cost = s.cost
  BY <1>1 DEF Placed, Same, StateFields
<1> HIDE DEF u
<1>5. Shape(u)
  BY <1>1, <1>3, <1>4 DEF Shape, Placed, Same
<1>6. Renewed(s, u, v)
  BY <1>1, <1>4, <1>5, RoleNoted, Zenon
<1> HIDE DEF v
<1>7. Forgets(v, w, p)
  BY <1>1, <1>6, CleanedUp DEF Renewed
<1> HIDE DEF w
<1>8. Identical(w, t)
  BY <1>7, MarkedPending DEF Forgets
<1> HIDE DEF t
<1>9. Shape(t) /\ Linked(t) /\ Settled(t)
  BY <1>7, <1>8, IdenticalKeeps DEF Forgets
<1>10. Advances(s, t)
  <2>1. Advances(s, v) /\ Advances(v, w)
    BY <1>6, <1>7 DEF Renewed, Forgets
  <2>2. Advances(w, t)
    BY <2>1, <1>8 DEF Advances, Identical
  <2>3. v.seq \in Nat
    BY <2>1 DEF Advances
  <2>4. QED
    BY <1>1, <2>1, <2>2, <2>3, AdvancesOn
<1>11. Forgets(s, t, p)
  BY <1>4, <1>6, <1>7, <1>8, <1>9, <1>10, Zenon DEF Forgets, Renewed, Identical, Declares, Same
<1>12. QED
  BY <1>2, <1>11

\* promote_connection, with the announcement that follows it.
LEMMA PromoteJoins ==
    ASSUME NEW s, Good(s), NEW p \in Node, p # s.addr, NEW e \in Nat, NEW x, NEW limited
    PROVE  LET r == promote_connection(s, p, e, x, limited) IN Joins(s, r.node, p, e, r.sent)
<1> DEFINE restarted == p \in s.peers /\ s.seen[p] # e
           f == reset_peer_routing_after_restart(s, p, x)
           g == IF restarted THEN [f EXCEPT !.cost[p] = 0, !.pending = @ \ {p}] ELSE s
           u == [g EXCEPT !.peers = @ \cup {p}, !.seen[p] = e]
           r == send_tree_announces(u, {p}, x, limited)
<1>1. promote_connection(s, p, e, x, limited) = r
  BY Zenon DEF promote_connection
<1>2. Shape(s) /\ Linked(s) /\ DOMAIN s = StateFields /\ s.seq \in Nat /\ DOMAIN s.heard = Node
  BY DEF Good, Shape
<1>3. /\ Shape(g) /\ Linked(g) /\ Same(s, g) /\ Advances(s, g) /\ g.peers = s.peers
      /\ g.seen = s.seen
      /\ \A q \in Node \ {p} : g.heard[q] = s.heard[q]
      /\ g.heard[p] = NotHeard \/ (g.heard[p] = s.heard[p] /\ p \in s.peers /\ s.seen[p] = e)
  <2>1. CASE restarted
    <3> DEFINE cost == [f.cost EXCEPT ![p] = 0]
               h == [f EXCEPT !.cost = cost, !.pending = @ \ {p}]
    <3>1. Forgets(s, f, p)
      BY <2>1, ResetForgets
    <3> HIDE DEF f
    <3>2. DOMAIN f = StateFields /\ DOMAIN f.cost = Node /\ \A q \in Node : f.cost[q] \in Nat
      BY <3>1 DEF Forgets, Shape
    <3>3. g = h
      BY <2>1, <3>2 DEF StateFields
    <3>4. DOMAIN cost = Node /\ \A q \in Node : cost[q] \in Nat
      BY <3>2
    <3> HIDE DEF cost
    <3>5. /\ Placed(f, h) /\ h.cost = cost /\ h.peers = f.peers /\ h.role = f.role
          /\ h.seen = f.seen
      BY <3>2 DEF Placed, Same, StateFields
    <3> HIDE DEF h
    <3>6. Shape(h)
      BY <3>1, <3>4, <3>5 DEF Forgets, Placed, Same, Shape
    <3>7. Linked(h) /\ Advances(f, h)
      BY <3>1, <3>5, PlacedKeeps DEF Forgets
    <3>8. Advances(s, h)
      <4>1. Advances(s, f)
        BY <3>1 DEF Forgets
      <4>2. QED
        BY <1>2, <3>7, <4>1, AdvancesOn, Zenon
    <3>9. /\ \A q \in Node \ {p} : h.heard[q] = s.heard[q]
          /\ h.heard[p] = NotHeard
      BY <1>2, <3>1, <3>5 DEF Forgets, Placed
    <3>10. Same(s, h) /\ h.peers = s.peers /\ h.seen = s.seen
      BY <3>1, <3>5, Zenon DEF Forgets, Placed, Same
    <3>11. QED
      BY <3>3, <3>6, <3>7, <3>8, <3>9, <3>10, Zenon
  <2>2. CASE ~restarted
    <3>1. g = s
      BY <2>2
    <3>2. Same(s, s) /\ Advances(s, s)
      BY <1>2 DEF Same, Advances
    <3>3. p \notin s.peers => s.heard[p] = NotHeard
      <4>1. p \notin s.peers => s.heard[p].path = <<>>
        BY DEF Good, Known
      <4>2. HeardOK(s.heard[p], p)
        BY <1>2 DEF Shape
      <4>3. QED
        BY <4>1, <4>2 DEF HeardOK, IsPath
    <3>4. QED
      BY <1>2, <2>2, <3>1, <3>2, <3>3, Zenon
  <2>3. QED
    BY <2>1, <2>2
<1> HIDE DEF g
<1> DEFINE seen == [g.seen EXCEPT ![p] = e]
           peers == g.peers \cup {p}
<1>4. DOMAIN g = StateFields
  BY <1>3 DEF Shape
<1>5. u = [g EXCEPT !.peers = peers, !.seen = seen]
  BY <1>4 DEF StateFields
<1>6. DOMAIN seen = Node /\ (\A q \in Node : seen[q] \in Nat) /\ peers \subseteq Node
      /\ g.addr \notin peers
  BY <1>3 DEF Shape, Same
<1> HIDE DEF seen, peers, u
<1>7. Placed(g, u) /\ u.peers = peers /\ u.seen = seen /\ u.role = g.role /\ u.cost = g.cost
  BY <1>4, <1>5 DEF Placed, Same, StateFields
<1>8. Shape(u)
  BY <1>3, <1>6, <1>7 DEF Shape, Placed, Same
<1>9. Linked(u) /\ Advances(g, u)
  BY <1>3, <1>7, PlacedKeeps
<1>10. Outcome(u, r.node, r.sent)
  BY <1>8, <1>9, SentAnnounces, Zenon
<1> HIDE DEF r
<1>11. Advances(s, r.node)
  <2>1. g.seq \in Nat /\ u.seq \in Nat /\ Advances(u, r.node)
    BY <1>3, <1>8, <1>10 DEF Shape, Outcome
  <2>2. Advances(g, r.node)
    BY <1>9, <2>1, AdvancesOn
  <2>3. QED
    BY <1>2, <1>3, <2>1, <2>2, AdvancesOn, Zenon, ZenonT(30)
<1>12. /\ Same(s, r.node) /\ r.node.peers = s.peers \cup {p} /\ r.node.heard = g.heard
       /\ r.node.seen = [s.seen EXCEPT ![p] = e]
  BY <1>3, <1>7, <1>10, Zenon DEF Outcome, Placed, Same, seen, peers
<1>13. Good(r.node)
  <2>1. Known(r.node) \subseteq Known(s) \cup {p}
    BY <1>3, <1>12 DEF Known
  <2>2. Known(r.node) \subseteq r.node.peers
    BY <1>12, <2>1 DEF Good
  <2>3. QED
    BY <1>10, <2>2, Zenon DEF Good, Outcome
<1>14. Joins(s, r.node, p, e, r.sent)
  BY <1>3, <1>10, <1>11, <1>12, <1>13, Zenon DEF Joins, Outcome
<1>15. QED
  BY <1>1, <1>14, Zenon

-----------------------------------------------------------------------------
(* An announcement arrives.                                                  *)

\* The announcement m has been handled.
Heard(s, t, m, M) ==
    /\ Good(t) /\ Same(s, t) /\ t.peers = s.peers /\ t.seen = s.seen /\ Advances(s, t)
    /\ \A q \in Node : \/ t.heard[q] = s.heard[q]
                       \/ /\ q = m.from /\ m.from \in s.peers
                          /\ t.heard[q].seq = m.seq /\ t.heard[q].path = m.path
    /\ \A n \in M : Posted(n, t)

\* The node has noted the role of the sender and its path, and nothing else yet.
Noted(s, u, m) ==
    /\ Shape(u) /\ Same(s, u) /\ u.peers = s.peers /\ u.seen = s.seen /\ Settled(u)
    /\ u.seq = s.seq /\ u.leaf = s.leaf /\ u.parent = s.parent /\ u.coords = s.coords
    /\ \A q \in Node : q # m.from => u.heard[q] = s.heard[q]

\* The first lines of handle_tree_announce note the role and, if it is newer, the path.
LEMMA AnnounceNoted ==
    ASSUME NEW s, Good(s), NEW m, Sound(m), m.from \in s.peers
    PROVE  LET noted == [s EXCEPT !.role[m.from].seq = m.seq, !.role[m.from].client = FALSE]
               u == update_peer(noted, m)
           IN  /\ Noted(s, noted, m) /\ noted.heard = s.heard
               /\ Noted(s, u, m) /\ u.heard[m.from].seq = m.seq /\ u.heard[m.from].path = m.path
<1> DEFINE p == m.from
           role == [s.role EXCEPT ![p] = [s.role[p] EXCEPT !.seq = m.seq, !.client = FALSE]]
           h == [parent |-> m.parent, seq |-> m.seq, path |-> m.path]
           heard == [s.heard EXCEPT ![p] = h]
           n == [s EXCEPT !.role = role]
           u == [n EXCEPT !.heard = heard]
<1>1. /\ Shape(s) /\ Settled(s) /\ DOMAIN s = StateFields /\ p \in Node /\ s.peers \subseteq Node
      /\ DOMAIN s.role = Node /\ (\A q \in Node : DOMAIN s.role[q] = RoleFields)
      /\ DOMAIN s.heard = Node
  BY DEF Good, Shape
<1>2. n = [s EXCEPT !.role[p].seq = m.seq, !.role[p].client = FALSE]
  BY <1>1, Zenon DEF StateFields, RoleFields
<1>3. update_peer(n, m) = u
  BY <1>1 DEF update_peer, StateFields
<1>4. /\ DOMAIN role = Node
      /\ \A q \in Node : DOMAIN role[q] = RoleFields /\ role[q].supported = s.role[q].supported
  BY <1>1 DEF RoleFields
<1> HIDE DEF role
<1>5. /\ Placed(s, n) /\ n.peers = s.peers /\ n.seen = s.seen /\ n.cost = s.cost /\ n.role = role
  BY <1>1 DEF Placed, Same, StateFields
<1> HIDE DEF n
<1>6. DOMAIN h = {"parent", "seq", "path"} /\ h.seq = m.seq /\ h.path = m.path
  OBVIOUS
<1> HIDE DEF h
<1>7. HeardOK(h, p)
  BY <1>6 DEF HeardOK, Sound
<1>8. /\ DOMAIN heard = Node /\ heard[p] = h /\ \A q \in Node : q # p => heard[q] = s.heard[q]
  BY <1>1
<1> HIDE DEF heard
<1>9. /\ Same(n, u) /\ u.peers = n.peers /\ u.seen = n.seen /\ u.cost = n.cost /\ u.role = n.role
      /\ u.seq = n.seq /\ u.leaf = n.leaf /\ u.parent = n.parent /\ u.coords = n.coords
      /\ u.heard = heard
  BY <1>5 DEF Placed, Same, StateFields
<1> HIDE DEF u
<1>10. Shape(n)
  BY <1>1, <1>4, <1>5 DEF Shape, Placed, Same
<1>11. Shape(u)
  <2>1. \A q \in Node : HeardOK(heard[q], q)
    BY <1>1, <1>7, <1>8 DEF Shape
  <2>2. QED
    BY <1>8, <1>9, <1>10, <2>1 DEF Shape, Same
<1>12. Settled(n) /\ Settled(u)
  <2>1. (\A q \in s.peers : role[q].supported) = (\A q \in s.peers : s.role[q].supported)
    BY <1>1, <1>4
  <2>2. QED
    BY <1>1, <1>5, <1>9, <2>1, Zenon DEF Settled, Placed, Same
<1>13. Noted(s, n, m) /\ n.heard = s.heard
  BY <1>5, <1>10, <1>12, Zenon DEF Noted, Placed
<1>14. Noted(s, u, m) /\ u.heard[p].seq = m.seq /\ u.heard[p].path = m.path
  BY <1>5, <1>6, <1>8, <1>9, <1>11, <1>12, Zenon DEF Noted, Placed, Same
<1>15. QED
  BY <1>2, <1>3, <1>13, <1>14, Zenon

\* Unless it was the parent who spoke, the node is still where its parent puts it.
LEMMA NotedKeeps ==
    ASSUME NEW s, Good(s), NEW m, NEW u, Noted(s, u, m)
    PROVE  /\ Coherent(u)
           /\ s.parent # m.from \/ u.heard = s.heard => Linked(u)
<1>1. Coherent(s)
  BY LinkedCoheres DEF Good
<1>2. Coherent(u)
  BY <1>1, Zenon DEF Coherent, Noted, Same
<1>3. ASSUME s.parent # m.from \/ u.heard = s.heard PROVE Linked(u)
  <2>1. s.parent \in Node => u.heard[s.parent] = s.heard[s.parent]
    BY <1>3, Zenon DEF Noted
  <2>2. QED
    BY <2>1, Zenon DEF Good, Linked, Open, Known, peer_root, Noted, Same
<1>4. QED
  BY <1>2, <1>3

\* The node may at once repeat its own declaration to the sender.
LEMMA NotedPush ==
    ASSUME NEW s, Good(s), NEW m, NEW u, Noted(s, u, m), NEW x, NEW limited
    PROVE  LET r == send_tree_announces(u, {m.from}, x, limited)
           IN  Unmoved(u, r.node) /\ \A n \in r.sent : Posted(n, u)
<1>1. send_tree_announces(u, {m.from}, x, limited) = SendToEach(u, {m.from}, limited)
  <2>1. refresh_client_role(u, x) = u
    BY RoleKept DEF Noted
  <2>2. QED
    BY <2>1, Zenon DEF send_tree_announces
<1>2. Shape(u) /\ Coherent(u)
  BY NotedKeeps, Zenon DEF Noted
<1>3. QED
  BY <1>1, <1>2, SentToEach, Zenon

\* The reaction to what p announced.
LEMMA ReactOutcome ==
    ASSUME NEW v, Shape(v), Settled(v), Coherent(v), NEW p \in v.peers, p \in Known(v),
           v.parent # p => Linked(v), NEW x, NEW limited
    PROVE  LET r == React(v, p, x, limited) IN Outcome(v, r.node, r.sent)
<1>1. is_root(v) <=> v.parent = v.addr
  BY RootHasNoParent
<1>2. p # v.addr
  BY DEF Shape
<1>3. CASE /\ ~is_root(v) /\ v.parent = p
           /\ evaluate_parent(v, x) = None /\ ~should_be_root(v)
  <2>1. React(v, p, x, limited) = ParentUpdated(v, x, limited)
    BY <1>3, Zenon DEF React
  <2>2. v.parent \in Known(v)
    BY <1>3
  <2>3. QED
    BY <2>1, <2>2, ParentMoved, Zenon
<1>4. CASE ~(/\ ~is_root(v) /\ v.parent = p
             /\ evaluate_parent(v, x) = None /\ ~should_be_root(v))
  <2>1. React(v, p, x, limited) = Reselect(v, x, limited)
    BY <1>4, Zenon DEF React
  <2>2. \/ Linked(v)
        \/ ~is_root(v) /\ (evaluate_parent(v, x) # None \/ should_be_root(v))
    BY <1>1, <1>2, <1>4, Zenon
  <2>3. QED
    BY <2>1, <2>2, Reselects, Zenon
<1>5. QED
  BY <1>3, <1>4

\* handle_tree_announce as a whole.
LEMMA TreeAnnounceHandled ==
    ASSUME NEW s, Good(s), NEW m, Sound(m), m.from \in Node, NEW x, NEW limited
    PROVE  LET r == handle_tree_announce(s, m, x, limited) IN Heard(s, r.node, m, r.sent)
<1> DEFINE p == m.from
           updated == m.seq > s.heard[p].seq
           noted == [s EXCEPT !.role[p].seq = m.seq, !.role[p].client = FALSE]
           u == IF updated THEN update_peer(noted, m) ELSE noted
           push == send_tree_announces(u, {p}, x, limited)
           r == handle_tree_announce(s, m, x, limited)
<1>1. Shape(s) /\ s.seq \in Nat /\ DOMAIN s = StateFields
  BY DEF Good, Shape
<1>2. Heard(s, s, m, {})
  BY <1>1 DEF Heard, Good, Same, Advances
<1>3. CASE p \notin s.peers \/ ~ValidAnnounce(m) \/ StaleRole(s, m)
  <2>1. r = Quietly(s)
    BY <1>3, Zenon DEF handle_tree_announce
  <2> HIDE DEF r
  <2>2. Heard(s, r.node, m, r.sent)
    BY <1>2, <2>1 DEF Quietly
  <2>3. QED
    BY <2>2 DEF r
<1>4. CASE ~(p \notin s.peers \/ ~ValidAnnounce(m) \/ StaleRole(s, m))
  <2> DEFINE repeat == ~updated /\ p = s.parent /\ root_id(m.path) = root(s) /\ p \notin limited
             pushed == IF root_id(m.path) > root(s) \/ repeat THEN push ELSE Quietly(u)
  <2>1. /\ pushed = push \/ pushed = Quietly(u)
        /\ r = IF ~updated THEN pushed ELSE ReactAfter(pushed, p, x, limited)
    BY <1>4, Zenon DEF handle_tree_announce
  <2> HIDE DEF r, pushed
  <2>2. /\ Noted(s, u, m) /\ Coherent(u)
        /\ ~updated => u.heard = s.heard
        /\ updated => u.heard[p].seq = m.seq /\ u.heard[p].path = m.path
    <3>1. /\ Noted(s, noted, m) /\ noted.heard = s.heard
          /\ LET w == update_peer(noted, m)
             IN  Noted(s, w, m) /\ w.heard[p].seq = m.seq /\ w.heard[p].path = m.path
      BY <1>4, AnnounceNoted, Zenon, ZenonT(30)
    <3> HIDE DEF noted
    <3>2. /\ Noted(s, u, m)
          /\ ~updated => u.heard = s.heard
          /\ updated => u.heard[p].seq = m.seq /\ u.heard[p].path = m.path
      BY <3>1, Zenon
    <3>3. QED
      BY <3>2, NotedKeeps, Zenon
  <2> HIDE DEF u
  <2> DEFINE v == pushed.node
  <2>3. Unmoved(u, v) /\ \A n \in pushed.sent : Posted(n, u)
    <3>1. Unmoved(u, push.node) /\ \A n \in push.sent : Posted(n, u)
      BY <2>2, NotedPush, Zenon
    <3>2. Unmoved(u, u)
      BY <2>2 DEF Unmoved, Noted, Shape, Same
    <3> HIDE DEF push
    <3>3. QED
      BY <2>1, <3>1, <3>2 DEF Quietly
  <2>4. /\ Shape(v) /\ Coherent(v) /\ Settled(v) /\ Known(v) = Known(u)
        /\ Linked(u) => Linked(v)
    BY <2>2, <2>3, UnmovedKeeps, Zenon DEF Noted
  <2>5. s.parent # p \/ u.heard = s.heard => Linked(v)
    BY <2>2, <2>4, NotedKeeps, Zenon, ZenonT(30)
  <2>6. Known(u) \subseteq s.peers
    BY <1>4, <2>2 DEF Known, Noted, Good
  <2>7. /\ Same(s, v) /\ v.peers = s.peers /\ v.seen = s.seen /\ v.parent = s.parent
        /\ v.coords = s.coords /\ v.seq = s.seq /\ v.heard = u.heard
    BY <2>2, <2>3, Zenon DEF Noted, Unmoved, Same
  <2>8. Advances(s, v) /\ v.seq \in Nat
    BY <1>1, <2>7 DEF Advances
  <2>9. \A n \in pushed.sent : Posted(n, v)
    BY <2>3, Zenon DEF Posted, Unmoved, Same
  <2>10. \A q \in Node : \/ v.heard[q] = s.heard[q]
                        \/ /\ q = m.from /\ m.from \in s.peers
                           /\ v.heard[q].seq = m.seq /\ v.heard[q].path = m.path
    BY <1>4, <2>2, <2>7, Zenon DEF Noted
  <2> HIDE DEF v, updated
  <2>11. CASE ~updated
    <3>1. r.node = v /\ r.sent = pushed.sent
      BY <2>1, <2>11, Zenon DEF v
    <3>2. Good(v)
      BY <2>2, <2>4, <2>5, <2>6, <2>7, <2>11, Zenon DEF Good
    <3>3. Heard(s, v, m, pushed.sent)
      BY <2>7, <2>8, <2>9, <2>10, <3>2, Zenon DEF Heard
    <3>4. QED
      BY <3>1, <3>3, Zenon DEF r
  <2>12. CASE updated
    <3>1. PICK limits : LET after == React(v, p, x, limits)
                        IN  r = [node |-> after.node, sent |-> pushed.sent \cup after.sent]
      BY <2>1, <2>12, Zenon DEF ReactAfter, v
    <3> DEFINE after == React(v, p, x, limits)
               t == after.node
    <3>2. r.node = t /\ r.sent = pushed.sent \cup after.sent
      BY <3>1
    <3>3. p \in Known(v) /\ p \in v.peers
      <4>1. m.path # <<>>
        BY DEF Sound, IsPath
      <4>2. v.heard[p].path = m.path
        BY <2>2, <2>7, <2>12
      <4>3. QED
        BY <1>4, <2>7, <4>1, <4>2 DEF Known
    <3>4. Outcome(v, t, after.sent)
      BY <2>4, <2>5, <2>7, <3>3, ReactOutcome, Zenon
    <3> HIDE DEF after, t
    <3>5. Good(t)
      <4>1. Known(t) = Known(u) /\ t.peers = s.peers
        BY <2>7, <3>4, Zenon DEF Outcome, Known
      <4>2. QED
        BY <2>6, <3>4, <4>1, Zenon DEF Good, Outcome
    <3>6. Advances(s, t) /\ Advances(v, t)
      BY <1>1, <2>8, <3>4, AdvancesOn DEF Outcome
    <3>7. t.addr = v.addr /\ t.epoch = v.epoch /\ t.peers = v.peers
      BY <3>4, Zenon DEF Outcome, Same
    <3>8. \A n \in pushed.sent : Posted(n, t)
      BY <2>8, <2>9, <3>6, <3>7, PostedLater, Zenon
    <3>9. \A n \in after.sent : Posted(n, t)
      BY <3>4, Zenon DEF Outcome
    <3>10. /\ Same(s, t) /\ t.peers = s.peers /\ t.seen = s.seen /\ t.heard = v.heard
      BY <2>7, <3>4, Zenon DEF Outcome, Same
    <3>11. Heard(s, t, m, pushed.sent \cup after.sent)
      BY <2>10, <3>5, <3>6, <3>8, <3>9, <3>10, Zenon DEF Heard
    <3>12. QED
      BY <3>2, <3>11, Zenon DEF r
  <2>13. QED
    BY <2>11, <2>12
<1>5. QED
  BY <1>3, <1>4

-----------------------------------------------------------------------------
(* The invariant of a network.                                               *)

WorldFields ==
    {"edges", "leaf_only", "start", "coords", "costs", "refresh", "max_seq", "cuts", "restarts",
     "reports", "losses", "flight", "prompt"}

WorldOK ==
    /\ DOMAIN world = WorldFields /\ world.costs \subseteq Nat
    /\ \A n \in Node : {n} \notin world.edges

NodesOK ==
    /\ DOMAIN node = Node
    /\ \A n \in Node : /\ Good(node[n]) /\ node[n].addr = n
                       /\ node[n].leaf_only \in BOOLEAN

\* The node s, or a former process of it, has sent m.
Said(m, s) ==
    /\ m.epoch \in Nat /\ m.epoch <= s.epoch
    /\ m.type = "tree" =>
          /\ Sound(m)
          /\ m.epoch = s.epoch => m.seq <= s.seq
          /\ m.epoch = s.epoch /\ m.seq = s.seq => m.parent = s.parent /\ m.path = s.coords

\* A receiver that has the sender as a peer has the keys of the process that sent m.
Readable(m, s) == m.from \in s.peers => m.epoch = s.seen[m.from]

MessagesOK ==
    \A m \in net : /\ m.from \in Node /\ m.to \in Node
                   /\ Said(m, node[m.from]) /\ Readable(m, node[m.to])

\* What s holds of the process of t that it knows is a declaration of t.
Agrees(s, t) ==
    LET h == s.heard[t.addr]
    IN  /\ s.seen[t.addr] <= t.epoch
        /\ s.seen[t.addr] = t.epoch => h.seq <= t.seq /\ (h.seq = t.seq => h.path = t.coords)

NodesAgree == \A q, n \in Node : Agrees(node[q], node[n])

\* Two peers know each other's process.
PeersMet ==
    \A q, n \in Node : n \in node[q].peers /\ q \in node[n].peers =>
                          node[q].seen[n] = node[n].epoch

IInv == WorldOK /\ NodesOK /\ MessagesOK /\ NodesAgree /\ PeersMet

-----------------------------------------------------------------------------
(* What a step of a node leaves of what others hold of it.                   *)

\* What is under way from a node stays one of its declarations.
LEMMA SaidOn ==
    ASSUME NEW s, NEW t, NEW m, s.seq \in Nat, Same(s, t), Advances(s, t), Said(m, s)
    PROVE  Said(m, t)
<1>1. CASE m.type # "tree"
  BY <1>1 DEF Said, Same
<1>2. CASE m.type = "tree"
  <2>1. Sound(m) /\ m.seq \in Nat
    BY <1>2 DEF Said, Sound
  <2>2. QED
    BY <1>2, <2>1 DEF Said, Same, Advances
<1>3. QED
  BY <1>1, <1>2

\* So does what it has just sent.
LEMMA PostedSaid ==
    ASSUME NEW t, NEW m, Shape(t), Posted(m, t)
    PROVE  Said(m, t)
  BY DEF Said, Posted, Shape

\* What others hold of it stays one of its declarations, too.
LEMMA AgreesOn ==
    ASSUME NEW s, NEW t, NEW n \in Node, NEW u, NEW v, Shape(s), Shape(u), t.seq \in Nat \ {0},
           t.addr = n, Same(t, v), Advances(t, v), Agrees(s, t),
           u.seen[n] = s.seen[n], u.heard[n] = s.heard[n] \/ u.heard[n] = NotHeard
    PROVE  Agrees(u, v)
<1>1. v.addr = n /\ v.epoch = t.epoch
  BY DEF Same
<1>2. s.heard[n].seq \in Nat
  <2>1. HeardOK(s.heard[n], n)
    BY DEF Shape
  <2>2. QED
    BY <2>1 DEF HeardOK, NotHeard
<1>3. CASE u.heard[n] = s.heard[n]
  BY <1>1, <1>2, <1>3 DEF Agrees, Advances
<1>4. CASE u.heard[n] = NotHeard
  <2>1. u.heard[n].seq = 0
    BY <1>4 DEF NotHeard
  <2>2. v.seq \in Nat /\ v.seq > 0
    BY DEF Advances
  <2>3. QED
    BY <1>1, <2>1, <2>2 DEF Agrees
<1>5. QED
  BY <1>3, <1>4

\* A path that has just been heard agrees, because the message did.
LEMMA AgreesHeard ==
    ASSUME NEW s, NEW t, NEW n \in Node, NEW u, NEW v, t.seq \in Nat \ {0},
           t.addr = n, Same(t, v), Advances(t, v), Agrees(s, t), u.seen[n] = s.seen[n],
           NEW m, m.type = "tree", m.from = n, n \in s.peers, Said(m, t), Readable(m, s),
           u.heard[n].seq = m.seq, u.heard[n].path = m.path
    PROVE  Agrees(u, v)
<1>1. v.addr = n /\ v.epoch = t.epoch
  BY DEF Same
<1>2. m.epoch = s.seen[n] /\ m.seq \in Nat
  BY DEF Readable, Said, Sound
<1>3. QED
  BY <1>1, <1>2 DEF Agrees, Said, Advances

-----------------------------------------------------------------------------
(* A handler of one node.                                                    *)

\* The node n has gone on to t and has sent M; what it now holds of others it held
\* before, or has taken from a message.
Runs(n, t, M) ==
    LET s == node[n]
    IN  /\ Good(t) /\ Same(s, t) /\ Advances(s, t) /\ t.peers \subseteq s.peers /\ t.seen = s.seen
        /\ \A q \in Node :
              \/ t.heard[q] = s.heard[q] \/ t.heard[q] = NotHeard
              \/ \E m \in net : /\ m.type = "tree" /\ m.from = q /\ m.to = n /\ q \in s.peers
                               /\ t.heard[q].seq = m.seq /\ t.heard[q].path = m.path
        /\ \A m \in M : Posted(m, t)

\* A run of one node (Commit) keeps the invariant.
LEMMA RunKeeps ==
    ASSUME IInv, NEW n \in Node, NEW t, NEW M, Runs(n, t, M), WorldOK',
           node' = [node EXCEPT ![n] = t], net' \subseteq net \cup M
    PROVE  IInv'
<1>1. /\ DOMAIN node = Node /\ \A k \in Node : Good(node[k]) /\ node[k].addr = k
      /\ node'[n] = t /\ DOMAIN node' = Node
      /\ \A k \in Node : k # n => node'[k] = node[k]
  BY Zenon, ZenonT(30) DEF IInv, NodesOK
<1>2. \A k \in Node : Shape(node[k]) /\ node[k].seq \in Nat \ {0} /\ node[k].epoch \in Nat
  BY <1>1 DEF Good, Shape
<1>3. /\ Good(t) /\ Same(node[n], t) /\ Advances(node[n], t)
      /\ t.peers \subseteq node[n].peers /\ t.seen = node[n].seen
      /\ \A m \in M : Posted(m, t)
  BY Zenon DEF Runs
<1>4. t.addr = n /\ t.epoch = node[n].epoch /\ Shape(t)
  BY <1>1, <1>3, Zenon, ZenonT(30) DEF Same, Good
<1>5. \A k \in Node : Same(node[k], node'[k]) /\ Advances(node[k], node'[k])
  BY <1>1, <1>2, <1>3, Zenon, ZenonT(30) DEF Same, Advances, Shape
<1>6. NodesOK'
  <2>1. \A k \in Node : node'[k].leaf_only \in BOOLEAN
    BY <1>5, Zenon DEF Same, IInv, NodesOK
  <2>2. QED
    BY <1>1, <1>3, <1>4, <2>1, Zenon DEF NodesOK
<1>7. PeersMet'
  <2>1. \A k \in Node : /\ node'[k].peers \subseteq node[k].peers /\ node'[k].seen = node[k].seen
                        /\ node'[k].epoch = node[k].epoch
    BY <1>1, <1>3, <1>4
  <2>2. QED
    BY <2>1 DEF IInv, PeersMet
<1>8. MessagesOK'
  <2> SUFFICES ASSUME NEW m \in net'
               PROVE  /\ m.from \in Node /\ m.to \in Node
                      /\ Said(m, node'[m.from]) /\ Readable(m, node'[m.to])
    BY DEF MessagesOK
  <2>1. CASE m \in net
    <3>1. /\ m.from \in Node /\ m.to \in Node
          /\ Said(m, node[m.from]) /\ Readable(m, node[m.to])
      BY <2>1 DEF IInv, MessagesOK
    <3>2. Said(m, node'[m.from])
      BY <1>2, <1>5, <3>1, SaidOn, Zenon, ZenonT(30)
    <3>3. Readable(m, node'[m.to])
      BY <1>1, <1>3, <3>1 DEF Readable
    <3>4. QED
      BY <3>1, <3>2, <3>3
  <2>2. CASE m \in M
    <3>1. Posted(m, t)
      BY <1>3, <2>2
    <3>2. m.from = n /\ m.to \in t.peers /\ m.epoch = t.epoch
      BY <1>4, <3>1 DEF Posted
    <3>3. m.to \in Node /\ m.to # n
      BY <1>4, <3>2 DEF Shape
    <3>4. Said(m, node'[m.from])
      BY <1>1, <1>4, <3>1, <3>2, PostedSaid, Zenon
    <3>5. Readable(m, node'[m.to])
      BY <1>1, <1>4, <1>7, <3>2, <3>3, SMTT(20), SMTT(30) DEF Readable, PeersMet
    <3>6. QED
      BY <3>2, <3>3, <3>4, <3>5
  <2>3. QED
    BY <2>1, <2>2
<1>9. NodesAgree'
  <2> SUFFICES ASSUME NEW q \in Node, NEW k \in Node PROVE Agrees(node'[q], node'[k])
    BY DEF NodesAgree
  <2>1. Agrees(node[q], node[k])
    BY Zenon, ZenonT(30) DEF IInv, NodesAgree
  <2>2. CASE q # n
    <3>1. node'[q].seen[k] = node[q].seen[k] /\ node'[q].heard[k] = node[q].heard[k]
      BY <1>1, <2>2
    <3>2. Shape(node'[q])
      BY <1>1, <1>2, <2>2, Zenon, ZenonT(30)
    <3>3. QED
      BY <1>1, <1>2, <1>5, <2>1, <3>1, <3>2, AgreesOn, SMTT(20), SMTT(30)
  <2>3. CASE q = n /\ (t.heard[k] = node[n].heard[k] \/ t.heard[k] = NotHeard)
    BY <1>1, <1>2, <1>3, <1>4, <1>5, <2>1, <2>3, AgreesOn, SMTT(20), SMTT(30)
  <2>4. CASE /\ q = n
             /\ \E m \in net : /\ m.type = "tree" /\ m.from = k /\ m.to = n /\ k \in node[n].peers
                               /\ t.heard[k].seq = m.seq /\ t.heard[k].path = m.path
    <3>1. PICK m \in net : /\ m.type = "tree" /\ m.from = k /\ m.to = n /\ k \in node[n].peers
                           /\ t.heard[k].seq = m.seq /\ t.heard[k].path = m.path
      BY <2>4
    <3>2. Said(m, node[k]) /\ Readable(m, node[n])
      BY <3>1 DEF IInv, MessagesOK
    <3>3. QED
      <4>1. /\ node[k].seq \in Nat \ {0} /\ node[k].addr = k /\ node'[n] = t
            /\ Same(node[k], node'[k]) /\ Advances(node[k], node'[k]) /\ Agrees(node[n], node[k])
            /\ t.seen[k] = node[n].seen[k]
        BY <1>1, <1>2, <1>3, <1>5, <2>1, <2>4, Zenon
      <4>2. Agrees(t, node'[k])
        BY <3>1, <3>2, <4>1, AgreesHeard, Zenon
      <4>3. QED
        BY <2>4, <4>1, <4>2, Zenon
  <2>5. QED
    BY <2>2, <2>3, <2>4 DEF Runs
<1>10. QED
  BY <1>6, <1>7, <1>8, <1>9 DEF IInv

-----------------------------------------------------------------------------
(* Two nodes shake hands.                                                    *)

\* After a handshake an end holds nothing of the other's former process.
LEMMA AgreesAfresh ==
    ASSUME NEW s, NEW t, NEW n \in Node, NEW u, NEW v, NEW M, Shape(s), t.seq \in Nat \ {0},
           t.epoch \in Nat, t.addr = n, Same(t, v), Advances(t, v), Agrees(s, t),
           Joins(s, u, n, t.epoch, M)
    PROVE  Agrees(u, v)
<1>1. u.seen[n] = t.epoch
  BY Zenon DEF Joins, Shape
<1>2. v.addr = n /\ v.epoch = t.epoch
  BY Zenon DEF Same
<1>3. CASE u.heard[n] = NotHeard
  <2>1. u.heard[n].seq = 0
    BY <1>3 DEF NotHeard
  <2>2. v.seq \in Nat /\ v.seq > 0
    BY SMTT(20), SMTT(30) DEF Advances
  <2>3. QED
    BY <1>1, <1>2, <2>1, <2>2, SMTT(20), SMTT(30) DEF Agrees
<1>4. CASE u.heard[n] = s.heard[n] /\ s.seen[n] = t.epoch
  <2>1. Shape(u)
    BY DEF Joins, Good
  <2>2. QED
    BY <1>1, <1>4, <2>1, AgreesOn, Zenon
<1>5. QED
  BY <1>3, <1>4, Zenon DEF Joins

\* A handshake (promote_connection at both ends) keeps the invariant: what was sent under
\* keys that are gone is gone with them.
LEMMA HandshakeKeeps ==
    ASSUME IInv, NEW n \in Node, NEW p \in Node, n # p, NEW a, NEW b, NEW M, NEW N,
           Joins(node[n], a, p, node[p].epoch, M), Joins(node[p], b, n, node[n].epoch, N),
           WorldOK', node' = [node EXCEPT ![n] = a, ![p] = b],
           net' = (net \ (Undecryptable(n, p) \cup Undecryptable(p, n))) \cup M \cup N
    PROVE  IInv'
<1>1. /\ DOMAIN node = Node /\ \A k \in Node : Good(node[k]) /\ node[k].addr = k
      /\ node'[n] = a /\ node'[p] = b /\ DOMAIN node' = Node
      /\ \A k \in Node : k # n /\ k # p => node'[k] = node[k]
  BY Zenon DEF IInv, NodesOK
<1>2. \A k \in Node : /\ Shape(node[k]) /\ node[k].seq \in Nat \ {0} /\ node[k].epoch \in Nat
                      /\ DOMAIN node[k].seen = Node
  BY <1>1, Zenon DEF Good, Shape
<1>3. /\ Good(a) /\ Same(node[n], a) /\ Advances(node[n], a)
      /\ a.peers = node[n].peers \cup {p} /\ a.seen = [node[n].seen EXCEPT ![p] = node[p].epoch]
      /\ \A q \in Node \ {p} : a.heard[q] = node[n].heard[q]
      /\ \A m \in M : Posted(m, a)
  BY Zenon DEF Joins
<1>4. /\ Good(b) /\ Same(node[p], b) /\ Advances(node[p], b)
      /\ b.peers = node[p].peers \cup {n} /\ b.seen = [node[p].seen EXCEPT ![n] = node[n].epoch]
      /\ \A q \in Node \ {n} : b.heard[q] = node[p].heard[q]
      /\ \A m \in N : Posted(m, b)
  BY Zenon DEF Joins
<1>5. \A k \in Node : /\ Same(node[k], node'[k]) /\ Advances(node[k], node'[k])
                      /\ node'[k].epoch = node[k].epoch /\ node'[k].addr = k
  BY <1>1, <1>2, <1>3, <1>4, Zenon, ZenonT(30) DEF Same, Advances, Shape
<1>6. NodesOK'
  <2>1. \A k \in Node : node'[k].leaf_only \in BOOLEAN
    BY <1>5, Zenon DEF Same, IInv, NodesOK
  <2>2. \A k \in Node : Good(node'[k])
    BY <1>1, <1>3, <1>4, Zenon
  <2>3. QED
    BY <1>1, <1>5, <2>1, <2>2, Zenon DEF NodesOK
<1>7. /\ a.seen[p] = node[p].epoch /\ b.seen[n] = node[n].epoch
      /\ \A k \in Node : k # p => a.seen[k] = node[n].seen[k]
      /\ \A k \in Node : k # n => b.seen[k] = node[p].seen[k]
  <2>1. /\ DOMAIN node[n].seen = Node /\ a.seen = [node[n].seen EXCEPT ![p] = node[p].epoch]
        /\ DOMAIN node[p].seen = Node /\ b.seen = [node[p].seen EXCEPT ![n] = node[n].epoch]
    BY <1>2, <1>3, <1>4, Zenon
  <2>2. a.seen[p] = node[p].epoch /\ \A k \in Node : k # p => a.seen[k] = node[n].seen[k]
    BY <2>1, Zenon
  <2>3. b.seen[n] = node[n].epoch /\ \A k \in Node : k # n => b.seen[k] = node[p].seen[k]
    BY <2>1, Zenon
  <2>4. QED
    BY <2>2, <2>3, Zenon
<1> DEFINE Pair(q, k) == (q = n /\ k = p) \/ (q = p /\ k = n)
<1>8. ASSUME NEW q \in Node, NEW k \in Node, ~Pair(q, k)
       PROVE  /\ node'[q].seen[k] = node[q].seen[k] /\ node'[q].heard[k] = node[q].heard[k]
              /\ k \in node'[q].peers => k \in node[q].peers
  <2>1. CASE q = n
    BY <1>1, <1>3, <1>7, <1>8, <2>1, Zenon
  <2>2. CASE q = p
    BY <1>1, <1>4, <1>7, <1>8, <2>2, Zenon, ZenonT(30)
  <2>3. CASE q # n /\ q # p
    BY <1>1, <2>3
  <2>4. QED
    BY <2>1, <2>2, <2>3, Zenon
<1>9. ASSUME NEW q \in Node, NEW k \in Node, k \in node'[q].peers, q \in node'[k].peers
      PROVE  node'[q].seen[k] = node'[k].epoch
  <2>1. CASE (q = n /\ k = p) \/ (q = p /\ k = n)
    BY <1>1, <1>5, <1>7, <2>1, Zenon
  <2>2. CASE ~Pair(q, k)
    <3>1. /\ k \in node[q].peers /\ q \in node[k].peers
          /\ node'[q].seen[k] = node[q].seen[k]
      BY <1>9, <1>8, <2>2, Zenon
    <3>2. QED
      BY <1>5, <3>1, Zenon DEF IInv, PeersMet
  <2>3. QED
    BY <2>1, <2>2, Zenon
<1>10. PeersMet'
  BY <1>9, Zenon DEF PeersMet
<1>11. MessagesOK'
  <2> SUFFICES ASSUME NEW m \in net'
               PROVE  /\ m.from \in Node /\ m.to \in Node
                      /\ Said(m, node'[m.from]) /\ Readable(m, node'[m.to])
    BY Zenon DEF MessagesOK
  <2>1. CASE m \in net /\ m \notin Undecryptable(n, p) /\ m \notin Undecryptable(p, n)
    <3>1. /\ m.from \in Node /\ m.to \in Node
          /\ Said(m, node[m.from]) /\ Readable(m, node[m.to])
      BY <2>1 DEF IInv, MessagesOK
    <3>2. Said(m, node'[m.from])
      <4> DEFINE was == node[m.from]
                 is == node'[m.from]
      <4>1. was.seq \in Nat /\ Same(was, is) /\ Advances(was, is) /\ Said(m, was)
        BY <1>2, <1>5, <3>1, Zenon
      <4> HIDE DEF was, is
      <4>2. Said(m, is)
        BY <4>1, SaidOn
      <4>3. QED
        BY <4>2, Zenon DEF is
    <3>3. Readable(m, node'[m.to])
      <4>1. CASE m.to = n /\ m.from = p
        BY <1>1, <1>7, <2>1, <4>1, Zenon, ZenonT(30) DEF Readable, Undecryptable
      <4>2. CASE m.to = p /\ m.from = n
        BY <1>1, <1>7, <2>1, <4>2 DEF Readable, Undecryptable
      <4>3. CASE ~Pair(m.to, m.from)
        BY <1>8, <3>1, <4>3, Zenon DEF Readable
      <4>4. QED
        BY <4>1, <4>2, <4>3
    <3>4. QED
      BY <3>1, <3>2, <3>3
  <2>2. ASSUME NEW k \in Node, Posted(m, node'[k])
        PROVE  /\ m.from \in Node /\ m.to \in Node
               /\ Said(m, node'[m.from]) /\ Readable(m, node'[m.to])
    <3>1. Shape(node'[k])
      BY <1>6, Zenon DEF NodesOK, Good
    <3>2. m.from = k /\ m.to \in node'[k].peers /\ m.epoch = node'[k].epoch /\ m.to \in Node
      BY <1>5, <2>2, <3>1, Zenon DEF Posted, Shape
    <3>3. Said(m, node'[k])
      BY <2>2, <3>1, PostedSaid, Zenon
    <3>4. Readable(m, node'[m.to])
      <4>1. ASSUME k \in node'[m.to].peers PROVE node'[m.to].seen[k] = node'[k].epoch
        BY <1>9, <3>2, <4>1, Zenon
      <4> DEFINE is == node'[m.to]
      <4>2. k \in is.peers => m.epoch = is.seen[k]
        BY <3>2, <4>1
      <4> HIDE DEF is
      <4>3. Readable(m, is)
        BY <3>2, <4>2 DEF Readable
      <4>4. QED
        BY <4>3, Zenon DEF is
    <3>5. QED
      BY <3>2, <3>3, <3>4, Zenon
  <2>3. CASE m \in M
    BY <1>1, <1>3, <2>2, <2>3, Zenon
  <2>4. CASE m \in N
    BY <1>1, <1>4, <2>2, <2>4, Zenon
  <2>5. QED
    BY <2>1, <2>3, <2>4, Zenon
<1>12. NodesAgree'
  <2> SUFFICES ASSUME NEW q \in Node, NEW k \in Node PROVE Agrees(node'[q], node'[k])
    BY Zenon DEF NodesAgree
  <2>1. Agrees(node[q], node[k])
    BY DEF IInv, NodesAgree
  <2>2. Same(node[k], node'[k]) /\ Advances(node[k], node'[k]) /\ node[k].addr = k
    BY <1>1, <1>5
  <2>3. CASE q = n /\ k = p
    <3>1. Agrees(a, node'[k])
      BY <1>2, <2>1, <2>2, <2>3, AgreesAfresh, Zenon, ZenonT(30)
    <3>2. QED
      BY <1>1, <2>3, <3>1, Zenon
  <2>4. CASE q = p /\ k = n
    <3>1. Agrees(b, node'[k])
      BY <1>2, <2>1, <2>2, <2>4, AgreesAfresh, Zenon
    <3>2. QED
      BY <1>1, <2>4, <3>1
  <2>5. CASE ~Pair(q, k)
    <3>1. node'[q].seen[k] = node[q].seen[k] /\ node'[q].heard[k] = node[q].heard[k]
      BY <1>8, <2>5, Zenon
    <3>2. Shape(node'[q])
      BY <1>6 DEF NodesOK, Good
    <3>3. QED
      BY <1>2, <2>1, <2>2, <3>1, <3>2, AgreesOn, Zenon
  <2>6. QED
    BY <2>3, <2>4, <2>5, Zenon
<1>13. QED
  BY <1>6, <1>11, <1>12, <1>10, Zenon DEF IInv

-----------------------------------------------------------------------------
(* A process starts.                                                         *)

\* A new process is a root without peers that has heard nothing.
Fresh(s, n, e, l) ==
    /\ Good(s) /\ s.addr = n /\ s.epoch = e /\ s.peers = {}
    /\ s.leaf_only = l /\ s.leaf_only \in BOOLEAN
    /\ s.seq = 1 /\ s.coords = <<n>> /\ s.parent = n /\ s.leaf = l
    /\ \A p \in Node : s.heard[p] = NotHeard /\ s.seen[p] = 0

\* TreeState::new makes one.
LEMMA NewIsGood ==
    ASSUME NEW n \in Node, NEW e \in Nat, NEW l \in BOOLEAN
    PROVE  Fresh(NewState(n, e, l), n, e, l)
<1> DEFINE s == NewState(n, e, l)
<1>1. /\ DOMAIN s = StateFields /\ s.addr = n /\ s.epoch = e /\ s.leaf_only = l /\ s.leaf = l
      /\ s.parent = n /\ s.seq = 1 /\ s.coords = <<n>> /\ s.peers = {}
      /\ s.heard = [p \in Node |-> NotHeard] /\ s.role = [p \in Node |-> NewRole]
      /\ s.cost = [p \in Node |-> 0] /\ s.seen = [p \in Node |-> 0]
  BY Zenon DEF NewState, StateFields
<1> HIDE DEF s
<1>2. DOMAIN NewRole = RoleFields
  BY DEF NewRole, RoleFields
<1>3. Shape(s)
  BY <1>1, <1>2 DEF Shape, HeardOK
<1>4. Linked(s)
  BY <1>1 DEF Linked
<1>5. Known(s) = {}
  BY <1>1 DEF Known, NotHeard
<1>6. Settled(s)
  <2>1. \A p \in s.peers : s.role[p].supported
    BY <1>1
  <2>2. QED
    BY <1>1, <2>1, Zenon DEF Settled
<1>7. Good(s)
  BY <1>3, <1>4, <1>5, <1>6, Zenon DEF Good
<1>8. \A p \in Node : s.heard[p] = NotHeard /\ s.seen[p] = 0
  BY <1>1
<1>9. QED
  BY <1>1, <1>7, <1>8, Zenon DEF Fresh, s

\* A node that has heard nothing disagrees with nobody.
LEMMA AgreesFirst ==
    ASSUME NEW s, NEW t, s.heard[t.addr] = NotHeard, s.seen[t.addr] = 0, t.epoch \in Nat,
           t.seq \in Nat \ {0}
    PROVE  Agrees(s, t)
<1>1. s.heard[t.addr].seq = 0
  BY DEF NotHeard
<1>2. QED
  BY <1>1 DEF Agrees

\* A restart keeps it: what others hold of the former process is of an older epoch.
LEMMA RestartKeeps ==
    ASSUME IInv, NEW n \in Node, WorldOK', net' = {m \in net : m.to # n},
           node' = [node EXCEPT ![n] = NewState(n, node[n].epoch + 1, node[n].leaf_only)]
    PROVE  IInv'
<1> DEFINE t == NewState(n, node[n].epoch + 1, node[n].leaf_only)
<1>1. /\ DOMAIN node = Node
      /\ \A k \in Node : Good(node[k]) /\ node[k].addr = k /\ node[k].leaf_only \in BOOLEAN
  BY Zenon DEF IInv, NodesOK
<1>2. /\ \A k \in Node : node[k].seq \in Nat \ {0} /\ node[k].epoch \in Nat
      /\ \A k, q \in Node : node[k].seen[q] \in Nat
  BY <1>1 DEF Good, Shape
<1>3. /\ Good(t) /\ t.addr = n /\ t.epoch = node[n].epoch + 1 /\ t.peers = {} /\ t.seq = 1
      /\ t.leaf_only \in BOOLEAN
      /\ \A p \in Node : t.heard[p] = NotHeard /\ t.seen[p] = 0
  <2>1. node[n].epoch + 1 \in Nat
    BY <1>2
  <2>2. node[n].leaf_only \in BOOLEAN
    BY <1>1
  <2>3. Fresh(t, n, node[n].epoch + 1, node[n].leaf_only)
    BY <2>1, <2>2, NewIsGood, Zenon
  <2> HIDE DEF t
  <2>4. QED
    BY <2>2, <2>3, Zenon DEF Fresh
<1>4. /\ node'[n] = t /\ DOMAIN node' = Node
      /\ \A k \in Node : k # n => node'[k] = node[k]
  BY <1>1
<1> HIDE DEF t
<1>5. NodesOK'
  BY <1>1, <1>3, <1>4, Zenon DEF NodesOK
<1>6. PeersMet'
  BY <1>3, <1>4, SMTT(20), SMTT(30) DEF IInv, PeersMet
<1>7. MessagesOK'
  <2> SUFFICES ASSUME NEW m \in net, m.to # n
               PROVE  /\ m.from \in Node /\ m.to \in Node
                      /\ Said(m, node'[m.from]) /\ Readable(m, node'[m.to])
    BY DEF MessagesOK
  <2>1. /\ m.from \in Node /\ m.to \in Node
        /\ Said(m, node[m.from]) /\ Readable(m, node[m.to])
    BY DEF IInv, MessagesOK
  <2>2. Said(m, node'[m.from])
    <3>1. CASE m.from # n
      BY <1>4, <2>1, <3>1, Zenon
    <3>2. CASE m.from = n
      <4>1. m.epoch \in Nat /\ m.epoch < t.epoch
        BY <1>2, <1>3, <2>1, <3>2, SMTT(20), SMTT(30) DEF Said
      <4>2. m.type = "tree" => Sound(m)
        BY <2>1, Zenon DEF Said
      <4>3. Said(m, t)
        BY <1>2, <1>3, <4>1, <4>2, SMTT(20), SMTT(30) DEF Said
      <4>4. QED
        BY <1>4, <3>2, <4>3, Zenon, ZenonT(30)
    <3>3. QED
      BY <3>1, <3>2, Zenon
  <2>3. Readable(m, node'[m.to])
    BY <1>4, <2>1
  <2>4. QED
    BY <2>1, <2>2, <2>3, Zenon
<1>8. NodesAgree'
  <2> SUFFICES ASSUME NEW q \in Node, NEW k \in Node PROVE Agrees(node'[q], node'[k])
    BY DEF NodesAgree
  <2>1. Agrees(node[q], node[k])
    BY Zenon DEF IInv, NodesAgree
  <2>2. CASE q = n
    <3>1. node'[k].epoch \in Nat /\ node'[k].seq \in Nat \ {0} /\ node'[k].addr = k
      BY <1>1, <1>2, <1>3, <1>4, SMTT(20), SMTT(30)
    <3>2. node'[q].heard[k] = NotHeard /\ node'[q].seen[k] = 0
      BY <1>3, <1>4, <2>2
    <3>3. QED
      BY <3>1, <3>2, AgreesFirst, Zenon
  <2>3. CASE q # n /\ k = n
    <3>1. node[q].seen[n] < t.epoch
      BY <1>1, <1>2, <1>3, <2>1, <2>3, SMTT(20), SMTT(30) DEF Agrees
    <3>2. Agrees(node[q], t)
      BY <1>2, <1>3, <3>1 DEF Agrees
    <3>3. QED
      BY <1>4, <2>3, <3>2, Zenon, ZenonT(30)
  <2>4. CASE q # n /\ k # n
    BY <1>4, <2>1, <2>4
  <2>5. QED
    BY <2>2, <2>3, <2>4
<1>9. QED
  BY <1>5, <1>6, <1>7, <1>8, Zenon DEF IInv
-----------------------------------------------------------------------------
(* One step.                                                                 *)

\* A handler that hears no path is a run of its node.
LEMMA HandledRuns ==
    ASSUME NEW n \in Node, NEW t, NEW M, Handled(node[n], t, M)
    PROVE  Runs(n, t, M)
  BY Zenon DEF Handled, Runs

\* So is one that hears the path of a message under way.
LEMMA HeardRuns ==
    ASSUME NEW n \in Node, NEW t, NEW M, NEW m \in net, m.type = "tree", m.to = n,
           Heard(node[n], t, m, M)
    PROVE  Runs(n, t, M)
<1>1. /\ Good(t) /\ Same(node[n], t) /\ t.peers = node[n].peers /\ t.seen = node[n].seen
      /\ Advances(node[n], t) /\ \A k \in M : Posted(k, t)
  BY Zenon DEF Heard
<1>2. \A q \in Node : \/ t.heard[q] = node[n].heard[q]
                      \/ /\ q = m.from /\ m.from \in node[n].peers
                         /\ t.heard[q].seq = m.seq /\ t.heard[q].path = m.path
  BY Zenon DEF Heard
<1>3. QED
  BY <1>1, <1>2, Zenon DEF Runs

\* Such a run keeps the invariant, whatever messages it consumes.
LEMMA CommitKeeps ==
    ASSUME IInv, NEW n \in Node, NEW r, NEW consumed, Runs(n, r.node, r.sent), WorldOK',
           Commit(n, r, consumed)
    PROVE  IInv'
<1>1. node' = [node EXCEPT ![n] = r.node] /\ net' \subseteq net \cup r.sent
  BY DEF Commit
<1>2. QED
  BY <1>1, RunKeeps, Zenon

\* So does a handler that sends nothing itself.
LEMMA QuietKeeps ==
    ASSUME IInv, NEW n \in Node, NEW t, NEW consumed, Handled(node[n], t, {}), WorldOK',
           Commit(n, Quietly(t), consumed)
    PROVE  IInv'
<1>1. Quietly(t).node = t /\ Quietly(t).sent = {}
  BY DEF Quietly
<1>2. Runs(n, Quietly(t).node, Quietly(t).sent)
  BY <1>1, HandledRuns
<1>3. QED
  BY <1>2, CommitKeeps

\* The network itself stays; only what may still happen to it is counted down.
LEMMA WorldStays ==
    ASSUME WorldOK,
           \/ UNCHANGED world
           \/ world' = [world EXCEPT !.reports = @ - 1] \/ world' = [world EXCEPT !.cuts = @ - 1]
           \/ world' = [world EXCEPT !.restarts = @ - 1] \/ world' = [world EXCEPT !.losses = @ - 1]
    PROVE  WorldOK'
<1>1. /\ DOMAIN world' = DOMAIN world /\ world'.costs = world.costs /\ world'.edges = world.edges
  BY Zenon, ZenonT(30) DEF WorldOK, WorldFields
<1>2. QED
  BY <1>1 DEF WorldOK

\* The facts of the invariant about one node.
LEMMA NodeIsGood ==
    ASSUME IInv, NEW n \in Node
    PROVE  /\ Good(node[n]) /\ node[n].addr = n /\ node[n].epoch \in Nat /\ node[n].peers \subseteq Node
           /\ WorldOK
  BY DEF IInv, NodesOK, Good, Shape

\* An announcement arrives.
LEMMA ReceiveTreeKeeps ==
    ASSUME IInv, NEW n \in Node, NEW p \in Node, ReceiveTree(n, p)
    PROVE  IInv'
<1>1. PICK m \in net, settled \in BOOLEAN, limited \in Limits(n) :
          /\ m.to = n /\ m.from = p /\ m.type = "tree"
          /\ Commit(n, handle_tree_announce(node[n], m, settled, limited), {m})
          /\ UNCHANGED world
  BY Zenon DEF ReceiveTree
<1> DEFINE r == handle_tree_announce(node[n], m, settled, limited)
<1>2. Sound(m)
  BY <1>1 DEF IInv, MessagesOK, Said
<1>3. Heard(node[n], r.node, m, r.sent)
  BY <1>1, <1>2, NodeIsGood, TreeAnnounceHandled, Zenon
<1>4. Runs(n, r.node, r.sent)
  BY <1>1, <1>3, HeardRuns, Zenon
<1>5. WorldOK'
  BY <1>1, NodeIsGood, WorldStays, Zenon
<1> HIDE DEF r
<1>6. Commit(n, r, {m})
  BY <1>1 DEF r
<1>7. QED
  BY <1>4, <1>5, <1>6, CommitKeeps

\* A peer has become a client.
LEMMA ReceiveClientOnlyKeeps ==
    ASSUME IInv, NEW n \in Node, NEW p \in Node, ReceiveClientOnly(n, p)
    PROVE  IInv'
<1>1. PICK m \in net, settled \in BOOLEAN :
          /\ m.to = n /\ m.from = p /\ m.type = "client"
          /\ Commit(n, Quietly(handle_client_only(node[n], m, settled)), {m})
          /\ UNCHANGED world
  BY Zenon DEF ReceiveClientOnly
<1>2. Handled(node[n], handle_client_only(node[n], m, settled), {})
  BY <1>1, NodeIsGood, ClientOnlyHandled, Zenon
<1>3. WorldOK'
  BY <1>1, NodeIsGood, WorldStays, Zenon
<1>4. QED
  BY <1>1, <1>2, <1>3, QuietKeeps, Zenon

\* A peer understands clients.
LEMMA ReceiveSupportKeeps ==
    ASSUME IInv, NEW n \in Node, NEW p \in Node, ReceiveSupport(n, p)
    PROVE  IInv'
<1>1. PICK m \in net, settled \in BOOLEAN :
          /\ m.to = n /\ m.from = p /\ m.type = "support"
          /\ Commit(n, handle_client_support(node[n], m, settled), {m})
          /\ UNCHANGED world
  BY Zenon DEF ReceiveSupport
<1> DEFINE r == handle_client_support(node[n], m, settled)
<1>2. Handled(node[n], r.node, r.sent)
  BY <1>1, NodeIsGood, SupportHandled, Zenon
<1>3. WorldOK'
  BY <1>1, NodeIsGood, WorldStays, Zenon
<1>4. QED
  BY <1>1, <1>2, <1>3, HandledRuns, CommitKeeps, Zenon

\* What is pending or due goes out.
LEMMA DispatchKeeps ==
    ASSUME IInv, NEW n \in Node, Dispatch(n)
    PROVE  IInv'
<1>1. PICK ready \in Ready(n), settled \in BOOLEAN :
          /\ Commit(n, send_tree_announces(node[n], ready, settled, {}), {})
          /\ UNCHANGED world
  BY Zenon DEF Dispatch
<1> DEFINE r == send_tree_announces(node[n], ready, settled, {})
<1>2. Handled(node[n], r.node, r.sent)
  BY NodeIsGood, DispatchHandled, Zenon
<1>3. WorldOK'
  BY <1>1, NodeIsGood, WorldStays, Zenon
<1>4. QED
  BY <1>1, <1>2, <1>3, HandledRuns, CommitKeeps, Zenon

\* The periodic re-evaluation.
LEMMA ReevaluateKeeps ==
    ASSUME IInv, NEW n \in Node, Reevaluate(n)
    PROVE  IInv'
<1>1. PICK settled \in BOOLEAN, limited \in Limits(n) :
          /\ Commit(n, check_periodic_parent_reeval(node[n], settled, limited), {})
          /\ UNCHANGED world
  BY Zenon DEF Reevaluate
<1> DEFINE r == check_periodic_parent_reeval(node[n], settled, limited)
<1>2. Handled(node[n], r.node, r.sent)
  BY NodeIsGood, ReevaluateHandled, Zenon
<1>3. WorldOK'
  BY <1>1, NodeIsGood, WorldStays, Zenon
<1>4. QED
  BY <1>1, <1>2, <1>3, HandledRuns, CommitKeeps, Zenon

\* A measurement of a link.
LEMMA ReportKeeps ==
    ASSUME IInv, NEW n \in Node, Report(n)
    PROVE  IInv'
<1>1. PICK p \in node[n].peers, c \in world.costs \cup {0}, settled \in BOOLEAN,
           limited \in Limits(n) :
          /\ Commit(n, handle_receiver_report(node[n], p, c, settled, limited), {})
          /\ world' = [world EXCEPT !.reports = @ - 1]
  BY Zenon DEF Report
<1> DEFINE r == handle_receiver_report(node[n], p, c, settled, limited)
<1>2. c \in Nat
  BY NodeIsGood DEF WorldOK
<1>3. Handled(node[n], r.node, r.sent)
  BY <1>2, NodeIsGood, ReportHandled, Zenon
<1>4. WorldOK'
  BY <1>1, NodeIsGood, WorldStays, Zenon
<1>5. QED
  BY <1>1, <1>3, <1>4, HandledRuns, CommitKeeps, Zenon

\* A link dies and the peer stays.
LEMMA LinkDeadKeeps ==
    ASSUME IInv, NEW n \in Node, LinkDead(n)
    PROVE  IInv'
<1>1. PICK p \in node[n].peers, settled \in BOOLEAN :
          /\ Commit(n, Quietly(mark_link_dead(node[n], p, settled)), {})
          /\ world' = [world EXCEPT !.cuts = @ - 1]
  BY Zenon DEF LinkDead
<1>2. Handled(node[n], mark_link_dead(node[n], p, settled), {})
  BY NodeIsGood, LinkDeadHandled, Zenon
<1>3. WorldOK'
  BY <1>1, NodeIsGood, WorldStays, Zenon
<1>4. QED
  BY <1>1, <1>2, <1>3, QuietKeeps, Zenon

\* A peer is removed, with what is under way from it.
LEMMA DepartKeeps ==
    ASSUME IInv, NEW n \in Node, Depart(n)
    PROVE  IInv'
<1>1. PICK p \in node[n].peers, settled \in BOOLEAN :
          /\ Commit(n, Quietly(remove_active_peer(node[n], p, settled)),
                    {m \in net : m.to = n /\ m.from = p})
          /\ world' = [world EXCEPT !.cuts = @ - 1]
  BY Zenon DEF Depart
<1>2. Handled(node[n], remove_active_peer(node[n], p, settled), {})
  BY NodeIsGood, DepartHandled, Zenon
<1>3. WorldOK'
  BY <1>1, NodeIsGood, WorldStays, Zenon
<1>4. QED
  BY <1>1, <1>2, <1>3, QuietKeeps, Zenon

\* Both ends of a handshake promote the connection.
LEMMA HandshakeStepKeeps ==
    ASSUME IInv, NEW n \in Node, NEW p \in Node, Handshake(n, p)
    PROVE  IInv'
<1>1. PICK settled \in BOOLEAN, limited \in Limits(n), limitedp \in Limits(p) :
          /\ n < p /\ p \in Neighbours(n)
          /\ Promoted(n, p, promote_connection(node[n], p, node[p].epoch, settled, limited),
                            promote_connection(node[p], n, node[n].epoch, settled, limitedp))
          /\ UNCHANGED world
  BY Zenon DEF Handshake
<1> DEFINE r == promote_connection(node[n], p, node[p].epoch, settled, limited)
           q == promote_connection(node[p], n, node[n].epoch, settled, limitedp)
<1>2. n # p
  BY <1>1, Addresses
<1>3. Joins(node[n], r.node, p, node[p].epoch, r.sent)
  BY <1>2, NodeIsGood, PromoteJoins, Zenon
<1>4. Joins(node[p], q.node, n, node[n].epoch, q.sent)
  BY <1>2, NodeIsGood, PromoteJoins, Zenon
<1>5. WorldOK'
  BY <1>1, NodeIsGood, WorldStays, Zenon
<1>6. Promoted(n, p, r, q)
  BY <1>1
<1> HIDE DEF r, q
<1>7. /\ node' = [node EXCEPT ![n] = r.node, ![p] = q.node]
      /\ net' = (net \ (Undecryptable(n, p) \cup Undecryptable(p, n))) \cup r.sent \cup q.sent
  BY <1>6, Zenon DEF Promoted
<1>8. QED
  BY <1>2, <1>3, <1>4, <1>5, <1>7, HandshakeKeeps, Zenon

\* A message is lost.
LEMMA LoseKeeps ==
    ASSUME IInv, Lose
    PROVE  IInv'
<1>1. UNCHANGED node /\ net' \subseteq net /\ world' = [world EXCEPT !.losses = @ - 1]
  BY DEF Lose
<1>2. WorldOK'
  BY <1>1, WorldStays, Zenon DEF IInv
<1>3. NodesOK' /\ NodesAgree' /\ PeersMet'
  BY <1>1, Zenon DEF IInv, NodesOK, NodesAgree, PeersMet
<1>4. MessagesOK'
  BY <1>1 DEF IInv, MessagesOK
<1>5. QED
  BY <1>2, <1>3, <1>4 DEF IInv

\* Every step keeps the invariant.
LEMMA StepKeeps ==
    ASSUME IInv, [Next]_vars
    PROVE  IInv'
<1>1. ASSUME NEW n \in Node, Restart(n) PROVE IInv'
  <2>1. /\ node' = [node EXCEPT ![n] = NewState(n, node[n].epoch + 1, node[n].leaf_only)]
        /\ net' = {m \in net : m.to # n} /\ world' = [world EXCEPT !.restarts = @ - 1]
    BY <1>1, Zenon DEF Restart
  <2>2. WorldOK'
    BY <2>1, WorldStays, Zenon DEF IInv
  <2>3. QED
    BY <2>1, <2>2, RestartKeeps, Zenon
<1>2. ASSUME NEW n \in Node, NodeStep(n) PROVE IInv'
  BY <1>1, <1>2, ReceiveTreeKeeps, ReceiveClientOnlyKeeps, ReceiveSupportKeeps, HandshakeStepKeeps,
     DispatchKeeps, ReevaluateKeeps, ReportKeeps, LinkDeadKeeps, DepartKeeps, Zenon DEF NodeStep
<1>3. CASE UNCHANGED vars
  BY <1>3, Zenon DEF vars, IInv, WorldOK, NodesOK, MessagesOK, NodesAgree, PeersMet
<1>4. QED
  BY <1>2, <1>3, LoseKeeps, Zenon DEF Next
-----------------------------------------------------------------------------
(* The first states.                                                         *)

\* Neighbours are other nodes, and each other's.
LEMMA NeighboursAreMutual ==
    ASSUME WorldOK
    PROVE  /\ \A n \in Node : Neighbours(n) \subseteq Node /\ n \notin Neighbours(n)
           /\ \A n, p \in Node : p \in Neighbours(n) => n \in Neighbours(p)
<1>1. \A n \in Node : Neighbours(n) \subseteq Node
  BY DEF Neighbours
<1>2. ASSUME NEW n \in Node PROVE n \notin Neighbours(n)
  <2>1. {n, n} = {n}
    OBVIOUS
  <2>2. QED
    BY <2>1 DEF Neighbours, WorldOK
<1>3. ASSUME NEW n \in Node, NEW p \in Node, p \in Neighbours(n) PROVE n \in Neighbours(p)
  <2>1. {n, p} = {p, n}
    OBVIOUS
  <2>2. QED
    BY <1>3, <2>1 DEF Neighbours
<1>4. QED
  BY <1>1, <1>2, <1>3

\* A node in its first epoch that has heard nothing yet.
First(s, n) ==
    /\ Good(s) /\ s.addr = n /\ s.leaf_only \in BOOLEAN /\ s.epoch = 0
    /\ \A q \in Node : s.heard[q] = NotHeard /\ s.seen[q] = 0

\* A network of such nodes, with some of their announcements under way.
LEMMA FirstNetwork ==
    ASSUME WorldOK, DOMAIN node = Node, \A n \in Node : First(node[n], n),
           \A m \in net : \E n \in Node : Posted(m, node[n])
    PROVE  IInv
<1>1. \A n \in Node : /\ Good(node[n]) /\ node[n].addr = n /\ node[n].epoch = 0
                      /\ \A q \in Node : node[n].heard[q] = NotHeard /\ node[n].seen[q] = 0
  BY Zenon DEF First
<1>2. \A n \in Node : Shape(node[n]) /\ node[n].seq \in Nat \ {0} /\ node[n].peers \subseteq Node
  BY <1>1, Zenon, ZenonT(30) DEF Good, Shape
<1>3. NodesOK
  BY Zenon DEF First, NodesOK
<1>4. PeersMet
  BY <1>1 DEF PeersMet
<1>5. NodesAgree
  <2> SUFFICES ASSUME NEW q \in Node, NEW n \in Node PROVE Agrees(node[q], node[n])
    BY Zenon, ZenonT(30) DEF NodesAgree
  <2>1. /\ node[q].heard[node[n].addr] = NotHeard /\ node[q].seen[node[n].addr] = 0
        /\ node[n].epoch \in Nat /\ node[n].seq \in Nat \ {0}
    BY <1>1, <1>2, SMTT(20), SMTT(30)
  <2>2. QED
    BY <2>1, AgreesFirst, Zenon
<1>6. MessagesOK
  <2> SUFFICES ASSUME NEW m \in net
               PROVE  /\ m.from \in Node /\ m.to \in Node
                      /\ Said(m, node[m.from]) /\ Readable(m, node[m.to])
    BY DEF MessagesOK
  <2>1. PICK n \in Node : Posted(m, node[n])
    BY Zenon
  <2>2. m.from = n /\ m.to \in Node /\ m.epoch = 0
    BY <1>1, <1>2, <2>1 DEF Posted
  <2>3. Said(m, node[n])
    BY <1>2, <2>1, PostedSaid, Zenon, ZenonT(30)
  <2>4. Readable(m, node[m.to])
    BY <1>1, <2>2 DEF Readable
  <2>5. QED
    BY <2>2, <2>3, <2>4, Zenon, ZenonT(30)
<1>7. QED
  BY <1>3, <1>4, <1>5, <1>6 DEF IInv

\* A node that has not been promoted by anybody.
LEMMA FirstAlone ==
    ASSUME NEW n \in Node
    PROVE  Fresh(FirstState(n), n, 0, n \in world.leaf_only) /\ First(FirstState(n), n)
<1>1. Fresh(FirstState(n), n, 0, n \in world.leaf_only)
  <2>1. 0 \in Nat
    OBVIOUS
  <2>2. (n \in world.leaf_only) \in BOOLEAN
    BY SMTT(20), SMTT(30)
  <2>3. QED
    BY <2>1, <2>2, NewIsGood, Zenon DEF FirstState
<1>2. QED
  BY <1>1, Zenon DEF Fresh, First

\* A node that has been promoted by all its neighbours and has announced itself.
LEMMA FirstJoined ==
    ASSUME WorldOK, NEW n \in Node
    PROVE  First(Joined(n).node, n) /\ \A m \in Joined(n).sent : Posted(m, Joined(n).node)
<1> DEFINE f == FirstState(n)
           s == [f EXCEPT !.peers = Neighbours(n)]
           r == Joined(n)
<1>1. Fresh(f, n, 0, n \in world.leaf_only)
  BY FirstAlone
<1>2. Shape(f) /\ Linked(f)
  BY <1>1, Zenon DEF Fresh, Good
<1> HIDE DEF f
<1>3. /\ DOMAIN s = StateFields /\ s.addr = f.addr /\ s.epoch = f.epoch /\ s.leaf_only = f.leaf_only
      /\ s.leaf = f.leaf /\ s.parent = f.parent /\ s.seq = f.seq /\ s.coords = f.coords
      /\ s.heard = f.heard /\ s.role = f.role /\ s.cost = f.cost /\ s.seen = f.seen
      /\ s.peers = Neighbours(n)
  BY <1>2 DEF Shape, StateFields
<1> HIDE DEF s
<1>4. f.addr = n /\ f.epoch = 0 /\ f.seq = 1 /\ f.parent = n /\ f.coords = <<n>>
  BY <1>1, Zenon DEF Fresh
<1>5. f.leaf_only \in BOOLEAN /\ \A q \in Node : f.heard[q] = NotHeard /\ f.seen[q] = 0
  BY <1>1, Zenon, ZenonT(30) DEF Fresh
<1>6. Shape(s)
  BY <1>2, <1>3, <1>4, NeighboursAreMutual, SMTT(20), SMTT(30) DEF Shape
<1>7. Linked(s)
  BY <1>3, <1>4 DEF Linked
<1>8. Outcome(s, r.node, r.sent)
  BY <1>6, <1>7, SentAnnounces, Zenon DEF Joined, s, f
<1> HIDE DEF r
<1> DEFINE t == r.node
<1>9. /\ Shape(t) /\ Linked(t) /\ Settled(t) /\ Same(s, t) /\ t.peers = s.peers
      /\ t.heard = s.heard /\ t.seen = s.seen /\ \A m \in r.sent : Posted(m, t)
  BY <1>8, Zenon, ZenonT(30) DEF Outcome
<1> HIDE DEF t
<1>10. t.addr = n /\ t.epoch = 0
  BY <1>3, <1>4, <1>9 DEF Same
<1>11. t.leaf_only \in BOOLEAN
  BY <1>3, <1>5, <1>9, Zenon DEF Same
<1>12. \A q \in Node : t.heard[q] = NotHeard /\ t.seen[q] = 0
  BY <1>3, <1>5, <1>9, Zenon, ZenonT(30)
<1>13. Known(t) = {}
  BY <1>12 DEF Known, NotHeard
<1>14. First(t, n)
  BY <1>9, <1>10, <1>11, <1>12, <1>13, Zenon, ZenonT(30) DEF First, Good
<1>15. QED
  BY <1>9, <1>14 DEF t, r
\* In a formed tree the coordinates are paths, and a parent is a neighbour whose path
\* does not lead back.
LEMMA FormedPaths ==
    ASSUME world \in Worlds, world.start = "Formed", NEW n \in Node
    PROVE  LET c == world.coords[n]
               p == StartParent(n)
           IN  /\ IsPath(c, n) /\ StartSeq(n) \in Nat \ {0} /\ n \notin world.leaf_only
               /\ \/ p = n /\ c = <<n>>
                  \/ /\ p # n /\ p \in Neighbours(n) /\ c = <<n>> \o world.coords[p]
                     /\ n \notin Range(world.coords[p]) /\ root_id(world.coords[p]) < n
<1> DEFINE c == world.coords[n]
           p == c[2]
           d == world.coords[p]
<1>1. FormedTree(world) /\ world.coords \in [Node -> Seq(Node)]
  BY WorldsAssumption, Zenon DEF WorldType
<1>2. \A k \in Node : IsPath(world.coords[k], k)
  BY <1>1, Zenon DEF FormedTree, IsPath
<1>3. /\ world.leaf_only = {}
      /\ Len(c) > 1 => {n, p} \in world.edges /\ c = <<n>> \o d
  BY <1>1, Zenon DEF FormedTree
<1>4. StartSeq(n) \in Nat \ {0}
  BY DEF StartSeq
<1>5. c \in Seq(Node) /\ Len(c) > 0 /\ c[1] = n /\ IsInjective(c)
      /\ \A i \in 1 .. Len(c) : root_id(c) <= c[i]
  BY <1>2 DEF IsPath
<1>6. CASE Len(c) = 1
  <2>1. c = <<n>>
    BY <1>5, <1>6
  <2>2. StartParent(n) = n
    BY <1>6, Zenon DEF StartParent
  <2>3. QED
    BY <1>2, <1>3, <1>4, <2>1, <2>2
<1>7. CASE Len(c) # 1
  <2>1. Len(c) > 1 /\ Len(c) \in Nat
    <3> HIDE DEF c
    <3>1. Len(c) \in Nat /\ Len(c) > 0
      BY <1>5
    <3>2. QED
      BY <1>7, <3>1, SMTT(20), SMTT(30)
  <2>2. StartParent(n) = p /\ p \in Node
    BY <1>5, <1>7, <2>1, SMTT(20), SMTT(30) DEF StartParent
  <2>3. p # n
    BY <1>5, <2>1, SMTT(20), SMTT(30) DEF IsInjective
  <2>4. p \in Neighbours(n) /\ c = <<n>> \o d
    BY <1>3, <2>1, <2>2, Zenon DEF Neighbours
  <2>5. d \in Seq(Node) /\ Len(d) > 0
    BY <1>2, <2>2 DEF IsPath
  <2>6. Len(c) = Len(d) + 1 /\ root_id(c) = root_id(d) /\ \A i \in 2 .. Len(c) : c[i] = d[i - 1]
    <3> DEFINE e == <<n>> \o d
    <3>1. Len(e) = Len(d) + 1 /\ root_id(e) = root_id(d) /\ \A i \in 2 .. Len(e) : e[i] = d[i - 1]
      BY <2>5, Prepended, Zenon
    <3>2. c = e
      BY <2>4, Zenon
    <3> HIDE DEF c, d, e
    <3>3. QED
      BY <3>1, <3>2
  <2>7. \A j \in 1 .. Len(d) : d[j] # n
    <3> SUFFICES ASSUME NEW j \in 1 .. Len(d) PROVE d[j] # n
      OBVIOUS
    <3>1. j + 1 \in 2 .. Len(c) /\ j + 1 # 1 /\ (j + 1) - 1 = j
      BY <2>5, <2>6, SMTT(20), SMTT(30)
    <3>2. c[j + 1] = d[j]
      BY <2>6, <3>1
    <3>3. j + 1 \in DOMAIN c /\ 1 \in DOMAIN c
      BY <1>5, <2>1, <3>1, SMTT(20), SMTT(30)
    <3>4. QED
      BY <1>5, <3>1, <3>2, <3>3, Zenon, ZenonT(30) DEF IsInjective
  <2>8. n \notin Range(d)
    BY <2>5, <2>7 DEF Range
  <2>9. root_id(d) < n
    <3>1. root_id(d) = d[Len(d)] /\ Len(d) \in 1 .. Len(d)
      BY <2>5, SMTT(20), SMTT(30) DEF root_id
    <3>2. root_id(d) # n /\ root_id(d) \in Node
      BY <2>5, <2>7, <3>1, SMTT(20), SMTT(30)
    <3>3. root_id(d) <= n
      BY <1>5, <2>1, <2>6
    <3>4. QED
      BY <3>2, <3>3, Addresses
  <2>10. QED
    BY <1>2, <1>3, <1>4, <2>2, <2>3, <2>4, <2>8, <2>9, Zenon
<1>8. QED
  BY <1>6, <1>7

\* What a node of a formed tree has heard of its neighbours is their path.
FormedNode(s, n) ==
    /\ Good(s) /\ s.addr = n /\ s.leaf_only \in BOOLEAN /\ s.epoch = 0
    /\ s.seq = StartSeq(n) /\ s.coords = world.coords[n]
    /\ \A q \in Node : /\ s.seen[q] = 0
                       /\ \/ s.heard[q] = NotHeard
                          \/ s.heard[q].seq = StartSeq(q) /\ s.heard[q].path = world.coords[q]

\* The nodes of a formed tree are such.
LEMMA FormedIsGood ==
    ASSUME WorldOK, world \in Worlds, world.start = "Formed", NEW n \in Node
    PROVE  FormedNode(Formed(n), n)
<1> DEFINE f == FirstState(n)
           s == Formed(n)
           d(q) == [parent |-> StartParent(q), seq |-> StartSeq(q), path |-> world.coords[q]]
<1>1. Fresh(f, n, 0, n \in world.leaf_only)
  BY FirstAlone
<1>2. Shape(f) /\ f.addr = n /\ f.epoch = 0 /\ f.leaf_only \in BOOLEAN
      /\ f.leaf = (n \in world.leaf_only) /\ f.leaf_only = (n \in world.leaf_only)
      /\ \A q \in Node : f.seen[q] = 0
  BY <1>1, Zenon, ZenonT(30) DEF Fresh, Good
<1>3. DOMAIN f = StateFields
  BY <1>2 DEF Shape
<1>4. /\ DOMAIN s = StateFields /\ s.addr = f.addr /\ s.epoch = f.epoch /\ s.leaf_only = f.leaf_only
      /\ s.leaf = f.leaf /\ s.cost = f.cost /\ s.seen = f.seen
      /\ s.parent = StartParent(n) /\ s.seq = StartSeq(n) /\ s.coords = world.coords[n]
      /\ s.peers = Neighbours(n)
      /\ s.heard = [q \in Node |-> IF q \in Neighbours(n) THEN d(q) ELSE NotHeard]
      /\ s.role = [q \in Node |-> IF q \in Neighbours(n) THEN [NewRole EXCEPT !.seq = StartSeq(q)]
                                                         ELSE NewRole]
  <2> HIDE DEF f
  <2>1. QED
    BY <1>3, Zenon, ZenonT(30) DEF Formed, StateFields, f
<1> HIDE DEF f, s
<1>5. \A q \in Node : /\ DOMAIN d(q) = {"parent", "seq", "path"} /\ d(q).seq = StartSeq(q)
                      /\ d(q).path = world.coords[q]
  OBVIOUS
<1>6. \A q \in Node : s.heard[q] = (IF q \in Neighbours(n) THEN d(q) ELSE NotHeard)
  BY <1>4
<1> HIDE DEF d
<1>7. \A q \in Node : HeardOK(s.heard[q], q)
  <2> SUFFICES ASSUME NEW q \in Node PROVE HeardOK(s.heard[q], q)
    OBVIOUS
  <2>1. IsPath(world.coords[q], q) /\ StartSeq(q) \in Nat \ {0}
    BY FormedPaths, Zenon
  <2>2. QED
    BY <1>5, <1>6, <2>1, Zenon DEF HeardOK
<1>8. DOMAIN s.role = Node /\ \A q \in Node : DOMAIN s.role[q] = RoleFields
  BY <1>4 DEF NewRole, RoleFields
<1>9. Shape(s)
  <2>1. StartSeq(n) \in Nat \ {0}
    BY FormedPaths, Zenon
  <2>2. /\ f.addr = n /\ f.epoch \in Nat /\ DOMAIN f.cost = Node /\ DOMAIN f.seen = Node
        /\ \A p \in Node : f.cost[p] \in Nat /\ f.seen[p] \in Nat
    BY <1>2 DEF Shape
  <2>3. DOMAIN s.heard = Node
    BY <1>4
  <2>4. QED
    BY <1>4, <1>7, <1>8, <2>1, <2>2, <2>3, NeighboursAreMutual DEF Shape
<1>10. n \notin world.leaf_only
  BY FormedPaths, Zenon
<1>11. s.leaf = FALSE /\ s.leaf_only = FALSE
  BY <1>2, <1>4, <1>10, Zenon
<1>12. Linked(s)
  <2>1. CASE s.parent = n /\ s.coords = <<n>>
    BY <1>2, <1>4, <2>1 DEF Linked
  <2>2. CASE /\ s.parent # n /\ s.parent \in Neighbours(n)
             /\ s.coords = <<n>> \o world.coords[s.parent]
             /\ n \notin Range(world.coords[s.parent]) /\ root_id(world.coords[s.parent]) < n
    <3>1. s.parent \in Node /\ s.heard[s.parent].path = world.coords[s.parent]
      BY <1>5, <1>6, <2>2, NeighboursAreMutual, Zenon
    <3>2. world.coords[s.parent] # <<>>
      <4>1. IsPath(world.coords[s.parent], s.parent)
        BY <3>1, FormedPaths, Zenon
      <4>2. QED
        BY <4>1, SMTT(20), SMTT(30) DEF IsPath
    <3>3. QED
      BY <1>2, <1>4, <2>2, <3>1, <3>2 DEF Linked, Open, Known, peer_root
  <2>3. QED
    BY <1>4, <2>1, <2>2, FormedPaths, Zenon
<1>13. Settled(s)
  BY <1>11, Zenon DEF Settled
<1>14. Known(s) \subseteq s.peers
  BY <1>4, <1>6 DEF Known, NotHeard
<1>15. Good(s)
  BY <1>9, <1>12, <1>13, <1>14 DEF Good
<1>16. \A q \in Node : \/ s.heard[q] = NotHeard
                       \/ s.heard[q].seq = StartSeq(q) /\ s.heard[q].path = world.coords[q]
  BY <1>5, <1>6
<1>17. \A q \in Node : s.seen[q] = 0
  BY <1>2, <1>4
<1>18. s.leaf_only \in BOOLEAN
  BY <1>2, <1>4, Zenon
<1>19. s.addr = n /\ s.epoch = 0
  BY <1>2, <1>4, Zenon
<1>20. QED
  BY <1>4, <1>15, <1>16, <1>17, <1>18, <1>19, Zenon DEF FormedNode, s

\* A network of such nodes.
LEMMA FormedNetwork ==
    ASSUME WorldOK, world \in Worlds, world.start = "Formed", DOMAIN node = Node, net = {},
           \A n \in Node : FormedNode(node[n], n)
    PROVE  IInv
<1>1. \A n \in Node : /\ node[n].addr = n /\ node[n].epoch = 0
                      /\ node[n].seq = StartSeq(n) /\ node[n].coords = world.coords[n]
                      /\ \A q \in Node :
                          /\ node[n].seen[q] = 0
                          /\ \/ node[n].heard[q] = NotHeard
                             \/ /\ node[n].heard[q].seq = StartSeq(q)
                                /\ node[n].heard[q].path = world.coords[q]
  BY Zenon DEF FormedNode
<1>2. NodesOK
  BY Zenon DEF FormedNode, NodesOK
<1>3. PeersMet
  BY <1>1, Zenon, ZenonT(30) DEF PeersMet
<1>4. NodesAgree
  <2> SUFFICES ASSUME NEW q \in Node, NEW n \in Node PROVE Agrees(node[q], node[n])
    BY Zenon DEF NodesAgree
  <2>1. StartSeq(n) \in Nat \ {0}
    BY FormedPaths, Zenon
  <2>2. NotHeard.seq = 0
    BY DEF NotHeard
  <2>3. QED
    BY <1>1, <2>1, <2>2 DEF Agrees
<1>5. QED
  BY <1>2, <1>3, <1>4, Zenon DEF IInv, MessagesOK

\* The invariant holds at first.
LEMMA InitKeeps ==
    ASSUME Init
    PROVE  IInv
<1>1. world \in Worlds /\ world \in WorldType /\ \A n \in Node : {n} \notin world.edges
  BY WorldsAssumption, Zenon DEF Init
<1>2. WorldOK
  BY <1>1 DEF WorldOK, WorldType, WorldFields
<1>3. DOMAIN node = Node
  BY DEF Init
<1>4. CASE world.start = "Alone"
  <2>1. net = {} /\ \A n \in Node : node[n] = FirstState(n)
    BY <1>4 DEF Init
  <2>2. \A n \in Node : First(node[n], n)
    BY <2>1, FirstAlone, Zenon
  <2>3. QED
    BY <1>2, <1>3, <2>1, <2>2, FirstNetwork, Zenon
<1>5. CASE world.start = "Joined"
  <2>1. net = UNION {Joined(n).sent : n \in Node} /\ \A n \in Node : node[n] = Joined(n).node
    BY <1>5 DEF Init
  <2>2. \A n \in Node : First(node[n], n) /\ \A m \in Joined(n).sent : Posted(m, node[n])
    BY <1>2, <2>1, FirstJoined, Zenon
  <2>3. \A m \in net : \E n \in Node : Posted(m, node[n])
    BY <2>1, <2>2
  <2>4. QED
    BY <1>2, <1>3, <2>2, <2>3, FirstNetwork
<1>6. CASE world.start = "Formed"
  <2>1. net = {} /\ \A n \in Node : node[n] = Formed(n)
    BY <1>6 DEF Init
  <2>2. \A n \in Node : FormedNode(node[n], n)
    BY <1>1, <1>2, <1>6, <2>1, FormedIsGood, Zenon
  <2>3. QED
    BY <1>1, <1>2, <1>3, <1>6, <2>1, <2>2, FormedNetwork, Zenon
<1>7. QED
  BY <1>1, <1>4, <1>5, <1>6 DEF WorldType
-----------------------------------------------------------------------------
(* What the invariant gives.                                                 *)

\* The invariant implies that declarations are sound.
LEMMA InvariantIsSound ==
    ASSUME IInv
    PROVE  DeclarationsAreSound
<1>1. \A n \in Node : /\ Shape(node[n]) /\ Linked(node[n]) /\ Known(node[n]) \subseteq node[n].peers
                      /\ node[n].addr = n
  BY DEF IInv, NodesOK, Good
<1>2. AnnouncementsAreValid
  <2> SUFFICES ASSUME NEW m \in net, m.type = "tree" PROVE ValidAnnounce(m)
    BY DEF AnnouncementsAreValid, Trees
  <2>1. Sound(m)
    BY Zenon DEF IInv, MessagesOK, Said
  <2>2. QED
    BY <2>1 DEF Sound, IsPath, ValidAnnounce
<1>3. CoordsFollowParent
  <2> SUFFICES ASSUME NEW n \in Node
               PROVE  IF node[n].parent = n
                      THEN node[n].coords = <<n>>
                      ELSE /\ node[n].parent \in node[n].peers \cap Known(node[n])
                           /\ node[n].coords = <<n>> \o node[n].heard[node[n].parent].path
    BY Zenon DEF CoordsFollowParent
  <2>1. QED
    BY <1>1, Zenon DEF Linked, Open
<1>4. PathsAreSimple
  <2> SUFFICES ASSUME NEW n \in Node PROVE IsInjective(node[n].coords)
    BY DEF PathsAreSimple
  <2>1. Coherent(node[n])
    BY <1>1, LinkedCoheres, Zenon
  <2>2. QED
    BY <2>1, Zenon DEF Coherent
<1>5. SequenceNamesPath
  <2>1. ASSUME NEW n \in Node, NEW m \in Trees, m.from = n, m.epoch = node[n].epoch,
               m.seq = node[n].seq
        PROVE  m.parent = node[n].parent /\ m.path = node[n].coords
    BY <2>1, Zenon, ZenonT(30) DEF Trees, IInv, MessagesOK, Said
  <2>2. ASSUME NEW n \in Node, NEW q \in Node, node[q].seen[n] = node[n].epoch,
               node[q].heard[n].seq = node[n].seq
        PROVE  node[q].heard[n].path = node[n].coords
    BY <1>1, <2>2 DEF IInv, NodesAgree, Agrees
  <2>3. QED
    BY <2>1, <2>2, Zenon DEF SequenceNamesPath
<1>6. QED
  BY <1>2, <1>3, <1>4, <1>5, Zenon, ZenonT(30) DEF DeclarationsAreSound

\* The inductive invariant of the tree: every node is where its parent puts it, what is
\* under way or held of a process is one of its declarations, and peers know each
\* other's process, whatever is lost, reordered, restarted or promoted.
THEOREM TreeInvariant == Spec => []IInv
<1>1. Init => IInv
  BY InitKeeps
<1>2. IInv /\ [Next]_vars => IInv'
  BY StepKeeps
<1>3. QED
  BY <1>1, <1>2, PTL DEF Spec

\* In every network of any size, of routers and clients, with any losses, restarts and
\* cuts: what set_parent, recompute_coords and send_tree_announce declare is a path without
\* repetitions through what the parent announced last, which validate_semantics accepts,
\* and a sequence number never names two of them (update_peer relies on that).
THEOREM DeclarationsSound == Spec => []DeclarationsAreSound
<1>1. IInv => DeclarationsAreSound
  BY InvariantIsSound
<1>2. QED
  BY <1>1, TreeInvariant, PTL
=============================================================================
