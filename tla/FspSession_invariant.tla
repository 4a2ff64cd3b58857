------------------------ MODULE FspSession_invariant -------------------------
(***************************************************************************)
(* What holds of the sessions of two nodes in every world: with any number  *)
(* of handshakes, rekeys, restarts, timeouts and recoveries, and whatever   *)
(* the network loses, repeats or reorders.                                  *)
(***************************************************************************)
EXTENDS FspSession, OwnerEpochs_proofs

\* The provers for a step that names none, in the order in which they are tried.
USE SMTT(10), Zenon, SMTT(30)

\* The fields of a session entry.
EntryFields ==
    {"state", "hs", "session", "remote_epoch", "is_initiator", "handshake_payload", "due_at",
     "resend_count", "current_k_bit", "draining", "rekey_state", "rekey_handshake_initiator",
     "pending_new_session", "pending_rekey_initiator", "rekey_msg3_payload",
     "rekey_msg3_resend_count"}

-----------------------------------------------------------------------------
(* The inductive invariant.                                                  *)

\* The handshake an entry takes part in, by the number it holds for it, or 0.
Attempt(e) == IF is_established(e) THEN e.rekey_state ELSE e.hs

\* The flags of an entry.
EntryFlags(e) ==
    /\ e.draining \in BOOLEAN
    /\ e.rekey_handshake_initiator \in BOOLEAN /\ e.pending_rekey_initiator \in BOOLEAN

\* The entry of a node: only an established one has epochs; a rekey and a completed
\* epoch are younger than the session and exclude a drain.
EntryOK(e, x) ==
    /\ DOMAIN e = EntryFields
    /\ e.state \in {"None", "Initiating", "AwaitingMsg3", "Established"}
    /\ e.current_k_bit \in KBits
    /\ e.hs \in 0 .. x /\ e.session \in 0 .. x
    /\ e.rekey_state \in 0 .. x /\ e.pending_new_session \in 0 .. x
    /\ e.state \in {"Initiating", "AwaitingMsg3"} => e.hs # 0
    /\ is_established(e) => e.session # 0
    /\ ~is_established(e) => /\ e.session = 0 /\ e.rekey_state = 0
                             /\ e.pending_new_session = 0 /\ e.draining = FALSE
    /\ e.rekey_state # 0 => e.session < e.rekey_state /\ e.draining = FALSE
    /\ e.pending_new_session # 0 => e.session < e.pending_new_session /\ e.draining = FALSE

\* The owner has the epochs of the entry, under its generation.
OwnerOK(e, o) ==
    IF ~is_established(e) THEN o = NoOwner
    ELSE /\ DOMAIN o = OwnerFields
         /\ o.protocol = "Fsp"
         /\ o.generation = e.session /\ o.crypto_keys = e.session
         /\ o.current_k_bit = e.current_k_bit
         /\ o.previous_draining_k_bit = dataplane_fsp_owner_epoch(e)
         /\ o.pending_open = e.pending_new_session
         /\ o.pending_seal = e.pending_new_session
         /\ o.pending_k_bit = IF e.pending_new_session = 0 THEN NoBit ELSE 1 - e.current_k_bit

\* Messages carry numbers that have been drawn; an ack the older one of its initiator.
MessageOK(m, x) ==
    /\ m.i \in 0 .. x /\ m.s \in 0 .. x
    /\ m.type = "SessionAck" => m.i < m.s
    /\ m.type = "Data" => m.to \in Nodes /\ m.s # 0 /\ m.k \in KBits

\* What an entry keeps for retransmission.
Payloads(e) == {e.handshake_payload, e.rekey_msg3_payload}

\* Node with entry e knows session s, if at all, by K bit k, and whatever it still
\* completes is younger.
Evid(e, s, k) ==
    /\ e.session = s => e.current_k_bit = k
    /\ e.pending_new_session = s => e.current_k_bit = 1 - k
    /\ Attempt(e) = 0 \/ Attempt(e) > s

\* A packet is evidence of the bit by which its sender knows the session.
PacketsName ==
    \A m \in net : m.type = "Data" => Evid(sessions[PeerOf(m.to)], m.s, m.k)

\* A node that was cut over to a session has such evidence too; one that was not calls
\* the session 0.
CurrentName ==
    \A n \in Nodes :
        is_established(sessions[n]) /\ sessions[n].current_k_bit # 0 =>
            Evid(sessions[PeerOf(n)], sessions[n].session, sessions[n].current_k_bit)

\* Node n takes part, or took part, in the handshake of session s as its responder.
RespondsBy(e, s) ==
    \/ e.state = "AwaitingMsg3" /\ e.hs = s
    \/ e.rekey_state # 0 /\ e.rekey_state = s /\ e.rekey_handshake_initiator = FALSE
    \/ has_pending(e) /\ e.pending_new_session = s /\ e.pending_rekey_initiator = FALSE

Responds(n, s) == RespondsBy(sessions[n], s)

\* It completed that handshake as the initiator.
InitiatesBy(e, s) ==
    has_pending(e) /\ e.pending_new_session = s /\ e.pending_rekey_initiator = TRUE

\* An ack of session s on its way to node n.
Acked(m, n, s) == m.type = "SessionAck" /\ m.to = n /\ m.s = s

\* Node n is, or may become, the initiator of session s.
Initiates(n, s) ==
    \/ \E m \in net : Acked(m, n, s)
    \/ \E m \in Payloads(sessions[PeerOf(n)]) : Acked(m, n, s)
    \/ InitiatesBy(sessions[n], s)

\* A session has at most one responder, at most one initiator, and they differ.
OneResponder == \A s \in Nat : ~(Responds(1, s) /\ Responds(2, s))
OneInitiator == \A s \in Nat : ~(Initiates(1, s) /\ Initiates(2, s))
RolesDiffer == \A n \in Nodes : \A s \in Nat : ~(Initiates(n, s) /\ Responds(n, s))

\* What holds of every entry, owner and message on its own.
Structure ==
    /\ ephemerals \in Nat
    /\ DOMAIN sessions = Nodes /\ DOMAIN owners = Nodes
    /\ \A n \in Nodes : /\ EntryFlags(sessions[n]) /\ EntryOK(sessions[n], ephemerals)
                         /\ OwnerOK(sessions[n], owners[n])
    /\ \A m \in net : MessageOK(m, ephemerals)
    /\ \A n \in Nodes : \A m \in Payloads(sessions[n]) :
            /\ MessageOK(m, ephemerals) /\ m.type # "Data"
            /\ m.type = "SessionAck" => m.to = PeerOf(n)

\* The inductive invariant.  BitsNameEpochs needs that nobody completes a session later under
\* another bit (Evid), OneSideProbes that roles are never shared.
IInv ==
    /\ Structure
    /\ PacketsName /\ CurrentName
    /\ OneResponder /\ OneInitiator /\ RolesDiffer

-----------------------------------------------------------------------------
(* What a step of a node does to its entry, by kind; x is the number of      *)
(* ephemerals drawn after it.                                                *)

\* The epochs are as they were.
SameEpochs(e, f) ==
    /\ DOMAIN f = EntryFields
    /\ f.state = e.state /\ f.hs = e.hs
    /\ f.session = e.session /\ f.current_k_bit = e.current_k_bit
    /\ f.pending_new_session = e.pending_new_session
    /\ f.pending_rekey_initiator = e.pending_rekey_initiator

\* Timers and retransmissions change no epoch; they may give up a rekey.
Kept(e, f) ==
    /\ SameEpochs(e, f) /\ f.draining = e.draining
    /\ \/ /\ f.rekey_state = e.rekey_state
          /\ f.rekey_handshake_initiator = e.rekey_handshake_initiator
       \/ f.rekey_state = 0 /\ f.rekey_handshake_initiator = FALSE

\* There are none.
NoEpochs(f) ==
    /\ DOMAIN f = EntryFields
    /\ f.session = 0 /\ f.rekey_state = 0 /\ f.pending_new_session = 0
    /\ f.draining = FALSE /\ f.current_k_bit = 0
    /\ f.rekey_handshake_initiator = FALSE /\ f.pending_rekey_initiator = FALSE

\* A first handshake is begun or answered, in place of any other.
OpenedFirst(e, f, x) ==
    /\ ~is_established(e)
    /\ NoEpochs(f) /\ f.state \in {"Initiating", "AwaitingMsg3"} /\ f.hs = x /\ x = Fresh

\* A rekey is begun or answered.
OpenedRekey(e, f, x) ==
    /\ is_established(e) /\ e.draining = FALSE /\ f.draining = FALSE
    /\ SameEpochs(e, f)
    /\ f.rekey_state = x /\ x = Fresh /\ f.rekey_handshake_initiator \in BOOLEAN

\* The entry is removed.
Removed(f) == NoEpochs(f) /\ f.state = "None" /\ f.hs = 0

\* The handshake completes with session t.
EstablishedAs(e, f, t) ==
    /\ Attempt(e) # 0 /\ Attempt(e) <= t /\ t \in 0 .. ephemerals
    /\ DOMAIN f = EntryFields
    /\ f.state = "Established" /\ f.hs = 0 /\ f.session = t /\ f.current_k_bit = 0
    /\ f.draining = FALSE /\ f.rekey_state = 0 /\ f.pending_new_session = 0
    /\ f.rekey_handshake_initiator = FALSE /\ f.pending_rekey_initiator = FALSE

\* A rekey completes, in the role in which it was begun: the responder knows the session
\* by the number it drew, the initiator by an ack.
CompletedAs(n, e, f, t) ==
    /\ is_established(e) /\ e.rekey_state # 0 /\ e.rekey_state <= t /\ t \in 0 .. ephemerals
    /\ DOMAIN f = EntryFields
    /\ f.state = e.state /\ f.hs = e.hs
    /\ f.session = e.session /\ f.current_k_bit = e.current_k_bit /\ f.draining = e.draining
    /\ f.rekey_state = 0 /\ f.rekey_handshake_initiator = FALSE
    /\ f.pending_new_session = t
    /\ f.pending_rekey_initiator = e.rekey_handshake_initiator
    /\ IF e.rekey_handshake_initiator THEN \E m \in net : Acked(m, n, t)
       ELSE t = e.rekey_state

\* A packet under the completed epoch makes it the current one.
Promoted(n, e, f) ==
    /\ \E m \in net : /\ m.type = "Data" /\ m.to = n
                      /\ m.s = f.session /\ m.k = f.current_k_bit
    /\ is_established(e) /\ has_pending(e)
    /\ DOMAIN f = EntryFields
    /\ f.state = e.state /\ f.hs = e.hs
    /\ f.session = e.pending_new_session /\ f.current_k_bit = 1 - e.current_k_bit
    /\ f.draining = TRUE /\ f.rekey_state = 0 /\ f.pending_new_session = 0
    /\ f.rekey_handshake_initiator = FALSE /\ f.pending_rekey_initiator = FALSE

\* The drain is over.
Drained(e, f) ==
    /\ is_established(e) /\ e.draining = TRUE
    /\ SameEpochs(e, f) /\ f.draining = FALSE
    /\ f.rekey_state = e.rekey_state
    /\ f.rekey_handshake_initiator = e.rekey_handshake_initiator

\* What the owner is synced with.
Config(f) ==
    [generation |-> f.session, session |-> f.session, k |-> f.current_k_bit,
     draining |-> dataplane_fsp_owner_epoch(f)]

\* The kinds, with what each does to the owner.
EntryStep(n, e, f, o, q, x) ==
    \/ Kept(e, f) /\ q = o /\ x = ephemerals
    \/ OpenedFirst(e, f, x) /\ q = o
    \/ OpenedRekey(e, f, x) /\ q = o
    \/ Removed(f) /\ q = NoOwner /\ x = ephemerals
    \/ Drained(e, f) /\ q = set_epoch(o, f.current_k_bit, NoBit) /\ x = ephemerals
    \/ /\ \E t \in 0 .. ephemerals : EstablishedAs(e, f, t)
       /\ q = install_session(o, Config(f)) /\ x = ephemerals
    \/ /\ \E t \in 0 .. ephemerals : CompletedAs(n, e, f, t)
       /\ q = install_pending_epoch(o, 1 - f.current_k_bit, f.pending_new_session)
       /\ x = ephemerals
    \/ Promoted(n, e, f) /\ q = install_session(o, Config(f)) /\ x = ephemerals

\* A message node n has not sent before: an ack with a number drawn for it, a packet
\* under the current or the completed epoch.
NewMessage(n, m) ==
    \/ /\ m.type \notin {"SessionAck", "Data"}
       /\ m.i \in 0 .. ephemerals' /\ m.s \in 0 .. ephemerals'
    \/ /\ m.type = "SessionAck" /\ m.to = PeerOf(n)
       /\ m.i \in 0 .. ephemerals /\ m.s = Fresh /\ ephemerals' = Fresh
    \/ /\ m.type = "Data" /\ m.to = PeerOf(n) /\ m.i = 0
       /\ m.s \in 1 .. ephemerals /\ m.k \in KBits /\ Evid(sessions[n], m.s, m.k)

\* Any step: the other node is left alone, and what is sent or kept for later is new or
\* was kept before.
NodeStep(n) ==
    /\ DOMAIN sessions' = Nodes /\ DOMAIN owners' = Nodes
    /\ sessions'[PeerOf(n)] = sessions[PeerOf(n)] /\ owners'[PeerOf(n)] = owners[PeerOf(n)]
    /\ EntryStep(n, sessions[n], sessions'[n], owners[n], owners'[n], ephemerals')
    /\ \A m \in net' : m \in net \/ m \in Payloads(sessions[n]) \/ NewMessage(n, m)
    /\ \A m \in Payloads(sessions'[n]) :
          m \in Payloads(sessions[n]) \/ (NewMessage(n, m) /\ m.type # "Data")

-----------------------------------------------------------------------------
(* Every kind of step keeps entry and owner together.                        *)

\* install_fsp_session with a session of its own generation: the owner has it, with its K
\* bit and drain, and no pending epoch.
LEMMA EpochInstalled ==
    ASSUME NEW o, DOMAIN o = OwnerFields, NEW s, s # o.generation, NEW k \in KBits, NEW d
    PROVE  LET r == install_session(o, [generation |-> s, session |-> s, k |-> k, draining |-> d])
           IN  /\ DOMAIN r = OwnerFields /\ r.protocol = o.protocol
               /\ r.generation = s /\ r.crypto_keys = s
               /\ r.current_k_bit = k /\ r.previous_draining_k_bit = d
               /\ r.pending_open = NoSession /\ r.pending_seal = NoSession
               /\ r.pending_k_bit = NoBit
<1> DEFINE r == install_session(o, [generation |-> s, session |-> s, k |-> k, draining |-> d])
<1>1. Replaced(r, o, s, s, k, d)
  BY SessionInstalled
<1> HIDE DEF r
<1>2. /\ DOMAIN r = OwnerFields /\ r.protocol = o.protocol
      /\ r.generation = s /\ r.crypto_keys = s
      /\ r.current_k_bit = k /\ r.previous_draining_k_bit = d
      /\ r.pending_open = NoSession /\ r.pending_seal = NoSession /\ r.pending_k_bit = NoBit
  BY <1>1, Zenon DEF Replaced, CurrentIs, NoPending
<1>3. QED
  BY <1>2, Zenon DEF r

\* install_fsp_pending_epoch: the owner has the completed epoch under the other K bit.
LEMMA EpochCompleted ==
    ASSUME NEW o, DOMAIN o = OwnerFields, o.protocol = "Fsp", NEW k, k # o.current_k_bit, NEW s
    PROVE  LET r == install_pending_epoch(o, k, s)
           IN  /\ DOMAIN r = OwnerFields /\ r.protocol = "Fsp"
               /\ r.generation = o.generation /\ r.crypto_keys = o.crypto_keys
               /\ r.current_k_bit = o.current_k_bit
               /\ r.previous_draining_k_bit = o.previous_draining_k_bit
               /\ r.pending_open = s /\ r.pending_seal = s /\ r.pending_k_bit = k
<1> DEFINE r == install_pending_epoch(o, k, s)
<1>1. Completed(r, o, k, s)
  BY PendingInstalled
<1> HIDE DEF r
<1>2. /\ DOMAIN r = OwnerFields /\ r.protocol = "Fsp" /\ r.generation = o.generation /\ r.crypto_keys = o.crypto_keys
      /\ r.current_k_bit = o.current_k_bit
      /\ r.previous_draining_k_bit = o.previous_draining_k_bit
      /\ r.pending_open = s /\ r.pending_seal = s /\ r.pending_k_bit = k
  BY <1>1, Zenon DEF Completed, SameCurrent
<1>3. QED
  BY <1>2, Zenon DEF r

\* The owner of a node without a session.
LEMMA NoOwnerFields ==
    /\ DOMAIN NoOwner = OwnerFields
    /\ NoOwner.protocol = "Fsp" /\ NoOwner.generation = 0
  BY DEF NoOwner, NewOwner, OwnerFields

\* Whoever writes by an epoch of its entry has the evidence of its bit.
LEMMA EpochsInUse ==
    ASSUME NEW e, NEW x \in Nat, EntryOK(e, x), is_established(e)
    PROVE  /\ e.session \in 1 .. x /\ e.current_k_bit \in KBits
           /\ Evid(e, e.session, e.current_k_bit)
           /\ has_pending(e) /\ e.rekey_state = 0 =>
                 /\ e.pending_new_session \in 1 .. x /\ 1 - e.current_k_bit \in KBits
                 /\ Evid(e, e.pending_new_session, 1 - e.current_k_bit)
  BY DEF EntryOK, Evid, Attempt, has_pending, NoSession, KBits

\* A session that is opened now has no responder and no initiator yet.
LEMMA FreshIsUnused ==
    ASSUME NEW e, NEW x \in Nat, EntryOK(e, x)
    PROVE  ~RespondsBy(e, x + 1) /\ ~InitiatesBy(e, x + 1)
  BY DEF EntryOK, RespondsBy, InitiatesBy

\* An entry stays well formed through a step of any kind.
LEMMA EntryKept ==
    ASSUME NEW n, NEW e, NEW f, NEW o, NEW q, NEW x, ephemerals \in Nat,
           EntryOK(e, ephemerals), EntryStep(n, e, f, o, q, x)
    PROVE  EntryOK(f, x) /\ x \in Nat /\ ephemerals <= x
<1>1. CASE Kept(e, f) /\ x = ephemerals
  BY <1>1 DEF Kept, SameEpochs, EntryOK, is_established
<1>2. CASE OpenedFirst(e, f, x)
  BY <1>2 DEF OpenedFirst, NoEpochs, EntryOK, is_established, Fresh, KBits
<1>3. CASE OpenedRekey(e, f, x)
  BY <1>3 DEF OpenedRekey, SameEpochs, EntryOK, is_established, Fresh
<1>4. CASE Removed(f) /\ x = ephemerals
  BY <1>4 DEF Removed, NoEpochs, EntryOK, is_established, KBits
<1>5. CASE Drained(e, f) /\ x = ephemerals
  BY <1>5 DEF Drained, SameEpochs, EntryOK, is_established
<1>6. CASE (\E t \in 0 .. ephemerals : EstablishedAs(e, f, t)) /\ x = ephemerals
  BY <1>6 DEF EstablishedAs, Attempt, EntryOK, is_established, KBits
<1>7. CASE (\E t \in 0 .. ephemerals : CompletedAs(n, e, f, t)) /\ x = ephemerals
  BY <1>7 DEF CompletedAs, EntryOK, is_established
<1>8. CASE Promoted(n, e, f) /\ x = ephemerals
  BY <1>8 DEF Promoted, EntryOK, is_established, has_pending, NoSession, KBits
<1>9. QED
  BY <1>1, <1>2, <1>3, <1>4, <1>5, <1>6, <1>7, <1>8 DEF EntryStep

\* The same, for its flags.
LEMMA FlagsKept ==
    ASSUME NEW n, NEW e, NEW f, NEW o, NEW q, NEW x,
           EntryFlags(e), EntryStep(n, e, f, o, q, x)
    PROVE  EntryFlags(f)
  BY Zenon DEF EntryStep, EntryFlags, Kept, SameEpochs, OpenedFirst, NoEpochs, OpenedRekey, Removed,
         Drained, EstablishedAs, CompletedAs, Promoted

\* The owner that a step leaves holds the epochs of the entry that it leaves.
LEMMA OwnerKept ==
    ASSUME NEW n, NEW e, NEW f, NEW o, NEW q, NEW x, ephemerals \in Nat,
           EntryOK(e, ephemerals), OwnerOK(e, o), EntryStep(n, e, f, o, q, x)
    PROVE  OwnerOK(f, q)
<1> USE DEF is_established
<1>1. CASE Kept(e, f) /\ q = o
  BY <1>1 DEF Kept, SameEpochs, OwnerOK, dataplane_fsp_owner_epoch
<1>2. CASE OpenedFirst(e, f, x) /\ q = o
  BY <1>2 DEF OpenedFirst, OwnerOK
<1>3. CASE OpenedRekey(e, f, x) /\ q = o
  BY <1>3 DEF OpenedRekey, SameEpochs, OwnerOK, dataplane_fsp_owner_epoch
<1>4. CASE Removed(f) /\ q = NoOwner
  BY <1>4 DEF Removed, OwnerOK
<1>5. CASE Drained(e, f) /\ q = set_epoch(o, f.current_k_bit, NoBit)
  <2>1. /\ DOMAIN o = OwnerFields /\ o.protocol = "Fsp"
        /\ o.generation = e.session /\ o.crypto_keys = e.session
        /\ o.pending_open = 0 /\ o.pending_seal = 0 /\ e.pending_new_session = 0
        /\ o.pending_k_bit = NoBit /\ NoBit # f.current_k_bit
    BY <1>5 DEF Drained, SameEpochs, OwnerOK, EntryOK, KBits, NoBit
  <2>2. /\ DOMAIN q = OwnerFields /\ q.protocol = "Fsp"
        /\ q.generation = o.generation /\ q.crypto_keys = o.crypto_keys
        /\ q.current_k_bit = f.current_k_bit /\ q.previous_draining_k_bit = NoBit
        /\ q.pending_open = 0 /\ q.pending_seal = 0 /\ q.pending_k_bit = NoBit
    BY <1>5, <2>1, EpochSet DEF SamePending
  <2>3. QED
    BY <1>5, <2>1, <2>2 DEF Drained, SameEpochs, OwnerOK, dataplane_fsp_owner_epoch
<1>6. ASSUME f.session # o.generation, f.current_k_bit \in KBits,
             DOMAIN o = OwnerFields, o.protocol = "Fsp",
             f.state = "Established", f.pending_new_session = 0,
             q = install_session(o, Config(f))
      PROVE  OwnerOK(f, q)
  <2>1. /\ DOMAIN q = OwnerFields /\ q.protocol = "Fsp"
        /\ q.generation = f.session /\ q.crypto_keys = f.session
        /\ q.current_k_bit = f.current_k_bit
        /\ q.previous_draining_k_bit = dataplane_fsp_owner_epoch(f)
        /\ q.pending_open = NoSession /\ q.pending_seal = NoSession /\ q.pending_k_bit = NoBit
    BY <1>6, EpochInstalled DEF Config
  <2>2. QED
    BY <1>6, <2>1 DEF OwnerOK, NoSession
<1>7. CASE (\E t \in 0 .. ephemerals : EstablishedAs(e, f, t)) /\ q = install_session(o, Config(f))
  <2>1. /\ f.session # o.generation /\ f.current_k_bit \in KBits
        /\ DOMAIN o = OwnerFields /\ o.protocol = "Fsp"
        /\ f.state = "Established" /\ f.pending_new_session = 0
    BY <1>7, NoOwnerFields DEF EstablishedAs, Attempt, EntryOK, OwnerOK, KBits
  <2>2. QED
    BY <1>6, <1>7, <2>1
<1>8. CASE /\ \E t \in 0 .. ephemerals : CompletedAs(n, e, f, t)
           /\ q = install_pending_epoch(o, 1 - f.current_k_bit, f.pending_new_session)
  <2>1. /\ DOMAIN o = OwnerFields /\ o.protocol = "Fsp" /\ f.state = "Established"
        /\ o.generation = f.session /\ o.crypto_keys = f.session
        /\ o.current_k_bit = f.current_k_bit /\ 1 - f.current_k_bit # o.current_k_bit
        /\ o.previous_draining_k_bit = dataplane_fsp_owner_epoch(f)
        /\ f.pending_new_session # 0
    BY <1>8 DEF CompletedAs, EntryOK, OwnerOK, KBits, dataplane_fsp_owner_epoch
  <2>2. /\ DOMAIN q = OwnerFields /\ q.protocol = "Fsp"
        /\ q.generation = o.generation /\ q.crypto_keys = o.crypto_keys
        /\ q.current_k_bit = o.current_k_bit
        /\ q.previous_draining_k_bit = o.previous_draining_k_bit
        /\ q.pending_open = f.pending_new_session /\ q.pending_seal = f.pending_new_session
        /\ q.pending_k_bit = 1 - f.current_k_bit
    BY <1>8, <2>1, EpochCompleted
  <2>3. QED
    BY <2>1, <2>2 DEF OwnerOK
<1>9. CASE Promoted(n, e, f) /\ q = install_session(o, Config(f))
  <2>1. /\ f.session # o.generation /\ f.current_k_bit \in KBits
        /\ DOMAIN o = OwnerFields /\ o.protocol = "Fsp"
        /\ f.state = "Established" /\ f.pending_new_session = 0
    BY <1>9 DEF Promoted, EntryOK, OwnerOK, KBits, has_pending, NoSession
  <2>2. QED
    BY <1>6, <1>9, <2>1
<1>10. QED
  BY <1>1, <1>2, <1>3, <1>4, <1>5, <1>7, <1>8, <1>9 DEF EntryStep

-----------------------------------------------------------------------------
(* Every kind of step keeps what is known of K bits and of roles.            *)

\* Sessions that are completed later are younger than the ones there is evidence of.
LEMMA EvidKept ==
    ASSUME NEW n, NEW e, NEW f, NEW o, NEW q, NEW x, ephemerals \in Nat,
           EntryOK(e, ephemerals), EntryStep(n, e, f, o, q, x),
           NEW s \in 1 .. ephemerals, NEW k \in KBits, Evid(e, s, k)
    PROVE  Evid(f, s, k)
<1> USE DEF is_established, Attempt, Evid
<1>1. CASE Kept(e, f)
  BY <1>1 DEF Kept, SameEpochs
<1>2. CASE OpenedFirst(e, f, x)
  BY <1>2 DEF OpenedFirst, NoEpochs, Fresh
<1>3. CASE OpenedRekey(e, f, x)
  BY <1>3 DEF OpenedRekey, SameEpochs, Fresh
<1>4. CASE Removed(f)
  BY <1>4 DEF Removed, NoEpochs
<1>5. CASE Drained(e, f)
  BY <1>5 DEF Drained, SameEpochs
<1>6. CASE \E t \in 0 .. ephemerals : EstablishedAs(e, f, t)
  BY <1>6 DEF EstablishedAs, EntryOK
<1>7. CASE \E t \in 0 .. ephemerals : CompletedAs(n, e, f, t)
  BY <1>7 DEF CompletedAs, EntryOK
<1>8. CASE Promoted(n, e, f)
  BY <1>8 DEF Promoted, EntryOK, KBits
<1>9. QED
  BY <1>1, <1>2, <1>3, <1>4, <1>5, <1>6, <1>7, <1>8 DEF EntryStep

\* A node becomes a responder only of a session whose number it draws.
LEMMA RespondsKept ==
    ASSUME NEW n, NEW e, NEW f, NEW o, NEW q, NEW x, ephemerals \in Nat,
           EntryOK(e, ephemerals), EntryFlags(e), EntryStep(n, e, f, o, q, x),
           NEW s, RespondsBy(f, s)
    PROVE  RespondsBy(e, s) \/ s = Fresh
<1> USE DEF RespondsBy, has_pending, NoSession
<1>1. CASE Kept(e, f)
  BY <1>1 DEF Kept, SameEpochs
<1>2. CASE OpenedFirst(e, f, x)
  BY <1>2 DEF OpenedFirst, NoEpochs
<1>3. CASE OpenedRekey(e, f, x)
  BY <1>3 DEF OpenedRekey, SameEpochs
<1>4. CASE Removed(f)
  BY <1>4 DEF Removed, NoEpochs
<1>5. CASE Drained(e, f)
  BY <1>5 DEF Drained, SameEpochs
<1>6. CASE \E t \in 0 .. ephemerals : EstablishedAs(e, f, t)
  BY <1>6 DEF EstablishedAs
<1>7. CASE \E t \in 0 .. ephemerals : CompletedAs(n, e, f, t)
  BY <1>7 DEF CompletedAs, EntryFlags, is_established
<1>8. CASE Promoted(n, e, f)
  BY <1>8 DEF Promoted, is_established
<1>9. QED
  BY <1>1, <1>2, <1>3, <1>4, <1>5, <1>6, <1>7, <1>8, Zenon DEF EntryStep

\* A node becomes the initiator of a completed epoch only by an ack.
LEMMA InitiatesKept ==
    ASSUME NEW n, NEW e, NEW f, NEW o, NEW q, NEW x, ephemerals \in Nat,
           EntryFlags(e), EntryStep(n, e, f, o, q, x),
           NEW s, InitiatesBy(f, s)
    PROVE  InitiatesBy(e, s) \/ \E m \in net : Acked(m, n, s)
<1> USE DEF InitiatesBy, has_pending, NoSession
<1>1. CASE Kept(e, f) \/ OpenedRekey(e, f, x) \/ Drained(e, f)
  BY <1>1 DEF Kept, SameEpochs, OpenedRekey, Drained
<1>2. CASE OpenedFirst(e, f, x) \/ Removed(f)
  BY <1>2 DEF OpenedFirst, NoEpochs, Removed
<1>3. CASE (\E t \in 0 .. ephemerals : EstablishedAs(e, f, t)) \/ Promoted(n, e, f)
  BY <1>3 DEF EstablishedAs, Promoted
<1>4. CASE \E t \in 0 .. ephemerals : CompletedAs(n, e, f, t)
  BY <1>4 DEF CompletedAs, EntryFlags
<1>5. QED
  BY <1>1, <1>2, <1>3, <1>4, Zenon DEF EntryStep

-----------------------------------------------------------------------------
(* Every step keeps the invariant.                                           *)

\* There are two nodes, each the peer of the other.
LEMMA TwoNodes ==
    ASSUME NEW n \in Nodes
    PROVE  /\ PeerOf(n) \in Nodes /\ PeerOf(PeerOf(n)) = n /\ PeerOf(n) # n
           /\ \A r \in Nodes : r = n \/ r = PeerOf(n)
  BY DEF Nodes, PeerOf

\* Numbers that have been drawn stay drawn.
LEMMA Grows ==
    ASSUME NEW x \in Nat, NEW y \in Nat, x <= y
    PROVE  /\ \A e : EntryOK(e, x) => EntryOK(e, y)
           /\ \A m : MessageOK(m, x) => MessageOK(m, y)
<1>1. ASSUME NEW e, EntryOK(e, x) PROVE EntryOK(e, y)
  BY <1>1 DEF EntryOK
<1>2. ASSUME NEW m, MessageOK(m, x) PROVE MessageOK(m, y)
  BY <1>2 DEF MessageOK
<1>3. QED
  BY <1>1, <1>2

\* A step of a node keeps entries, owners and messages well formed.
LEMMA StructureKept ==
    ASSUME Structure, NEW n \in Nodes, NodeStep(n)
    PROVE  Structure' /\ ephemerals <= ephemerals'
<1> DEFINE e == sessions[n]  f == sessions'[n]  o == owners[n]  q == owners'[n]
           p == PeerOf(n)
<1>1. /\ EntryOK(e, ephemerals) /\ EntryFlags(e) /\ OwnerOK(e, o) /\ ephemerals \in Nat
      /\ EntryStep(n, e, f, o, q, ephemerals')
  BY DEF Structure, NodeStep
<1>2. /\ EntryOK(f, ephemerals') /\ EntryFlags(f) /\ OwnerOK(f, q)
      /\ ephemerals' \in Nat /\ ephemerals <= ephemerals'
  BY <1>1, EntryKept, FlagsKept, OwnerKept
<1>3. \A r \in Nodes : /\ EntryFlags(sessions'[r]) /\ EntryOK(sessions'[r], ephemerals')
                       /\ OwnerOK(sessions'[r], owners'[r])
  BY <1>1, <1>2, Grows, TwoNodes DEF Structure, NodeStep
<1>4. ASSUME NEW m, NewMessage(n, m)
      PROVE  MessageOK(m, ephemerals') /\ (m.type = "SessionAck" => m.to = p)
  BY <1>1, <1>2, <1>4, TwoNodes DEF NewMessage, MessageOK, Fresh
<1>5. \A m \in Payloads(e) :
          /\ MessageOK(m, ephemerals') /\ m.type # "Data"
          /\ m.type = "SessionAck" => m.to = p
  BY <1>1, <1>2, Grows DEF Structure
<1>6. \A m \in net' : MessageOK(m, ephemerals')
  BY <1>1, <1>2, <1>4, <1>5, Grows DEF Structure, NodeStep
<1>7. \A m \in Payloads(f) :
          /\ MessageOK(m, ephemerals') /\ m.type # "Data"
          /\ m.type = "SessionAck" => m.to = p
  BY <1>4, <1>5 DEF NodeStep
<1>8. \A m \in Payloads(sessions'[p]) :
          /\ MessageOK(m, ephemerals') /\ m.type # "Data"
          /\ m.type = "SessionAck" => m.to = PeerOf(p)
  BY <1>1, <1>2, Grows, TwoNodes DEF Structure, NodeStep
<1>9. \A r \in Nodes : \A m \in Payloads(sessions'[r]) :
          /\ MessageOK(m, ephemerals') /\ m.type # "Data"
          /\ m.type = "SessionAck" => m.to = PeerOf(r)
  BY <1>7, <1>8, TwoNodes
<1>10. QED
  BY <1>2, <1>3, <1>6, <1>9 DEF Structure, NodeStep

\* A step of a node contradicts no evidence that the other one relies on.
LEMMA NamesKept ==
    ASSUME Structure, PacketsName, CurrentName, NEW n \in Nodes, NodeStep(n)
    PROVE  PacketsName' /\ CurrentName'
<1> DEFINE e == sessions[n]  f == sessions'[n]  p == PeerOf(n)
<1>1. /\ EntryOK(e, ephemerals) /\ ephemerals \in Nat
      /\ EntryStep(n, e, f, owners[n], owners'[n], ephemerals')
      /\ sessions'[p] = sessions[p] /\ p \in Nodes /\ p # n /\ PeerOf(p) = n
      /\ EntryOK(sessions[p], ephemerals)
  BY TwoNodes DEF Structure, NodeStep
<1>2. ASSUME NEW s \in 1 .. ephemerals, NEW k \in KBits, Evid(e, s, k)
      PROVE  Evid(f, s, k)
  BY <1>1, <1>2, EvidKept
<1>3. ASSUME NEW m \in net', m.type = "Data"
      PROVE  Evid(sessions'[PeerOf(m.to)], m.s, m.k)
  <2>1. CASE m \in net
    <3>1. m.to \in Nodes /\ m.s \in 1 .. ephemerals /\ m.k \in KBits
      BY <1>1, <1>3, <2>1 DEF Structure, MessageOK
    <3>2. Evid(sessions[PeerOf(m.to)], m.s, m.k)
      BY <1>3, <2>1 DEF PacketsName
    <3>3. CASE m.to = n
      BY <1>1, <3>2, <3>3
    <3>4. CASE m.to = p
      BY <1>1, <1>2, <3>1, <3>2, <3>4
    <3>5. QED
      BY <3>1, <3>3, <3>4, TwoNodes
  <2>2. CASE m \notin net
    <3>1. NewMessage(n, m)
      BY <1>3, <2>2 DEF Structure, NodeStep
    <3>2. m.to = p /\ m.s \in 1 .. ephemerals /\ m.k \in KBits /\ Evid(e, m.s, m.k)
      BY <1>3, <3>1 DEF NewMessage
    <3>3. QED
      BY <1>1, <1>2, <3>2
  <2>3. QED
    BY <2>1, <2>2
<1>4. ASSUME is_established(sessions'[p]), sessions'[p].current_k_bit # 0
      PROVE  Evid(f, sessions'[p].session, sessions'[p].current_k_bit)
  <2>1. Evid(e, sessions[p].session, sessions[p].current_k_bit)
    BY <1>1, <1>4, SMTT(20), SMTT(30) DEF CurrentName
  <2>2. sessions[p].session \in 1 .. ephemerals /\ sessions[p].current_k_bit \in KBits
    BY <1>1, <1>4, SMTT(20), SMTT(30) DEF EntryOK
  <2>3. QED
    BY <1>1, <1>2, <2>1, <2>2
<1>5. ASSUME is_established(f), f.current_k_bit # 0
      PROVE  Evid(sessions[p], f.session, f.current_k_bit)
  <2>1. CASE Promoted(n, e, f)
    BY <2>1 DEF Promoted, PacketsName
  <2>2. CASE Kept(e, f) \/ OpenedRekey(e, f, ephemerals') \/ Drained(e, f)
             \/ \E t \in 0 .. ephemerals : CompletedAs(n, e, f, t)
    <3>1. f.session = e.session /\ f.current_k_bit = e.current_k_bit /\ is_established(e)
      BY <1>5, <2>2 DEF Kept, OpenedRekey, Drained, CompletedAs, SameEpochs, is_established
    <3>2. QED
      BY <1>5, <3>1, SMTT(20), SMTT(30) DEF CurrentName
  <2>3. CASE OpenedFirst(e, f, ephemerals') \/ Removed(f)
             \/ \E t \in 0 .. ephemerals : EstablishedAs(e, f, t)
    BY <1>5, <2>3 DEF OpenedFirst, NoEpochs, Removed, EstablishedAs
  <2>4. QED
    BY <1>1, <2>1, <2>2, <2>3 DEF EntryStep
<1>6. ASSUME NEW r \in Nodes, is_established(sessions'[r]), sessions'[r].current_k_bit # 0
      PROVE  Evid(sessions'[PeerOf(r)], sessions'[r].session, sessions'[r].current_k_bit)
  <2>1. CASE r = n
    BY <1>1, <1>5, <1>6, <2>1
  <2>2. CASE r = p
    BY <1>1, <1>4, <1>6, <2>2
  <2>3. QED
    BY <2>1, <2>2, TwoNodes
<1>7. QED
  BY <1>3, <1>6 DEF PacketsName, CurrentName

\* A step of a node gives no session a second responder or initiator.
LEMMA RolesKept ==
    ASSUME Structure, OneResponder, OneInitiator, RolesDiffer, NEW n \in Nodes, NodeStep(n)
    PROVE  OneResponder' /\ OneInitiator' /\ RolesDiffer'
<1> DEFINE e == sessions[n]  f == sessions'[n]  p == PeerOf(n)
<1>1. /\ EntryOK(e, ephemerals) /\ EntryFlags(e) /\ ephemerals \in Nat
      /\ EntryStep(n, e, f, owners[n], owners'[n], ephemerals')
      /\ sessions'[p] = sessions[p] /\ p \in Nodes /\ p # n /\ PeerOf(p) = n
      /\ EntryOK(sessions[p], ephemerals)
  BY TwoNodes DEF Structure, NodeStep
<1>2. \A s \in Nat : Responds(n, s)' => Responds(n, s) \/ s = Fresh
  BY <1>1, RespondsKept DEF Responds
<1>3. \A s \in Nat : Responds(p, s)' => Responds(p, s)
  BY <1>1 DEF Responds
<1>4. \A r \in Nodes : \A m \in Payloads(sessions[r]) :
         /\ m.type = "SessionAck" => m.to = PeerOf(r)
         /\ m.s <= ephemerals
  BY <1>1 DEF Structure, MessageOK
<1>5. \A s \in Nat : Initiates(n, s)' => Initiates(n, s)
  <2> SUFFICES ASSUME NEW s \in Nat, Initiates(n, s)' PROVE Initiates(n, s)
    OBVIOUS
  <2>1. CASE InitiatesBy(f, s)
    BY <1>1, <2>1, InitiatesKept DEF Initiates
  <2>2. CASE \E m \in Payloads(sessions'[p]) : Acked(m, n, s)
    BY <1>1, <2>2 DEF Initiates
  <2>3. CASE \E m \in net' : Acked(m, n, s)
    <3>1. PICK m \in net' : Acked(m, n, s)
      BY <2>3
    <3>2. m \notin Payloads(e) /\ ~NewMessage(n, m)
      BY <1>1, <1>4, <3>1, SMTT(20), SMTT(30) DEF Acked, NewMessage
    <3>3. QED
      BY <3>1, <3>2 DEF NodeStep, Initiates
  <2>4. QED
    BY <2>1, <2>2, <2>3 DEF Initiates
<1>6. \A s \in Nat : Initiates(p, s)' => Initiates(p, s) \/ s = Fresh
  <2> SUFFICES ASSUME NEW s \in Nat, Initiates(p, s)' PROVE Initiates(p, s) \/ s = Fresh
    OBVIOUS
  <2>1. CASE InitiatesBy(sessions'[p], s)
    BY <1>1, <2>1 DEF Initiates
  <2>2. ASSUME NEW m, m \in net' \/ m \in Payloads(f), Acked(m, p, s)
        PROVE  Initiates(p, s) \/ s = Fresh
    <3>1. m \in net \/ m \in Payloads(e) \/ NewMessage(n, m)
      BY <2>2 DEF NodeStep
    <3>2. CASE NewMessage(n, m)
      BY <2>2, <3>2 DEF NewMessage, Acked
    <3>3. QED
      BY <1>1, <2>2, <3>1, <3>2 DEF Initiates
  <2>3. QED
    BY <1>1, <2>1, <2>2 DEF Initiates
<1>7. ~Responds(n, Fresh) /\ ~Responds(p, Fresh)
  BY <1>1, FreshIsUnused DEF Responds, Fresh
<1>8. ~Initiates(n, Fresh) /\ ~Initiates(p, Fresh)
  <2>1. \A m \in net : m.s <= ephemerals
    BY <1>1 DEF Structure, MessageOK
  <2>2. ~InitiatesBy(e, Fresh) /\ ~InitiatesBy(sessions[p], Fresh)
    BY <1>1, FreshIsUnused DEF Fresh
  <2>3. QED
    BY <1>1, <1>4, <2>1, <2>2 DEF Initiates, Acked, Fresh
<1>9. \A s \in Nat : /\ ~(Responds(n, s) /\ Responds(p, s))
                     /\ ~(Initiates(n, s) /\ Initiates(p, s))
                     /\ ~(Initiates(n, s) /\ Responds(n, s))
                     /\ ~(Initiates(p, s) /\ Responds(p, s))
  BY <1>1 DEF OneResponder, OneInitiator, RolesDiffer, Nodes
<1>10. \A s \in Nat : /\ ~(Responds(n, s)' /\ Responds(p, s)')
                      /\ ~(Initiates(n, s)' /\ Initiates(p, s)')
                      /\ ~(Initiates(n, s)' /\ Responds(n, s)')
                      /\ ~(Initiates(p, s)' /\ Responds(p, s)')
  BY <1>2, <1>3, <1>5, <1>6, <1>7, <1>8, <1>9
<1>11. (n = 1 /\ p = 2) \/ (n = 2 /\ p = 1)
  BY DEF Nodes, PeerOf
<1>12. QED
  BY <1>10, <1>11, TwoNodes DEF OneResponder, OneInitiator, RolesDiffer, Nodes

-----------------------------------------------------------------------------
(* The operators on an entry.                                                *)

\* Updating an entry adds and removes no field.
LEMMA EntryFieldsKept ==
    ASSUME NEW e, NEW a, NEW b
    PROVE  /\ DOMAIN set_handshake_payload(e, a) = DOMAIN e
           /\ DOMAIN clear_handshake_payload(e) = DOMAIN e
           /\ DOMAIN record_resend(e) = DOMAIN e
           /\ DOMAIN clear_rekey_msg3_payload(e) = DOMAIN e
           /\ DOMAIN establish(e, a, b) = DOMAIN e
           /\ DOMAIN set_pending_session(e, a) = DOMAIN e
           /\ DOMAIN set_rekey_state(e, a, b) = DOMAIN e
           /\ DOMAIN abandon_handshake(e) = DOMAIN e
           /\ DOMAIN promote_pending(e) = DOMAIN e
<1>1. ASSUME NEW x PROVE DOMAIN clear_handshake_payload(x) = DOMAIN x
  BY DEF clear_handshake_payload
<1>2. ASSUME NEW x PROVE DOMAIN clear_rekey_msg3_payload(x) = DOMAIN x
  BY DEF clear_rekey_msg3_payload
<1>3. DOMAIN set_handshake_payload(e, a) = DOMAIN e
  BY DEF set_handshake_payload
<1>4. DOMAIN record_resend(e) = DOMAIN e
  BY DEF record_resend
<1>5. DOMAIN establish(e, a, b) = DOMAIN e
  BY <1>2, Zenon DEF establish
<1>6. DOMAIN set_pending_session(e, a) = DOMAIN e
  BY <1>2 DEF set_pending_session
<1>7. DOMAIN set_rekey_state(e, a, b) = DOMAIN e
  BY DEF set_rekey_state
<1>8. DOMAIN abandon_handshake(e) = DOMAIN e
  BY <1>1 DEF abandon_handshake
<1>9. DOMAIN promote_pending(e) = DOMAIN e
  BY <1>1 DEF promote_pending
<1>10. QED
  BY <1>1, <1>2, <1>3, <1>4, <1>5, <1>6, <1>7, <1>8, <1>9

\* An entry that keeps its epochs and retains no other message.
Retains(e, f) == Kept(e, f) /\ Payloads(f) \subseteq Payloads(e) \cup {NoMessage}

\* Two such updates in a row are one.
LEMMA RetainsTwice ==
    ASSUME NEW e, NEW f, NEW g, Retains(e, f), Retains(f, g)
    PROVE  Retains(e, g)
  BY DEF Retains, Kept, SameEpochs

\* The helpers on timers, counters and payloads, and the ones that abandon a rekey.
LEMMA Retaining ==
    ASSUME NEW e, DOMAIN e = EntryFields
    PROVE  /\ Retains(e, e)
           /\ Retains(e, clear_handshake_payload(e))
           /\ Retains(e, record_resend(e))
           /\ Retains(e, clear_rekey_msg3_payload(e))
           /\ Retains(e, abandon_handshake(e))
           /\ Retains(e, [e EXCEPT !.due_at = FALSE])
           /\ Retains(e, [e EXCEPT !.rekey_msg3_resend_count = OneMore(@)])
<1> USE DEF Retains, Kept, SameEpochs, Payloads
<1>1. Retains(e, e)
  OBVIOUS
<1>2. Retains(e, clear_handshake_payload(e))
  BY EntryFieldsKept DEF clear_handshake_payload, EntryFields
<1>3. Retains(e, record_resend(e))
  BY EntryFieldsKept DEF record_resend, EntryFields
<1>4. Retains(e, clear_rekey_msg3_payload(e))
  BY EntryFieldsKept DEF clear_rekey_msg3_payload, EntryFields
<1>5. Retains(e, abandon_handshake(e))
  BY EntryFieldsKept DEF abandon_handshake, clear_handshake_payload, EntryFields
<1>6. Retains(e, [e EXCEPT !.due_at = FALSE])
  BY DEF EntryFields
<1>7. Retains(e, [e EXCEPT !.rekey_msg3_resend_count = OneMore(@)])
  BY DEF EntryFields
<1>8. QED
  BY <1>1, <1>2, <1>3, <1>4, <1>5, <1>6, <1>7

\* ClearConfirmed drops what was kept for resending.
LEMMA Clearing ==
    ASSUME NEW e, DOMAIN e = EntryFields, NEW c
    PROVE  Retains(e, ClearConfirmed(e, c))
<1> DEFINE unpended == c /\ is_established(e) /\ ~ has_pending(e)
           without3 == IF unpended /\ e.rekey_msg3_payload # NoMessage
                       THEN clear_rekey_msg3_payload(e) ELSE e
<1>1. Retains(e, without3)
  BY Retaining, Zenon
<1>2. DOMAIN without3 = EntryFields
  BY <1>1 DEF Retains, Kept, SameEpochs
<1>3. ClearConfirmed(e, c) \in {without3, clear_handshake_payload(without3)}
  BY DEF ClearConfirmed
<1> HIDE DEF without3
<1>4. QED
  BY <1>1, <1>2, <1>3, Retaining, RetainsTwice, Zenon

\* The entry of a first handshake has no epoch, and keeps the message it was opened with.
LEMMA NewEntries ==
    ASSUME NEW h, NEW a
    PROVE  /\ LET f == set_handshake_payload(NewEntry("Initiating", h, TRUE), a)
              IN  /\ NoEpochs(f) /\ f.state = "Initiating" /\ f.hs = h
                  /\ Payloads(f) = {a, NoMessage}
           /\ LET f == set_handshake_payload(NewEntry("AwaitingMsg3", h, FALSE), a)
              IN  /\ NoEpochs(f) /\ f.state = "AwaitingMsg3" /\ f.hs = h
                  /\ Payloads(f) = {a, NoMessage}
<1>1. ASSUME NEW g, DOMAIN g = EntryFields, NoEpochs(g), g.rekey_msg3_payload = NoMessage
      PROVE  LET f == set_handshake_payload(g, a)
             IN  /\ NoEpochs(f) /\ f.state = g.state /\ f.hs = g.hs
                 /\ Payloads(f) = {a, NoMessage}
  BY <1>1, EntryFieldsKept DEF NoEpochs, set_handshake_payload, EntryFields, Payloads
<1>2. LET g == NewEntry("Initiating", h, TRUE)
      IN  /\ DOMAIN g = EntryFields /\ g.state = "Initiating" /\ g.hs = h /\ NoEpochs(g)
          /\ g.rekey_msg3_payload = NoMessage
  BY DEF NewEntry, NoEntry, EntryFields, NoEpochs, NoSession
<1>3. LET g == NewEntry("AwaitingMsg3", h, FALSE)
      IN  /\ DOMAIN g = EntryFields /\ g.state = "AwaitingMsg3" /\ g.hs = h /\ NoEpochs(g)
          /\ g.rekey_msg3_payload = NoMessage
  BY DEF NewEntry, NoEntry, EntryFields, NoEpochs, NoSession
<1>4. QED
  BY <1>1, <1>2, <1>3, Zenon

-----------------------------------------------------------------------------
(* What a node writes and sends.                                             *)

\* Node n writes its entry and its owner.
Wrote(n, f, q) ==
    /\ DOMAIN sessions' = Nodes /\ DOMAIN owners' = Nodes
    /\ sessions'[n] = f /\ owners'[n] = q
    /\ sessions'[PeerOf(n)] = sessions[PeerOf(n)] /\ owners'[PeerOf(n)] = owners[PeerOf(n)]

\* SetEntry, RemoveEntry and an idle node write as Wrote says.
LEMMA Writes ==
    ASSUME Structure, NEW n \in Nodes, NEW f
    PROVE  /\ UNCHANGED <<sessions, owners>> => Wrote(n, sessions[n], owners[n])
           /\ SetEntry(n, f) => Wrote(n, f, owners[n])
           /\ SetSession(n, f) => Wrote(n, f, install_session(owners[n], Config(f)))
           /\ SetPending(n, f) =>
                 Wrote(n, f, install_pending_epoch(owners[n], 1 - f.current_k_bit,
                                                   f.pending_new_session))
           /\ RemoveEntry(n) => Wrote(n, NoEntry, NoOwner)
  BY TwoNodes DEF Structure, Wrote, SetEntry, SetSession, SetPending, RemoveEntry, SyncedOwner,
                  Config

\* Send and Answer put on the network what they are given.
LEMMA Sends ==
    ASSUME NEW m, NEW messages
    PROVE  /\ Answer(m, messages) => net' \subseteq net \cup messages /\ m \in net
           /\ Send(messages) => net' \subseteq net \cup messages
  BY DEF Answer, Send

\* The messages a node makes up.
LEMMA NewMessages ==
    ASSUME NEW n, ephemerals' \in Nat
    PROVE  /\ NewMessage(n, NoMessage) /\ NoMessage.type # "Data"
           /\ \A i \in 0 .. ephemerals' :
                 NewMessage(n, Setup(n, i)) /\ Setup(n, i).type # "Data"
           /\ \A t \in 0 .. ephemerals' :
                 NewMessage(n, Msg3(n, t)) /\ Msg3(n, t).type # "Data"
           /\ ephemerals' = Fresh =>
                 \A i \in 0 .. ephemerals :
                    NewMessage(n, Ack(n, i, Fresh)) /\ Ack(n, i, Fresh).type # "Data"
<1>1. NewMessage(n, NoMessage) /\ NoMessage.type # "Data"
  BY DEF NewMessage, NoMessage
<1>2. ASSUME NEW i \in 0 .. ephemerals'
      PROVE  NewMessage(n, Setup(n, i)) /\ Setup(n, i).type # "Data"
  BY DEF NewMessage, NoMessage, Setup
<1>3. ASSUME NEW t \in 0 .. ephemerals'
      PROVE  NewMessage(n, Msg3(n, t)) /\ Msg3(n, t).type # "Data"
  BY DEF NewMessage, NoMessage, Msg3
<1>4. ASSUME ephemerals' = Fresh, NEW i \in 0 .. ephemerals
      PROVE  NewMessage(n, Ack(n, i, Fresh)) /\ Ack(n, i, Fresh).type # "Data"
  BY <1>4 DEF NewMessage, NoMessage, Ack
<1>5. QED
  BY <1>1, <1>2, <1>3, <1>4

\* What was written and sent makes a step of the node.
LEMMA MakesStep ==
    ASSUME NEW n \in Nodes, NEW f, NEW q, Wrote(n, f, q),
           EntryStep(n, sessions[n], f, owners[n], q, ephemerals'),
           \A m \in net' : m \in net \/ m \in Payloads(sessions[n]) \/ NewMessage(n, m),
           \A m \in Payloads(f) :
               m \in Payloads(sessions[n]) \/ (NewMessage(n, m) /\ m.type # "Data")
    PROVE  NodeStep(n)
  BY DEF NodeStep, Wrote

\* A step that retains the epochs and sends what was retained.
LEMMA MakesQuietStep ==
    ASSUME Structure, NEW n \in Nodes, NEW f, Wrote(n, f, owners[n]), Retains(sessions[n], f),
           ephemerals' = ephemerals,
           \A m \in net' : m \in net \/ m \in Payloads(sessions[n]) \/ NewMessage(n, m)
    PROVE  NodeStep(n)
<1>1. EntryStep(n, sessions[n], f, owners[n], owners[n], ephemerals')
  BY DEF Retains, EntryStep
<1>2. \A m \in Payloads(f) :
         m \in Payloads(sessions[n]) \/ (NewMessage(n, m) /\ m.type # "Data")
  BY NewMessages DEF Retains, Structure
<1>3. QED
  BY <1>1, <1>2, MakesStep, SMTT(20), SMTT(30)

\* A step that removes the entry.
LEMMA MakesRemoval ==
    ASSUME Structure, NEW n \in Nodes, RemoveEntry(n), ephemerals' = ephemerals,
           net' \subseteq net
    PROVE  NodeStep(n)
<1>1. Removed(NoEntry) /\ Payloads(NoEntry) = {NoMessage}
  BY DEF Removed, NoEntry, NoEpochs, EntryFields, Payloads, NoSession
<1>2. Wrote(n, NoEntry, NoOwner)
  BY Writes, SMTT(20), SMTT(30)
<1>3. EntryStep(n, sessions[n], NoEntry, owners[n], NoOwner, ephemerals')
  BY <1>1, Zenon DEF EntryStep
<1>4. \A m \in Payloads(NoEntry) : NewMessage(n, m) /\ m.type # "Data"
  BY <1>1, NewMessages DEF Structure
<1>5. QED
  BY <1>2, <1>3, <1>4, MakesStep
=============================================================================
