-------------------------- MODULE FspSession_proofs --------------------------
(***************************************************************************)
(* The remaining handlers, timers and packets are steps of one node as     *)
(* well; what follows for every behaviour.                                 *)
(***************************************************************************)
EXTENDS FspSession_invariant

\* The provers for a step that names none, in the order in which they are tried.
USE SMTT(10), Zenon, SMTT(30)

\* The invariant holds at first: without sessions, or with one that both ends hold.
LEMMA InvariantHoldsFirst ==
    ASSUME Init
    PROVE  IInv
<1>1. /\ ephemerals \in {0, 2} /\ net = {}
      /\ DOMAIN sessions = Nodes /\ DOMAIN owners = Nodes
  BY Zenon DEF Init, InitEstablished, InitFresh
<1> DEFINE Good(e, o) ==
             /\ EntryFlags(e) /\ EntryOK(e, ephemerals) /\ OwnerOK(e, o)
             /\ Payloads(e) = {NoMessage}
             /\ e.current_k_bit = 0 /\ e.state # "AwaitingMsg3"
             /\ e.rekey_state = 0 /\ e.pending_new_session = 0
<1>2. ASSUME InitFresh, NEW n \in Nodes
      PROVE  Good(sessions[n], owners[n])
  <2>1. sessions[n] = NoEntry /\ owners[n] = NoOwner /\ ephemerals = 0
    BY <1>2, Zenon DEF InitFresh
  <2>2. EntryOK(NoEntry, 0) /\ EntryFlags(NoEntry) /\ Payloads(NoEntry) = {NoMessage}
    BY DEF EntryOK, EntryFlags, Payloads, NoEntry, EntryFields, is_established, NoSession, KBits
  <2>3. /\ NoEntry.current_k_bit = 0 /\ NoEntry.state = "None"
        /\ NoEntry.rekey_state = 0 /\ NoEntry.pending_new_session = 0
    BY DEF NoEntry, NoSession
  <2>4. QED
    BY <2>1, <2>2, <2>3 DEF OwnerOK, is_established
<1>3. ASSUME InitEstablished, NEW n \in Nodes
      PROVE  Good(sessions[n], owners[n])
  <2> DEFINE e == sessions[n]  o == owners[n]
  <2>1. PICK a \in Nodes :
          sessions = [r \in Nodes |-> [NoEntry EXCEPT !.state = "Established",
                                                      !.session = 2, !.is_initiator = (r = a)]]
    BY <1>3, Zenon DEF InitEstablished
  <2>2. /\ o = install_session(NoOwner, [generation |-> 2, session |-> 2, k |-> 0,
                                         draining |-> NoBit])
        /\ ephemerals = 2
    BY <1>3, Zenon DEF InitEstablished
  <2>3. /\ DOMAIN e = EntryFields
        /\ e.state = "Established" /\ e.session = 2 /\ e.hs = 0
        /\ e.current_k_bit = 0 /\ e.draining = FALSE
        /\ e.rekey_state = 0 /\ e.rekey_handshake_initiator = FALSE
        /\ e.pending_new_session = 0 /\ e.pending_rekey_initiator = FALSE
        /\ e.handshake_payload = NoMessage /\ e.rekey_msg3_payload = NoMessage
    <3>1. e = [NoEntry EXCEPT !.state = "Established", !.session = 2, !.is_initiator = (n = a)]
      BY <1>3, <2>1, Zenon
    <3> HIDE DEF e
    <3>2. QED
      BY <3>1 DEF NoEntry, EntryFields, NoSession
  <2>4. /\ DOMAIN o = OwnerFields /\ o.protocol = "Fsp"
        /\ o.generation = 2 /\ o.crypto_keys = 2
        /\ o.current_k_bit = 0 /\ o.previous_draining_k_bit = NoBit
        /\ o.pending_open = NoSession /\ o.pending_seal = NoSession /\ o.pending_k_bit = NoBit
    BY <2>2, EpochInstalled, NoOwnerFields DEF KBits
  <2> HIDE DEF e, o
  <2>5. EntryOK(e, ephemerals) /\ Payloads(e) = {NoMessage}
    BY <2>2, <2>3 DEF EntryOK, Payloads, is_established, KBits
  <2>6. EntryFlags(e)
    BY <2>3, Zenon DEF EntryFlags
  <2>7. OwnerOK(e, o)
    BY <2>3, <2>4 DEF OwnerOK, is_established, NoSession, dataplane_fsp_owner_epoch
  <2>8. QED
    BY <2>3, <2>5, <2>6, <2>7 DEF e, o
<1>4. \A n \in Nodes : Good(sessions[n], owners[n])
  BY <1>2, <1>3 DEF Init
<1>5. Structure
  <2>1. NoMessage.type = "None" /\ MessageOK(NoMessage, ephemerals)
    BY <1>1 DEF MessageOK, NoMessage
  <2>2. QED
    BY <1>1, <1>4, <2>1 DEF Structure
<1>6. PacketsName /\ CurrentName
  BY <1>1, <1>4 DEF PacketsName, CurrentName
<1>7. \A n \in Nodes : \A s \in Nat : ~Responds(n, s) /\ ~Initiates(n, s)
  <2>1. NoMessage.type = "None"
    BY DEF NoMessage
  <2>2. QED
    BY <1>1, <1>4, <2>1, TwoNodes
       DEF Responds, RespondsBy, Initiates, InitiatesBy, Acked, has_pending, NoSession
<1>8. OneResponder /\ OneInitiator /\ RolesDiffer
  BY <1>7 DEF OneResponder, OneInitiator, RolesDiffer, Nodes
<1>9. QED
  BY <1>5, <1>6, <1>8 DEF IInv

-----------------------------------------------------------------------------
(* Every action is a step of one of the kinds.                               *)

\* initiate_session opens an entry and keeps the setup it sends.
LEMMA FirstHandshake ==
    ASSUME Structure, NEW n \in Nodes, initiate_session(n)
    PROVE  NodeStep(n)
<1> DEFINE a == Setup(n, Fresh)
           f == set_handshake_payload(NewEntry("Initiating", Fresh, TRUE), a)
<1>1. SetEntry(n, f) /\ Send({a}) /\ Draw /\ ~is_established(sessions[n])
  BY Zenon DEF initiate_session, is_established
<1>2. ephemerals \in Nat /\ ephemerals' = Fresh /\ Fresh \in Nat
  BY <1>1 DEF Draw, Structure, Fresh
<1>3. NewMessage(n, a) /\ a.type # "Data" /\ NewMessage(n, NoMessage) /\ NoMessage.type # "Data"
  BY <1>2, NewMessages
<1> HIDE DEF a
<1>4. NoEpochs(f) /\ f.state = "Initiating" /\ f.hs = Fresh /\ Payloads(f) = {a, NoMessage}
  BY NewEntries, Zenon
<1> HIDE DEF f
<1>5. Wrote(n, f, owners[n]) /\ net' \subseteq net \cup {a}
  BY <1>1, Writes, Sends
<1>6. EntryStep(n, sessions[n], f, owners[n], owners[n], ephemerals')
  BY <1>1, <1>2, <1>4 DEF EntryStep, OpenedFirst
<1>7. /\ \A m \in net' : m \in net \/ NewMessage(n, m)
      /\ \A m \in Payloads(f) : NewMessage(n, m) /\ m.type # "Data"
  BY <1>3, <1>4, <1>5
<1>8. QED
  BY <1>5, <1>6, <1>7, MakesStep

\* initiate_session_rekey, with the setup sent in whatever way
LEMMA Rekeying ==
    ASSUME Structure, NEW n \in Nodes, initiate_session_rekey(n),
           net' \subseteq net \cup {Setup(n, Fresh)}
    PROVE  NodeStep(n)
<1> DEFINE e == sessions[n]
           a == Setup(n, Fresh)
           g == set_rekey_state(e, Fresh, TRUE)
           f == set_handshake_payload(g, a)
<1>1. SetEntry(n, f) /\ Draw /\ is_established(e) /\ ~e.draining
  BY Zenon DEF initiate_session_rekey
<1>2. ephemerals \in Nat /\ ephemerals' = Fresh /\ Fresh \in Nat
  BY <1>1 DEF Draw, Structure, Fresh
<1>3. DOMAIN e = EntryFields /\ e.draining = FALSE
  BY <1>1 DEF Structure, EntryOK, EntryFlags
<1>4. OpenedRekey(e, f, ephemerals') /\ Payloads(f) \subseteq {a} \cup Payloads(e)
  BY <1>1, <1>2, <1>3, EntryFieldsKept
     DEF OpenedRekey, SameEpochs, set_rekey_state, set_handshake_payload, EntryFields, Payloads
<1>5. NewMessage(n, a) /\ a.type # "Data"
  BY <1>2, NewMessages
<1>6. net' \subseteq net \cup {a}
  OBVIOUS
<1> HIDE DEF f, a
<1>7. Wrote(n, f, owners[n])
  BY <1>1, Writes
<1>8. EntryStep(n, e, f, owners[n], owners[n], ephemerals')
  BY <1>4 DEF EntryStep
<1>9. /\ \A m \in net' : m \in net \/ m \in Payloads(e) \/ NewMessage(n, m)
      /\ \A m \in Payloads(f) : m \in Payloads(e) \/ (NewMessage(n, m) /\ m.type # "Data")
  BY <1>4, <1>5, <1>6
<1>10. QED
  BY <1>7, <1>8, <1>9, MakesStep

\* handle_session_setup, with each of its answers and early returns.
LEMMA SetupReceived ==
    ASSUME Structure, NEW n \in Nodes, NEW m \in net, handle_session_setup(n, m)
    PROVE  NodeStep(n)
<1> DEFINE e == sessions[n]
           a == Ack(n, m.i, Fresh)
<1>1. /\ DOMAIN e = EntryFields /\ e.draining \in BOOLEAN /\ ephemerals \in Nat
      /\ m.i \in 0 .. ephemerals
  BY DEF Structure, EntryOK, EntryFlags, MessageOK
<1>2. PICK stale \in BOOLEAN :
        \/ /\ KeepEntry(n) /\ Answer(m, {}) /\ UNCHANGED ephemerals
        \/ /\ SetEntry(n, IF is_established(e) THEN record_resend(e) ELSE e)
           /\ Answer(m, {e.handshake_payload}) /\ UNCHANGED ephemerals
        \/ /\ ~ SetupDropped(n, e, stale)
           /\ Draw
           /\ SetEntry(n, IF is_established(e)
                          THEN set_handshake_payload(
                                   set_rekey_state(IF has_rekey_in_progress(e)
                                                   THEN abandon_handshake(e) ELSE e,
                                                   Fresh, FALSE), a)
                          ELSE set_handshake_payload(NewEntry("AwaitingMsg3", Fresh, FALSE), a))
           /\ Answer(m, {a})
  BY Zenon DEF handle_session_setup
<1>3. CASE KeepEntry(n) /\ Answer(m, {}) /\ UNCHANGED ephemerals
  <2>1. Wrote(n, e, owners[n]) /\ net' \subseteq net
    BY <1>3, Writes, Sends DEF KeepEntry
  <2>2. QED
    BY <1>1, <1>3, <2>1, Retaining, MakesQuietStep, Zenon
<1>4. CASE /\ SetEntry(n, IF is_established(e) THEN record_resend(e) ELSE e)
           /\ Answer(m, {e.handshake_payload}) /\ UNCHANGED ephemerals
  <2> DEFINE f == IF is_established(e) THEN record_resend(e) ELSE e
  <2>1. Wrote(n, f, owners[n]) /\ net' \subseteq net \cup {e.handshake_payload}
    BY <1>4, Writes, Sends
  <2>2. Retains(e, f)
    BY <1>1, Retaining, Zenon
  <2>3. \A w \in net' : w \in net \/ w \in Payloads(e)
    BY <2>1 DEF Payloads
  <2> HIDE DEF f
  <2>4. QED
    BY <1>4, <2>1, <2>2, <2>3, MakesQuietStep
<1>5. ASSUME ephemerals' = Fresh, Answer(m, {a}), NEW f, SetEntry(n, f),
             EntryStep(n, e, f, owners[n], owners[n], ephemerals'),
             Payloads(f) \subseteq {a, NoMessage} \cup Payloads(e)
      PROVE  NodeStep(n)
  <2>1. ephemerals' \in Nat
    BY <1>1, <1>5 DEF Fresh
  <2>2. NewMessage(n, a) /\ a.type # "Data" /\ NewMessage(n, NoMessage) /\ NoMessage.type # "Data"
    BY <1>1, <1>5, <2>1, NewMessages, Zenon
  <2> HIDE DEF a
  <2>3. Wrote(n, f, owners[n]) /\ net' \subseteq net \cup {a}
    BY <1>5, Writes, Sends
  <2>4. /\ \A w \in net' : w \in net \/ w \in Payloads(e) \/ NewMessage(n, w)
        /\ \A w \in Payloads(f) : w \in Payloads(e) \/ (NewMessage(n, w) /\ w.type # "Data")
    BY <1>5, <2>2, <2>3
  <2>5. QED
    BY <1>5, <2>3, <2>4, MakesStep
<1>6. CASE /\ ~ SetupDropped(n, e, stale) /\ Draw /\ is_established(e)
           /\ SetEntry(n, set_handshake_payload(
                              set_rekey_state(IF has_rekey_in_progress(e)
                                              THEN abandon_handshake(e) ELSE e,
                                              Fresh, FALSE), a))
           /\ Answer(m, {a})
  <2> DEFINE g == IF has_rekey_in_progress(e) THEN abandon_handshake(e) ELSE e
             h == set_rekey_state(g, Fresh, FALSE)
             f == set_handshake_payload(h, a)
  <2>1. e.draining = FALSE /\ ephemerals' = Fresh
    BY <1>1, <1>6 DEF SetupDropped, Draw
  <2>2. Retains(e, g)
    BY <1>1, Retaining, Zenon
  <2> HIDE DEF g
  <2>3. OpenedRekey(e, f, ephemerals') /\ Payloads(f) \subseteq {a, NoMessage} \cup Payloads(e)
    BY <1>1, <1>6, <2>1, <2>2, EntryFieldsKept
       DEF OpenedRekey, SameEpochs, set_rekey_state, set_handshake_payload, EntryFields, Payloads,
           Retains, Kept
  <2>4. SetEntry(n, f) /\ Answer(m, {a})
    BY <1>6, Zenon DEF g
  <2> HIDE DEF f, a
  <2>5. EntryStep(n, e, f, owners[n], owners[n], ephemerals')
    BY <2>3 DEF EntryStep
  <2>6. QED
    BY <1>5, <2>1, <2>3, <2>4, <2>5
<1>7. CASE /\ Draw /\ ~is_established(e)
           /\ SetEntry(n, set_handshake_payload(NewEntry("AwaitingMsg3", Fresh, FALSE), a))
           /\ Answer(m, {a})
  <2> DEFINE f == set_handshake_payload(NewEntry("AwaitingMsg3", Fresh, FALSE), a)
  <2>1. ephemerals' = Fresh
    BY <1>7 DEF Draw
  <2> HIDE DEF a
  <2>2. NoEpochs(f) /\ f.state = "AwaitingMsg3" /\ f.hs = Fresh /\ Payloads(f) = {a, NoMessage}
    <3>1. \A h : LET g == set_handshake_payload(NewEntry("AwaitingMsg3", h, FALSE), a)
                 IN  /\ NoEpochs(g) /\ g.state = "AwaitingMsg3" /\ g.hs = h
                     /\ Payloads(g) = {a, NoMessage}
      BY NewEntries, Zenon
    <3>2. QED
      BY <3>1, Zenon
  <2>3. SetEntry(n, f) /\ Answer(m, {a})
    BY <1>7, Zenon
  <2> HIDE DEF f
  <2>4. EntryStep(n, e, f, owners[n], owners[n], ephemerals')
    BY <1>7, <2>1, <2>2 DEF EntryStep, OpenedFirst
  <2>5. Payloads(f) \subseteq {a, NoMessage} \cup Payloads(e)
    BY <2>2
  <2>6. QED
    BY <1>5, <2>1, <2>3, <2>4, <2>5
<1> HIDE DEF a
<1>8. QED
  BY <1>2, <1>3, <1>4, <1>6, <1>7, Zenon

\* A handshake that completes with a peer that was not there before, or anew.
LEMMA Establishing ==
    ASSUME Structure, NEW n \in Nodes, NEW t, t \in 0 .. ephemerals, NEW w,
           Attempt(sessions[n]) # 0, Attempt(sessions[n]) <= t,
           NEW f, SetSession(n, f), ephemerals' = ephemerals, net' \subseteq net \cup {Msg3(n, t)},
           \/ f = establish(sessions[n], t, w)
           \/ f = set_handshake_payload(establish(sessions[n], t, w), Msg3(n, t))
    PROVE  NodeStep(n)
<1> DEFINE e == sessions[n]
           a == Msg3(n, t)
           g == establish(e, t, w)
           q == install_session(owners[n], Config(f))
<1>1. DOMAIN e = EntryFields /\ ephemerals \in Nat
  BY DEF Structure, EntryOK
<1>2. EstablishedAs(e, g, t) /\ Payloads(g) \subseteq Payloads(e) \cup {NoMessage}
  BY <1>1, EntryFieldsKept, Zenon
     DEF EstablishedAs, establish, clear_rekey_msg3_payload, EntryFields, Payloads, NoSession
<1>3. /\ NewMessage(n, a) /\ a.type # "Data"
      /\ NewMessage(n, NoMessage) /\ NoMessage.type # "Data"
  BY <1>1, NewMessages
<1>4. /\ Wrote(n, f, q) /\ net' \subseteq net \cup {a}
      /\ f = g \/ f = set_handshake_payload(g, a)
  BY Writes
<1> HIDE DEF g, a
<1>5. EstablishedAs(e, f, t) /\ Payloads(f) \subseteq Payloads(e) \cup {a, NoMessage}
  <2>1. CASE f = g
    BY <1>2, <2>1
  <2>2. CASE f = set_handshake_payload(g, a)
    BY <1>2, <2>2, EntryFieldsKept, SMTT(20), SMTT(30) DEF EstablishedAs, set_handshake_payload, EntryFields, Payloads
  <2>3. QED
    BY <1>4, <2>1, <2>2
<1>6. EntryStep(n, e, f, owners[n], q, ephemerals')
  BY <1>5 DEF EntryStep
<1>7. /\ \A m \in net' : m \in net \/ m \in Payloads(e) \/ NewMessage(n, m)
      /\ \A m \in Payloads(f) : m \in Payloads(e) \/ (NewMessage(n, m) /\ m.type # "Data")
  BY <1>3, <1>4, <1>5
<1> HIDE DEF q
<1>8. QED
  BY <1>4, <1>6, <1>7, MakesStep

\* A rekey that completes beside the session.
LEMMA Completing ==
    ASSUME Structure, NEW n \in Nodes, NEW t, t \in 0 .. ephemerals,
           is_established(sessions[n]),
           sessions[n].rekey_state # 0, sessions[n].rekey_state <= t,
           IF sessions[n].rekey_handshake_initiator THEN \E m \in net : Acked(m, n, t)
           ELSE t = sessions[n].rekey_state,
           NEW f, SetPending(n, f), ephemerals' = ephemerals, net' \subseteq net \cup {Msg3(n, t)},
           \/ f = clear_handshake_payload(set_pending_session(sessions[n], t))
           \/ f = [clear_handshake_payload(set_pending_session(sessions[n], t))
                      EXCEPT !.rekey_msg3_payload = Msg3(n, t)]
    PROVE  NodeStep(n)
<1> DEFINE e == sessions[n]
           a == Msg3(n, t)
           g == clear_handshake_payload(set_pending_session(e, t))
           q == install_pending_epoch(owners[n], 1 - f.current_k_bit, f.pending_new_session)
<1>1. DOMAIN e = EntryFields /\ ephemerals \in Nat
  BY DEF Structure, EntryOK
<1>2. CompletedAs(n, e, g, t) /\ Payloads(g) \subseteq Payloads(e) \cup {NoMessage}
  <2> DEFINE h == set_pending_session(e, t)
  <2>1. /\ DOMAIN h = EntryFields
        /\ h.state = e.state /\ h.hs = e.hs
        /\ h.session = e.session /\ h.current_k_bit = e.current_k_bit /\ h.draining = e.draining
        /\ h.rekey_state = 0 /\ h.rekey_handshake_initiator = FALSE
        /\ h.pending_new_session = t
        /\ h.pending_rekey_initiator = e.rekey_handshake_initiator
        /\ h.rekey_msg3_payload = NoMessage
    BY <1>1, EntryFieldsKept DEF set_pending_session, clear_rekey_msg3_payload, EntryFields
  <2>2. g = clear_handshake_payload(h)
    OBVIOUS
  <2> HIDE DEF h, g
  <2>3. QED
    BY <2>1, <2>2, EntryFieldsKept DEF CompletedAs, clear_handshake_payload, EntryFields, Payloads
<1>3. /\ NewMessage(n, a) /\ a.type # "Data"
      /\ NewMessage(n, NoMessage) /\ NoMessage.type # "Data"
  BY <1>1, NewMessages, Zenon
<1>4. /\ Wrote(n, f, q) /\ net' \subseteq net \cup {a}
      /\ f = g \/ f = [g EXCEPT !.rekey_msg3_payload = a]
  BY Writes
<1> HIDE DEF g, a
<1>5. CompletedAs(n, e, f, t) /\ Payloads(f) \subseteq Payloads(e) \cup {a, NoMessage}
  <2>1. CASE f = g
    BY <1>2, <2>1
  <2>2. CASE f = [g EXCEPT !.rekey_msg3_payload = a]
    BY <1>2, <2>2 DEF CompletedAs, EntryFields, Payloads
  <2>3. QED
    BY <1>4, <2>1, <2>2
<1>6. EntryStep(n, e, f, owners[n], q, ephemerals')
  BY <1>5 DEF EntryStep
<1>7. /\ \A m \in net' : m \in net \/ m \in Payloads(e) \/ NewMessage(n, m)
      /\ \A m \in Payloads(f) : m \in Payloads(e) \/ (NewMessage(n, m) /\ m.type # "Data")
  BY <1>3, <1>4, <1>5
<1> HIDE DEF q
<1>8. QED
  BY <1>4, <1>6, <1>7, MakesStep

\* A message that changes nothing may be answered with what is retained.
LEMMA Keeping ==
    ASSUME Structure, NEW n \in Nodes, KeepEntry(n), ephemerals' = ephemerals,
           net' \subseteq net \cup {sessions[n].handshake_payload}
    PROVE  NodeStep(n)
<1>1. DOMAIN sessions[n] = EntryFields
  BY DEF Structure, EntryOK
<1>2. Wrote(n, sessions[n], owners[n])
  BY Writes DEF KeepEntry
<1>3. \A m \in net' : m \in net \/ m \in Payloads(sessions[n])
  BY DEF Payloads
<1>4. QED
  BY <1>1, <1>2, <1>3, Retaining, MakesQuietStep, Zenon

\* handle_session_ack: the session is established, a rekey completed, or the ack ignored.
LEMMA AckReceived ==
    ASSUME Structure, NEW n \in Nodes, NEW m \in net, handle_session_ack(n, m)
    PROVE  NodeStep(n)
<1> DEFINE e == sessions[n]
           rekeys == /\ is_established(e) /\ has_rekey_in_progress(e)
                     /\ e.rekey_handshake_initiator
           msg3 == Msg3(n, m.s)
<1>1. /\ m.i \in 0 .. ephemerals /\ m.s \in 0 .. ephemerals /\ m.i < m.s
      /\ m.type = "SessionAck" /\ m.to = n /\ ephemerals' = ephemerals /\ ephemerals \in Nat
      /\ EntryOK(e, ephemerals)
  BY DEF Structure, MessageOK, handle_session_ack
<1>2. Acked(m, n, m.s)
  BY <1>1 DEF Acked
<1>3. CASE rekeys /\ e.rekey_state = m.i
  <2>1. is_established(e) /\ e.rekey_state # 0 /\ e.rekey_state <= m.s
    BY <1>1, <1>3 DEF has_rekey_in_progress
  <2>2. CASE /\ SetSession(n, set_handshake_payload(establish(e, m.s, m.epoch), msg3))
             /\ Answer(m, {msg3})
    <3>1. net' \subseteq net \cup {msg3}
      BY <2>2, Sends
    <3>2. Attempt(e) # 0 /\ Attempt(e) <= m.s
      BY <2>1 DEF Attempt
    <3>3. QED
      BY <1>1, <2>2, <3>1, <3>2, Establishing
  <2>3. CASE /\ SetPending(n, [clear_handshake_payload(set_pending_session(e, m.s))
                                   EXCEPT !.rekey_msg3_payload = msg3])
             /\ Answer(m, {msg3})
    <3>1. net' \subseteq net \cup {msg3}
      BY <2>3, Sends
    <3>2. IF e.rekey_handshake_initiator THEN \E a \in net : Acked(a, n, m.s)
          ELSE m.s = e.rekey_state
      BY <1>2, <1>3
    <3>3. QED
      BY <1>1, <2>1, <2>3, <3>1, <3>2, Completing
  <2>4. QED
    BY <1>1, <1>3, <2>2, <2>3 DEF handle_session_ack, is_established
<1>4. CASE e.state = "Initiating" /\ e.hs = m.i
  <2>1. /\ SetSession(n, set_handshake_payload(establish(e, m.s, m.epoch), msg3))
        /\ Answer(m, {msg3})
    BY <1>1, <1>4 DEF handle_session_ack, is_established
  <2>2. net' \subseteq net \cup {msg3}
    BY <2>1, Sends
  <2>3. Attempt(e) # 0 /\ Attempt(e) <= m.s
    BY <1>1, <1>4 DEF Attempt, is_established, EntryOK
  <2>4. QED
    BY <1>1, <2>1, <2>2, <2>3, Establishing
<1>5. CASE ~(rekeys /\ e.rekey_state = m.i) /\ ~(e.state = "Initiating" /\ e.hs = m.i)
  <2>1. /\ KeepEntry(n)
        /\ Answer(m, {e.handshake_payload} \ {NoMessage}) \/ Answer(m, {})
    BY <1>5 DEF handle_session_ack
  <2>2. net' \subseteq net \cup {e.handshake_payload}
    BY <2>1, Sends
  <2>3. QED
    BY <1>1, <2>1, <2>2, Keeping
<1>6. QED
  BY <1>3, <1>4, <1>5

-----------------------------------------------------------------------------
(* Third messages, timers and packets.                                       *)

\* handle_session_msg3: a rekey is completed or given up, a session established.
LEMMA Msg3Received ==
    ASSUME Structure, NEW n \in Nodes, NEW m \in net, handle_session_msg3(n, m)
    PROVE  NodeStep(n)
<1> DEFINE e == sessions[n]
           rekeys == /\ is_established(e) /\ has_rekey_in_progress(e)
                     /\ ~ e.rekey_handshake_initiator
<1>1. /\ m.s \in 0 .. ephemerals /\ ephemerals' = ephemerals /\ ephemerals \in Nat
      /\ EntryOK(e, ephemerals) /\ DOMAIN e = EntryFields /\ Answer(m, {})
  BY Zenon DEF Structure, MessageOK, EntryOK, handle_session_msg3
<1>2. net' \subseteq net
  BY <1>1, Sends
<1>3. CASE rekeys /\ e.rekey_state # m.s
  <2>1. Wrote(n, abandon_handshake(e), owners[n])
    BY <1>3, Writes DEF handle_session_msg3, is_established
  <2>2. QED
    BY <1>1, <1>2, <2>1, Retaining, MakesQuietStep, Zenon, ZenonT(30)
<1>4. ASSUME SetSession(n, establish(e, m.s, m.epoch)), Attempt(e) = m.s, m.s # 0
      PROVE  NodeStep(n)
  BY <1>1, <1>2, <1>4, Establishing, SMTT(20), SMTT(30)
<1>5. CASE rekeys /\ e.rekey_state = m.s
  <2>1. is_established(e) /\ e.rekey_state # 0 /\ Attempt(e) = m.s /\ ~e.rekey_handshake_initiator
    BY <1>5 DEF has_rekey_in_progress, Attempt
  <2>2. CASE SetSession(n, establish(e, m.s, m.epoch))
    BY <1>4, <1>5, <2>1, <2>2
  <2>3. CASE SetPending(n, clear_handshake_payload(set_pending_session(e, m.s)))
    BY <1>1, <1>2, <1>5, <2>1, <2>3, Completing
  <2>4. QED
    BY <1>5, <2>2, <2>3, Zenon DEF handle_session_msg3, is_established
<1>6. CASE e.state = "AwaitingMsg3" /\ e.hs = m.s
  <2>1. SetSession(n, establish(e, m.s, m.epoch))
    BY <1>6 DEF handle_session_msg3, is_established
  <2>2. Attempt(e) = m.s /\ m.s # 0
    BY <1>1, <1>6 DEF Attempt, EntryOK, is_established
  <2>3. QED
    BY <1>4, <2>1, <2>2, SMTT(20), SMTT(30)
<1>7. CASE e.state = "AwaitingMsg3" /\ e.hs # m.s
  <2>1. RemoveEntry(n)
    BY <1>7 DEF handle_session_msg3, is_established
  <2>2. QED
    BY <1>1, <1>2, <2>1, MakesRemoval, SMTT(20), SMTT(30)
<1>8. CASE ~ rekeys /\ e.state # "AwaitingMsg3"
  <2>1. KeepEntry(n)
    BY <1>8 DEF handle_session_msg3
  <2>2. QED
    BY <1>1, <1>2, <2>1, Keeping, SMTT(20), SMTT(30)
<1>9. QED
  BY <1>3, <1>5, <1>6, <1>7, <1>8

\* resend_pending_session_handshakes: the retained message again, or the entry is removed.
LEMMA HandshakeResent ==
    ASSUME Structure, NEW n \in Nodes, resend_pending_session_handshakes(n)
    PROVE  NodeStep(n)
<1> DEFINE e == sessions[n]
           cleared == ClearConfirmed(e, confirmed[n])
<1>1. /\ DOMAIN e = EntryFields /\ ephemerals' = ephemerals
      /\ Retains(e, cleared) /\ DOMAIN cleared = EntryFields
  <2>1. DOMAIN e = EntryFields /\ ephemerals' = ephemerals
    BY DEF Structure, EntryOK, resend_pending_session_handshakes
  <2>2. Retains(e, cleared)
    BY <2>1, Clearing
  <2>3. QED
    BY <2>1, <2>2 DEF Retains, Kept, SameEpochs
<1> HIDE DEF cleared
<1>2. ASSUME NEW f, Retains(cleared, f), SetEntry(n, f),
             Send({}) \/ (cleared.handshake_payload # NoMessage /\ Send({cleared.handshake_payload}))
      PROVE  NodeStep(n)
  <2>1. Wrote(n, f, owners[n]) /\ Retains(e, f)
    BY <1>1, <1>2, Writes, RetainsTwice, SMTT(20), SMTT(30)
  <2>2. \A m \in net' : m \in net \/ m \in Payloads(e)
    BY <1>1, <1>2, Sends DEF Retains, Payloads
  <2>3. QED
    BY <1>1, <2>1, <2>2, MakesQuietStep, SMTT(20), SMTT(30)
<1>3. CASE RemoveEntry(n) /\ Send({})
  <2>1. net' \subseteq net
    BY <1>3, Sends
  <2>2. QED
    BY <1>1, <1>3, <2>1, MakesRemoval
<1>4. CASE /\ Send({})
           /\ SetEntry(n, IF has_rekey_in_progress(cleared) THEN abandon_handshake(cleared)
                          ELSE [cleared EXCEPT !.due_at = FALSE])
  <2> DEFINE f == IF has_rekey_in_progress(cleared) THEN abandon_handshake(cleared)
                  ELSE [cleared EXCEPT !.due_at = FALSE]
  <2>1. Retains(cleared, f) /\ SetEntry(n, f)
    BY <1>1, <1>4, Retaining, Zenon
  <2> HIDE DEF f
  <2>2. QED
    BY <1>2, <1>4, <2>1
<1>5. CASE /\ SetEntry(n, record_resend(cleared)) /\ Send({cleared.handshake_payload})
           /\ cleared.handshake_payload # NoMessage
  BY <1>1, <1>2, <1>5, Retaining, Zenon
<1>6. CASE SetEntry(n, cleared) /\ Send({})
  BY <1>1, <1>2, <1>6, Retaining, Zenon
<1>7. QED
  BY <1>3, <1>4, <1>5, <1>6, SMTT(20), SMTT(30) DEF resend_pending_session_handshakes, cleared

\* resend_pending_session_msg3: the retained third message again.
LEMMA Msg3Resent ==
    ASSUME Structure, NEW n \in Nodes, resend_pending_session_msg3(n)
    PROVE  NodeStep(n)
<1> DEFINE e == sessions[n]
           spent == e.rekey_msg3_resend_count >= world.handshake_max_resends
           f == IF spent THEN clear_rekey_msg3_payload(e)
                ELSE [e EXCEPT !.rekey_msg3_resend_count = OneMore(@)]
<1>1. /\ DOMAIN e = EntryFields /\ ephemerals' = ephemerals
      /\ SetEntry(n, f) /\ Send(IF spent THEN {} ELSE {e.rekey_msg3_payload})
  BY DEF Structure, EntryOK, resend_pending_session_msg3
<1>2. Retains(e, f)
  BY <1>1, Retaining, Zenon
<1>3. \A m \in net' : m \in net \/ m \in Payloads(e)
  <2>1. Send({}) \/ Send({e.rekey_msg3_payload})
    BY <1>1
  <2>2. QED
    BY <2>1, Sends DEF Payloads
<1> HIDE DEF f
<1>4. Wrote(n, f, owners[n])
  BY <1>1, Writes
<1>5. QED
  BY <1>1, <1>2, <1>3, <1>4, MakesQuietStep

\* A packet under the current epoch, or under the completed one by its initiator.
LEMMA DataSent ==
    ASSUME Structure, NEW n \in Nodes, SendData(n) \/ Probe(n)
    PROVE  NodeStep(n)
<1> DEFINE e == sessions[n]  o == owners[n]
<1>1. /\ EntryOK(e, ephemerals) /\ OwnerOK(e, o) /\ ephemerals \in Nat
      /\ ephemerals' = ephemerals /\ is_established(e)
  BY SMTT(20), SMTT(30) DEF Structure, SendData, Probe
<1>2. Wrote(n, e, o)
  BY Writes DEF SendData, Probe
<1>3. PICK s \in 1 .. ephemerals, k \in KBits : Evid(e, s, k) /\ Send({Data(n, s, k)})
  <2>1. CASE SendData(n)
    <3>1. Send({Data(n, e.session, e.current_k_bit)})
      BY <1>1, <2>1 DEF SendData, OwnerOK, seal_key
    <3>2. QED
      BY <1>1, <3>1, EpochsInUse, Zenon
  <2>2. CASE Probe(n)
    <3>1. has_pending(e) /\ e.rekey_state = 0
      BY <2>2 DEF Probe, has_rekey_in_progress, NoSession
    <3>2. o.pending_seal = e.pending_new_session /\ o.pending_k_bit = 1 - e.current_k_bit
      BY <1>1, <3>1 DEF OwnerOK, has_pending, NoSession
    <3>3. Send({Data(n, e.pending_new_session, 1 - e.current_k_bit)})
      BY <2>2, <3>2 DEF Probe, seal_key
    <3>4. QED
      BY <1>1, <3>1, <3>3, EpochsInUse, Zenon
  <2>3. QED
    BY <2>1, <2>2, Zenon
<1>4. NewMessage(n, Data(n, s, k))
  BY <1>3 DEF NewMessage, Data, NoMessage
<1> DEFINE a == Data(n, s, k)
<1> HIDE DEF a
<1>5. net' \subseteq net \cup {a}
  BY <1>3, Sends DEF a
<1>6. \A m \in net' : m \in net \/ m \in Payloads(e) \/ NewMessage(n, m)
  BY <1>4, <1>5 DEF a
<1>7. QED
  BY <1>1, <1>2, <1>6, Retaining, MakesQuietStep, ZenonT(30) DEF EntryOK

\* check_session_rekey after FSP_DRAIN_WINDOW_SECS: entry and owner drop the old epoch.
LEMMA DrainCompleted ==
    ASSUME Structure, NEW n \in Nodes, CompleteDrain(n)
    PROVE  NodeStep(n)
<1> DEFINE e == sessions[n]
           f == [e EXCEPT !.draining = FALSE]
           q == set_epoch(owners[n], f.current_k_bit, NoBit)
<1>1. /\ DOMAIN e = EntryFields /\ e.draining \in BOOLEAN /\ is_established(e) /\ e.draining
      /\ ephemerals' = ephemerals /\ net' = net
  BY DEF Structure, EntryOK, EntryFlags, CompleteDrain
<1>2. f.draining = FALSE /\ f.current_k_bit = e.current_k_bit
  BY <1>1 DEF EntryFields
<1>3. Wrote(n, f, q)
  BY <1>1, <1>2, TwoNodes DEF CompleteDrain, Wrote, Structure, dataplane_fsp_owner_epoch
<1>4. Drained(e, f) /\ Payloads(f) = Payloads(e)
  BY <1>1 DEF Drained, SameEpochs, EntryFields, Payloads
<1>5. EntryStep(n, e, f, owners[n], q, ephemerals')
  BY <1>1, <1>4 DEF EntryStep
<1> HIDE DEF f, q
<1>6. QED
  BY <1>1, <1>3, <1>4, <1>5, MakesStep

\* A packet that opens under the completed epoch has its number and its K bit.
LEMMA PacketReceived ==
    ASSUME Structure, NEW n \in Nodes, NEW m \in net, ReceiveData(n, m)
    PROVE  NodeStep(n)
<1> DEFINE e == sessions[n]  o == owners[n]
           confirms == confirmed[n] \/ m.k = o.current_k_bit
           promotes == /\ has_pending_receive_epoch(o, m.k)
                       /\ has_pending(e) /\ m.k # e.current_k_bit
           g == promote_pending(e)
           f == clear_rekey_msg3_payload(g)
           q == install_session(o, Config(f))
<1>1. /\ EntryOK(e, ephemerals) /\ OwnerOK(e, o) /\ DOMAIN e = EntryFields
      /\ ephemerals' = ephemerals /\ ephemerals \in Nat
      /\ is_established(e) /\ OpenKey(n, m.k) = m.s /\ m.type = "Data" /\ m.to = n
  BY Zenon DEF Structure, EntryOK, ReceiveData
<1>2. net' \subseteq net
  BY Sends DEF ReceiveData
<1>3. CASE promotes
  <2>1. SetSession(n, f)
    BY <1>3, SMTT(20), SMTT(30) DEF ReceiveData
  <2>2. /\ e.pending_new_session # 0 /\ e.draining = FALSE /\ m.k = 1 - e.current_k_bit
        /\ m.k \in KBits
    BY <1>1, <1>3 DEF has_pending, has_pending_receive_epoch, OwnerOK, EntryOK, NoSession, KBits
  <2>3. m.s = e.pending_new_session
    BY <1>1, <1>3, <2>2
       DEF OpenKey, open_key, receive_epoch, uses_previous, uses_pending, OwnerOK, EntryOK,
           dataplane_fsp_owner_epoch, NoBit, NoSession, KBits
  <2>4. /\ DOMAIN g = EntryFields
        /\ g.state = e.state /\ g.hs = e.hs
        /\ g.session = e.pending_new_session /\ g.current_k_bit = 1 - e.current_k_bit
        /\ g.draining = TRUE /\ g.rekey_state = 0 /\ g.pending_new_session = 0
        /\ g.rekey_handshake_initiator = FALSE /\ g.pending_rekey_initiator = FALSE
        /\ g.handshake_payload = NoMessage
    BY <1>1, EntryFieldsKept, Zenon DEF promote_pending, clear_handshake_payload, EntryFields, NoSession
  <2> HIDE DEF g
  <2>5. /\ DOMAIN f = EntryFields
        /\ f.state = g.state /\ f.hs = g.hs
        /\ f.session = g.session /\ f.current_k_bit = g.current_k_bit
        /\ f.draining = TRUE /\ f.rekey_state = 0 /\ f.pending_new_session = 0
        /\ f.rekey_handshake_initiator = FALSE /\ f.pending_rekey_initiator = FALSE
        /\ Payloads(f) = {NoMessage}
    BY <2>4, EntryFieldsKept, SMTT(20), SMTT(30) DEF clear_rekey_msg3_payload, EntryFields, Payloads
  <2> HIDE DEF f
  <2>6. Promoted(n, e, f)
    BY <1>1, <1>3, <2>2, <2>3, <2>4, <2>5, SMTT(20), SMTT(30) DEF Promoted
  <2>7. Wrote(n, f, q)
    BY <2>1, Writes
  <2>8. EntryStep(n, e, f, o, q, ephemerals')
    BY <1>1, <2>6, Zenon DEF EntryStep
  <2>9. \A w \in Payloads(f) : NewMessage(n, w) /\ w.type # "Data"
    BY <1>1, <2>5, NewMessages, Zenon
  <2> HIDE DEF q
  <2>10. QED
    BY <1>2, <2>7, <2>8, <2>9, MakesStep, SMTT(20), SMTT(30)
<1>4. CASE ~promotes
  <2> DEFINE h == ClearConfirmed(e, confirms)
  <2>1. sessions' = [sessions EXCEPT ![n] = h] /\ owners' = owners
    BY <1>4, SMTT(20), SMTT(30) DEF ReceiveData
  <2>2. Wrote(n, h, o)
    BY <2>1, TwoNodes, SMTT(20), SMTT(30) DEF Wrote, Structure
  <2>3. Retains(e, h)
    BY <1>1, Clearing, SMTT(20), SMTT(30)
  <2> HIDE DEF h
  <2>4. QED
    BY <1>1, <1>2, <2>2, <2>3, MakesQuietStep, Zenon
<1>5. QED
  BY <1>3, <1>4

\* A packet that the owner cannot open: ignored, a rekey is begun, or the entry is removed.
LEMMA PacketFailed ==
    ASSUME Structure, NEW n \in Nodes, NEW m \in net, DecryptFailure(n, m)
    PROVE  NodeStep(n)
<1>1. CASE KeepEntry(n) /\ Answer(m, {}) /\ UNCHANGED ephemerals
  BY <1>1, Sends, Keeping
<1>2. CASE initiate_session_rekey(n) /\ Answer(m, {Setup(n, Fresh)})
  BY <1>2, Sends, Rekeying
<1>3. CASE RemoveEntry(n) /\ Answer(m, {}) /\ UNCHANGED ephemerals
  BY <1>3, Sends, MakesRemoval
<1>4. QED
  BY <1>1, <1>2, <1>3 DEF DecryptFailure

\* Every step of the specification is a step of one node; a step that loses a message is
\* one in which node 1 does nothing.
LEMMA EveryStep ==
    ASSUME Structure, [Next]_vars
    PROVE  \E n \in Nodes : NodeStep(n)
<1>1. ASSUME NEW n \in Nodes, initiate_session(n) \/ SendData(n)
      PROVE  NodeStep(n)
  BY <1>1, FirstHandshake, DataSent
<1>2. ASSUME NEW n \in Nodes, Restart(n) \/ purge_idle_sessions(n)
      PROVE  NodeStep(n)
  BY <1>2, MakesRemoval DEF Restart, purge_idle_sessions
<1>3. ASSUME NEW n \in Nodes, Receive(n)
      PROVE  NodeStep(n)
  BY <1>3, SetupReceived, AckReceived, Msg3Received, PacketReceived, PacketFailed
     DEF Receive, ReceiveSetup, ReceiveAck, ReceiveMsg3, ReceivePacket
<1>4. ASSUME NEW n \in Nodes, RoutineRekey(n) \/ recover_unresponsive_sessions(n)
      PROVE  NodeStep(n)
  BY <1>4, Sends, Rekeying DEF RoutineRekey, recover_unresponsive_sessions
<1>5. ASSUME NEW n \in Nodes, Maintain(n)
      PROVE  NodeStep(n)
  BY <1>2, <1>4, <1>5, HandshakeResent, Msg3Resent, DataSent, DrainCompleted DEF Maintain
<1>6. CASE Lose \/ UNCHANGED vars
  <2>1. /\ UNCHANGED <<sessions, owners, confirmed>> /\ ephemerals' = ephemerals
        /\ net' \subseteq net /\ 1 \in Nodes
    BY <1>6 DEF Lose, vars, Nodes
  <2>2. NodeStep(1)
    BY <2>1, Keeping DEF KeepEntry
  <2>3. QED
    BY <2>1, <2>2
<1>7. QED
  BY <1>1, <1>2, <1>3, <1>5, <1>6 DEF Next

\* Every step keeps the invariant.
LEMMA InvariantKept ==
    ASSUME IInv, [Next]_vars
    PROVE  IInv'
<1>1. Structure
  BY DEF IInv
<1>2. PICK n \in Nodes : NodeStep(n)
  BY <1>1, EveryStep
<1>3. Structure'
  BY <1>1, <1>2, StructureKept
<1>4. PacketsName' /\ CurrentName'
  BY <1>1, <1>2, NamesKept DEF IInv
<1>5. OneResponder' /\ OneInitiator' /\ RolesDiffer'
  BY <1>1, <1>2, RolesKept DEF IInv
<1>6. QED
  BY <1>3, <1>4, <1>5 DEF IInv

-----------------------------------------------------------------------------
\* The invariant holds in every world.
THEOREM InvariantHolds == Spec => []IInv
<1>1. Init => IInv
  BY InvariantHoldsFirst
<1>2. IInv /\ [Next]_vars => IInv'
  BY InvariantKept
<1>3. QED
  BY <1>1, <1>2, PTL DEF Spec

\* sync_dataplane_fsp_owner_from_current_session, install_dataplane_fsp_pending_epoch and
\* the end of a drain keep the dataplane owner on exactly the epochs of the session entry,
\* whatever order handshakes, rekeys, cutovers, timeouts and restarts come in.
THEOREM OwnersFollow == Spec => []OwnerFollowsEntry
<1>1. IInv => OwnerFollowsEntry
  BY SMTT(20), SMTT(30) DEF IInv, Structure, OwnerOK, OwnerFollowsEntry, has_pending, NoSession
<1>2. QED
  BY <1>1, InvariantHolds, PTL

\* One K bit names at most two epochs of a node, and the same session by the same bit at
\* both ends (handle_session_setup, promote_pending, establish_session).
THEOREM BitsName == Spec => []BitsNameEpochs
<1>1. ASSUME IInv PROVE OneBitNamesTwoEpochs
  BY <1>1 DEF IInv, Structure, EntryOK, OneBitNamesTwoEpochs, has_pending, NoSession
<1>2. ASSUME IInv PROVE SameSessionSameBit
  <2>1. /\ sessions[1].current_k_bit \in KBits /\ sessions[2].current_k_bit \in KBits
        /\ PeerOf(1) = 2 /\ PeerOf(2) = 1
    BY <1>2 DEF IInv, Structure, EntryOK, Nodes, PeerOf
  <2>2. QED
    BY <1>2, <2>1, SMTT(20), SMTT(30) DEF IInv, CurrentName, Evid, SameSessionSameBit, Nodes, KBits
<1>3. IInv => BitsNameEpochs
  BY <1>1, <1>2 DEF BitsNameEpochs
<1>4. QED
  BY <1>3, InvariantHolds, PTL

\* When both ends hold the same completed epoch, exactly one of them introduces it
\* (check_session_rekey sends under it only at the initiator).
THEOREM OneProbes == Spec => []OneSideProbes
<1>1. ASSUME IInv PROVE OneSideProbes
  <2> SUFFICES ASSUME has_pending(sessions[1]),
                      sessions[1].pending_new_session = sessions[2].pending_new_session
               PROVE  sessions[1].pending_rekey_initiator # sessions[2].pending_rekey_initiator
    BY DEF OneSideProbes
  <2> DEFINE s == sessions[1].pending_new_session
  <2>1. /\ sessions[1].pending_rekey_initiator \in BOOLEAN
        /\ sessions[2].pending_rekey_initiator \in BOOLEAN
    BY <1>1, SMTT(20), SMTT(30) DEF IInv, Structure, EntryFlags, Nodes
  <2>2. s \in Nat /\ has_pending(sessions[2])
    BY <1>1 DEF IInv, Structure, EntryOK, Nodes, has_pending
  <2>3. ~(Responds(1, s) /\ Responds(2, s)) /\ ~(Initiates(1, s) /\ Initiates(2, s))
    BY <1>1, <2>2 DEF IInv, OneResponder, OneInitiator
  <2>4. QED
    BY <2>1, <2>2, <2>3 DEF Responds, RespondsBy, Initiates, InitiatesBy
<1>2. QED
  BY <1>1, InvariantHolds, PTL

=============================================================================
