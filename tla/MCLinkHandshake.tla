-------------------------- MODULE MCLinkHandshake --------------------------
EXTENDS LinkHandshake

Base ==
    [indices |-> <<2, 2>>, slots |-> 4, paths |-> {"p"}, first |-> "p", dialers |-> Node,
     priority |-> [n \in Node |-> [p \in Path |-> 5]],
     up |-> FALSE, rekey |-> FALSE, fsp |-> FALSE, prompt |-> FALSE, timers |-> {"timeout"},
     frames |-> 1, rekeys |-> 0, failures |-> 0, resends |-> 0,
     duplicates |-> 0, losses |-> 0, removals |-> 0, restarts |-> 0]

PreferQ == [n \in Node |-> [p \in Path |-> IF p = "q" THEN 3 ELSE 5]]

\* Both ends dial at once, with a duplicate and a retransmission.
Crossing == [Base EXCEPT !.duplicates = 1, !.resends = 1]

\* A silent link is declared dead, refreshed, and its payload validated.
Refreshing == [Base EXCEPT !.up = TRUE, !.timers = {"timeout", "quiet", "dead", "validate", "hold"}]

\* The same with one handshake slot.
Narrow == [Base EXCEPT !.up = TRUE, !.timers = {"timeout", "quiet", "dead"}, !.slots = 1]

\* Two rekeys, from either end, on a link that can also age or go silent.
Rekeying == [Base EXCEPT !.up = TRUE, !.rekey = TRUE, !.rekeys = 2, !.indices = <<3, 3>>,
                         !.dialers = {}, !.resends = 1,
                         !.timers = {"timeout", "drain", "dampener"}]

\* Frames that cannot be read start a rekey, also beside a drain or a silent link.
Unreadable == [Rekeying EXCEPT !.rekeys = 1, !.resends = 0, !.failures = 1]

Unheard == [Base EXCEPT !.up = TRUE, !.rekey = TRUE, !.failures = 1, !.dialers = {1},
                        !.timers = {"timeout", "quiet", "dead"}]

Replayed == [Base EXCEPT !.rekey = TRUE, !.rekeys = 1, !.indices = <<3, 3>>, !.dialers = {1},
                         !.duplicates = 1, !.timers = {"drain", "age"}]

\* A better path is dialled beside the active one.
Rerouting == [Base EXCEPT !.up = TRUE, !.paths = {"p", "q"}, !.priority = PreferQ,
                          !.timers = {"timeout", "quiet"}]

\* One end restarts, or drops its peer, while end-to-end sessions survive.
Restarting == [Base EXCEPT !.up = TRUE, !.fsp = TRUE, !.restarts = 1, !.timers = {"timeout", "quiet", "dampener"}]

Removing == [Base EXCEPT !.up = TRUE, !.fsp = TRUE, !.removals = 1, !.timers = {"quiet"}]

\* Worlds whose deadlines are longer than any exchange.
Prompt == [Base EXCEPT !.prompt = TRUE, !.indices = <<4, 4>>,
                       !.timers = {"timeout", "quiet", "hold", "drain", "dead"}]

PromptLoss == [Prompt EXCEPT !.losses = 1]

PromptFsp == [Prompt EXCEPT !.fsp = TRUE]

PromptRestart == [Prompt EXCEPT !.up = TRUE, !.restarts = 1, !.timers = @ \cup {"dampener"}]

PromptRekey == [Prompt EXCEPT !.up = TRUE, !.rekey = TRUE, !.rekeys = 1, !.losses = 1,
                              !.dialers = {1}]

PromptUnreadable == [Prompt EXCEPT !.up = TRUE, !.rekey = TRUE, !.failures = 1, !.dialers = {1}]

PromptReplay == [Prompt EXCEPT !.up = TRUE, !.rekey = TRUE, !.rekeys = 1, !.duplicates = 1]

PromptPaths == [Prompt EXCEPT !.up = TRUE, !.paths = {"p", "q"}, !.priority = PreferQ, !.losses = 1]

MCWorlds ==
    {Crossing, Refreshing, Narrow, Rekeying, Unreadable, Unheard, Replayed, Rerouting,
     Restarting, Removing, PromptLoss, PromptFsp, PromptRestart, PromptRekey,
     PromptUnreadable, PromptReplay, PromptPaths}
=============================================================================
