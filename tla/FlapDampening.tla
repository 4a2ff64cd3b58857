---------------------------- MODULE FlapDampening ----------------------------
(***************************************************************************)
(* The timers with which a node of the spanning tree keeps its parent: the  *)
(* hold-down after a switch and the dampening of a node that switches too   *)
(* often (proto/stp/state.rs).  Which parent is better is left open here    *)
(* (TreeState); what matters is whether a switch is mandatory (the parent   *)
(* is lost, or a smaller root is seen) or optional (a cheaper path).        *)
(***************************************************************************)
EXTENDS Integers, Sequences, FiniteSets

CONSTANTS
    Peers,              \* the possible parents
    Self,               \* the node itself: its parent while it is a root
    hold_down,          \* the seconds after a switch without an optional one
    flap_threshold,     \* the switches in a window that engage the dampening
    flap_window,
    flap_dampening,     \* how long the dampening lasts
    MaxTime             \* bound on the clock

\* A window of no length would count nothing.
ASSUME FlapAssumption ==
    /\ {hold_down, flap_threshold, flap_dampening, MaxTime} \subseteq Nat
    /\ flap_window \in Nat \ {0}

VARIABLES
    now,
    parent,
    last_parent_switch,     \* the time of the last set_parent, or Never
    flap_count,
    flap_window_start,      \* or Never
    flap_dampening_until,   \* or Never
    switches                \* history: the time and kind of each change of parent

fvars == <<now, parent, last_parent_switch, flap_count, flap_window_start,
          flap_dampening_until, switches>>

Never == -1

FlapInit ==
    /\ now = 0
    /\ parent = Self
    /\ last_parent_switch = Never
    /\ flap_count = 0
    /\ flap_window_start = Never
    /\ flap_dampening_until = Never
    /\ switches = <<>>

InWindow == flap_window_start # Never /\ now - flap_window_start < flap_window

\* Mutant: a new window inherits the count of the former one.
RecordWithoutReset ==
    /\ flap_window_start' = IF InWindow THEN flap_window_start ELSE now
    /\ flap_count' = flap_count + 1
    /\ flap_dampening_until' =
            IF flap_count' >= flap_threshold /\ flap_dampening_until = Never
            THEN now + flap_dampening ELSE flap_dampening_until

record_parent_switch ==
    /\ flap_window_start' = IF InWindow THEN flap_window_start ELSE now
    /\ flap_count' = IF InWindow THEN flap_count + 1 ELSE 1
    /\ flap_dampening_until' =
            IF flap_count' >= flap_threshold /\ flap_dampening_until = Never
            THEN now + flap_dampening ELSE flap_dampening_until

set_parent(p, kind) ==
    /\ parent' = p
    /\ last_parent_switch' = now
    /\ IF p # parent
       THEN record_parent_switch /\ switches' = Append(switches, [at |-> now, kind |-> kind])
       ELSE UNCHANGED <<flap_count, flap_window_start, flap_dampening_until, switches>>
    /\ UNCHANGED now

HeldDown == last_parent_switch # Never /\ now - last_parent_switch < hold_down

\* Mutant: dampening never ends a comparison of costs.
NeverDampened == FALSE

is_flap_dampened == flap_dampening_until # Never /\ now < flap_dampening_until

\* The parent is gone, a smaller root is seen, or a root finds one.
MandatorySwitch(p) == p # parent /\ set_parent(p, "mandatory")

\* evaluate_parent prefers another parent under the same root.
OptionalSwitch(p) ==
    /\ parent # Self /\ p # parent
    /\ ~HeldDown /\ ~is_flap_dampened
    /\ set_parent(p, "optional")

\* handle_tree_announce: the parent has announced another path.
ParentUpdated == parent # Self /\ set_parent(parent, "update")

\* No parent is left; become_root touches no timer.
BecomeRoot ==
    /\ parent # Self
    /\ parent' = Self
    /\ UNCHANGED <<now, last_parent_switch, flap_count, flap_window_start,
                   flap_dampening_until, switches>>

Second ==
    /\ now < MaxTime
    /\ now' = now + 1
    /\ UNCHANGED <<parent, last_parent_switch, flap_count, flap_window_start,
                   flap_dampening_until, switches>>

\* At most MaxTime switches are followed.
FlapNext ==
    \/ Len(switches) < MaxTime /\ \E p \in Peers : MandatorySwitch(p) \/ OptionalSwitch(p)
    \/ ParentUpdated \/ BecomeRoot \/ Second

FlapSpec == FlapInit /\ [][FlapNext]_fvars

-----------------------------------------------------------------------------
SwitchesSince(t) == {i \in 1..Len(switches) : switches[i].at >= t}

\* The count is that of the switches since the window began, and no window is
\* longer than flap_window: quiet times and updates of the same parent do not add up
\* to a flap.
CountIsExact ==
    /\ flap_window_start # Never => flap_count = Cardinality(SwitchesSince(flap_window_start))
    /\ \A i \in 1..Len(switches) :
            flap_window_start # Never /\ switches[i].at >= flap_window_start =>
                switches[i].at - flap_window_start < flap_window

\* After the dampening has engaged, no cost comparison moves the node until it ends;
\* nor does one within the hold-down of the switch before it.
OptionalSwitchesAreRare ==
    \A i \in 1..Len(switches) :
        switches[i].kind = "optional" =>
            /\ i > 1 /\ switches[i].at - switches[i - 1].at >= hold_down
            /\ flap_dampening_until # Never =>
                 \/ switches[i].at >= flap_dampening_until
                 \/ switches[i].at <= flap_dampening_until - flap_dampening

\* flap_count is the number of parent switches of the current window, and while the
\* hold-down or the dampening lasts the parent only changes when it has to
\* (record_parent_switch, evaluate_parent).
SwitchesAreCounted == CountIsExact /\ OptionalSwitchesAreRare

\* A node that has switched more than flap_threshold times in its window is dampened.
FlappingIsDampened == flap_count > flap_threshold /\ InWindow => is_flap_dampened
=============================================================================
