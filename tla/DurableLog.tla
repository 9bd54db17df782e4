----------------------------- MODULE DurableLog ------------------------------
(***************************************************************************)
(* What a file-backed Database promises a caller, with no file in sight.   *)
(* Handles take turns.  The one that is in submits plans, one at a time; a *)
(* plan is a set of parts, numbered in the order they are logged.  A part, *)
(* once kept, is kept for ever, and never without the parts before it; a   *)
(* plan is acknowledged when all its parts are kept, and before the next   *)
(* is submitted, or never.  A handle may leave at any moment, and nobody   *)
(* then knows whether one more part made it.                               *)
(***************************************************************************)
EXTENDS Naturals, Sequences

CONSTANTS
    Handles,    \* who may come in
    Shapes      \* the sets of parts a plan may have

VARIABLES
    inside,     \* the handle that is in, or nobody
    plans,      \* the parts of each plan submitted, in order
    kept,       \* the parts that a later handle will find
    acked       \* the parts of the plans that returned Ok

vars == <<inside, plans, kept, acked>>

Parts(n) == {[plan |-> n, i |-> i] : i \in plans[n]}
Submitted == UNION {Parts(n) : n \in DOMAIN plans}

\* No part without the parts of its plan that come before it.
InOrder(set) ==
    \A part \in set : \A earlier \in Parts(part.plan) : earlier.i < part.i => earlier \in set

Init == inside = {} /\ plans = <<>> /\ kept = {} /\ acked = {}

Enter(h) ==
    /\ inside = {}
    /\ inside' = {h}
    /\ UNCHANGED <<plans, kept, acked>>

Submit(shape) ==
    /\ inside # {}
    /\ plans' = Append(plans, shape)
    /\ UNCHANGED <<inside, kept, acked>>

KeepMore ==
    /\ inside # {}
    /\ kept \subseteq kept' /\ kept' \subseteq Submitted
    /\ InOrder(kept')
    /\ UNCHANGED <<plans, acked>>

Keep == KeepMore /\ UNCHANGED inside

Acknowledge ==
    /\ inside # {}
    /\ plans # <<>> /\ Parts(Len(plans)) \subseteq kept
    /\ acked' = acked \cup Parts(Len(plans))
    /\ UNCHANGED <<inside, plans, kept>>

Leave == KeepMore /\ inside' = {}

Next ==
    \/ \E h \in Handles : Enter(h)
    \/ \E shape \in Shapes : Submit(shape)
    \/ Keep \/ Acknowledge \/ Leave

Spec == Init /\ [][Next]_vars
==============================================================================
