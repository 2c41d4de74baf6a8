----------------------------- MODULE ViewOrders -----------------------------
(* What the Central controller may rely on when it takes orders from the     *)
(* Membership controller: an order to add is never for a peer that is already *)
(* in the view, an order to remove always for one that is, and the view that  *)
(* the orders build up is never larger than promised.                        *)
EXTENDS Naturals, FiniteSets

CONSTANTS Peer, ViewListCap

VARIABLES
    view,      \* the view that follows from all orders so far
    removed,   \* the peers that the last orders removed from it
    added      \* and then added to it

vars == <<view, removed, added>>

Init == view = {} /\ removed = {} /\ added = {}

Order ==
    /\ removed' \subseteq view
    /\ added' \subseteq Peer \ view
    /\ view' = (view \ removed') \cup added'
    /\ IsFiniteSet(view') /\ Cardinality(view') <= ViewListCap

Spec == Init /\ [][Order]_vars
=============================================================================
