--------------------------- MODULE MedianCounter ---------------------------
(***************************************************************************)
(* The per-item arithmetic of the median-counter algorithm, as            *)
(* src/core/gossip_item.go computes it.  A gossip item is in state B (hot, *)
(* counting), C (hot, counting down to retirement) or D (old); a state A   *)
(* does not exist in the code.  Everything here is a pure operator.        *)
(***************************************************************************)
EXTENDS Integers

\* MedianCounterStateB, C and D, in the increasing order the iota gives them.
StateB == 0
StateC == 1
StateD == 2

\* The sign of the comparison of two (state, counter) pairs: the state is the
\* high byte, the counter the low byte.
Cmp(ls, rs) ==
    LET l == ls.state * 256 + ls.counter
        r == rs.state * 256 + rs.counter
    IN  IF l > r THEN 1 ELSE IF l < r THEN -1 ELSE 0

\* The item with another standing in the algorithm: the rest stays.
Standing(info, state, counter, medianRule) ==
    [state |-> state, counter |-> counter, ttl |-> info.ttl,
     medianRule |-> medianRule, peerList |-> info.peerList]

\* What one incoming copy of an item does to the copy the node holds.  Only a
\* B item reacts: a B copy votes on the median rule, a C copy converts it.
UpdateItemInfo(info, new) ==
    IF info.state # StateB THEN info
    ELSE IF new.state = StateC THEN Standing(info, StateC, 0, 0)
    ELSE IF new.counter >= info.counter
         THEN Standing(info, StateB, info.counter, info.medianRule + 1)
         ELSE Standing(info, StateB, info.counter, info.medianRule - 1)
=============================================================================
