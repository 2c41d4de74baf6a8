----------------------------- MODULE MCGossiper -----------------------------
(* Gossiper on small instances: two data types, shared out among the items. *)
EXTENDS Gossiper

CONSTANTS i1, i2, i3, t1, p1, p2, c1

MCDataType == {t1}

\* All items are of one data type: a registered client wants every item.
MCdataType == [i \in Item |-> t1]
=============================================================================
