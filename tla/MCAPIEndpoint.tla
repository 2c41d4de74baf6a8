--------------------------- MODULE MCAPIEndpoint ---------------------------
(* APIEndpoint on a small instance: on its second connection the client    *)
(* registers and answers, on the first it only has time for one of them.   *)
EXTENDS APIEndpoint

MCMaxSends == [c \in Conn |-> c]
=============================================================================
