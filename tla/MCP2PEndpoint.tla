--------------------------- MODULE MCP2PEndpoint ---------------------------
(* P2PEndpoint on a small instance: the client answers two pulls with views *)
(* of which the second is too large, the server asks for one.  A reply has  *)
(* two fields, a peer and a list of them, whose own type is left out.       *)
EXTENDS P2PEndpoint

MCMaxSends == [s \in Side |-> IF s = "client" THEN 2 ELSE 1]

MCOversized == [s \in Side |-> IF s = "client" THEN {2} ELSE {}]

MCType == {"InternalMessage", "PullReply", "Peer"}

MCTypeOf ==
    [s \in Side |-> [m \in 1..HighestMessage |-> IF s = "client" THEN "PullReply" ELSE "Peer"]]

MCInner == [T \in MCType |-> IF T = "PullReply" THEN <<"Peer", "Peer">> ELSE <<>>]
=============================================================================
