----------------------------- MODULE MCMeshLink -----------------------------
(***************************************************************************)
(* Two connections, with the smallest and the largest pipe id there is,    *)
(* and messages at the ends of what the length fields can say.             *)
(***************************************************************************)
EXTENDS MeshLink

CONSTANTS c1, c2

MCPipeID == [c \in Conn |-> IF c = c1 THEN 1 ELSE 2147483647]

Text(n) == [i \in 1 .. n |-> 97]
Binary(n) == [i \in 1 .. n |-> IF i % 2 = 1 THEN 255 ELSE 0]

(* Payloads of nothing, and that look like a header.                       *)
MCControl == {[ReqID |-> HeartbeatReqID, Payload |-> p] : p \in {<< >>, <<128, 0, 0, 0>>}}

(* A request id of the program's, and the shortest and the longest.        *)
MCJobs == {[ReqID |-> Text(n), Payload |-> << >>] : n \in {0, 255}}
            \cup {[ReqID |-> HeartbeatAckReqID, Payload |-> <<255>>],
                  [ReqID |-> Text(36), Payload |-> Binary(100)]}

Answer(n, type, payload) == [ReqID |-> Text(n), frame |-> [Type |-> type, Payload |-> payload]]
MCReplies == {Answer(0, 1, << >>), Answer(36, 2, Binary(255)), Answer(36, 255, Binary(256)), Answer(255, 3, << >>)}
=============================================================================
