------------------------------ MODULE MeshLink ------------------------------
(***************************************************************************)
(* Messages between a worker's mesh socket and the router's, byte by byte, *)
(* over the connections of the listener (internal/mesh/socket.go,          *)
(* wsPipe.Send and Recv, and the callers in router and worker).            *)
(*                                                                         *)
(* One message is under way at a time: what the model is about is that it  *)
(* arrives as it was sent, whichever connection it takes and whatever the  *)
(* listener does meanwhile.  xrep and xreq are mangos', external.          *)
(***************************************************************************)
EXTENDS Listener, WireFormat

CONSTANTS
  PipeID,      \* connection -> the number mangos gives its pipe
  Control,     \* envelopes of heartbeats
  Jobs,        \* envelopes of jobs and acknowledgements
  Replies      \* request ids and frames of answers

(* mangos' pipe ids have the high bit clear.  Only heartbeats carry their  *)
(* request id.  No message is longer than its length fields can say: the   *)
(* encoders do not look (envelope.go:29-30) and leave it to the callers,   *)
(* whose ids are UUIDs and whose chunks are of at most 4096 bytes.         *)
ASSUME LinkAssumption ==
  /\ \A c \in Conn : PipeID[c] \in Nat /\ PipeID[c] <= 2147483647
  /\ \A e \in Control \cup Jobs : e \in Envelope /\ Len(e.ReqID) <= MaxReqIDLen
  /\ \A e \in Control : e.ReqID = HeartbeatReqID
  /\ \A r \in Replies :
       /\ r.ReqID \in Bytes /\ Len(r.ReqID) <= MaxReqIDLen /\ r.ReqID # HeartbeatReqID
       /\ r.frame \in Frame /\ Len(r.frame.Payload) <= MaxPayloadLen

VARIABLES
  mail,        \* the message under way, or the last one
  backtrace    \* connection -> msg.Header of the job its worker has, or none

linkVars == <<listenerVars, mail, backtrace>>

LinkInit == NewListener /\ mail = [at |-> "none"] /\ backtrace = [c \in Conn |-> << >>]

(* A message on its way along c: the bytes, and what its sender meant; of  *)
(* one that was read, whether that is what its reader made of it.          *)
Post(to, c, data, meant) ==
  /\ mail.at # "wire"
  /\ mail' = [at |-> "wire", to |-> to, conn |-> c, data |-> data, meant |-> meant]
Deliver(seen) == mail' = [at |-> "read", asSent |-> (seen = mail.meant)]

Connected(c) == c \in open /\ stage[c] = "serving"

-----------------------------------------------------------------------------
(* sendHeartbeat: Worker.Send.  The connection need not be accepted yet.   *)
Send(c) ==
  /\ Connected(c)
  /\ \E e \in Control :
       Post("router", c, WithHeader(backtraceToken, EncodeEnvelope(e)),
            [pipe |-> <<PipeID[c]>>, env |-> <<e>>, frame |-> << >>])
  /\ UNCHANGED <<listenerVars, backtrace>>

(* sendToNode and ackHeartbeat: SendTo.  xrep takes the pipe id off the    *)
(* header and gives the rest to that pipe.                                 *)
SendTo(c) ==
  /\ c \in inMesh
  /\ \E e \in Jobs, to \in Conn :
       /\ <<PipeID[to]>> = PipeFromHeader(SendToHeader(PipeID[c])) /\ Connected(to)
       /\ Post("worker", to, WithHeader(SubSeq(SendToHeader(PipeID[c]), 5, 8), EncodeEnvelope(e)),
               [pipe |-> <<PipeID[c]>>, env |-> <<e>>, frame |-> << >>])
  /\ UNCHANGED <<listenerVars, backtrace>>

(* Daemon.Run: Worker.Recv, DecodeEnvelope; a job keeps its header.        *)
BodyOf(got) == IF got = Malformed THEN Malformed ELSE DecodeEnvelope(got[1].Body)
WorkerRecv ==
  /\ mail.at = "wire" /\ mail.to = "worker" /\ Connected(mail.conn)
  /\ LET got == Receive(<< >>, mail.data)
         env == BodyOf(got)
     IN  /\ Deliver([pipe |-> <<PipeID[mail.conn]>>, env |-> env, frame |-> << >>])
         /\ IF env = Malformed \/ env[1].ReqID \in {HeartbeatReqID, HeartbeatAckReqID}
            THEN UNCHANGED backtrace
            ELSE backtrace' = [backtrace EXCEPT ![mail.conn] = got[1].Header]
  /\ UNCHANGED listenerVars

(* sendFrame: SendReply with the header of the job.                        *)
SendReply(c) ==
  /\ Connected(c) /\ backtrace[c] # << >>
  /\ \E r \in Replies :
       LET reply == [ReqID |-> r.ReqID, Payload |-> EncodeFrame(r.frame)]
       IN  Post("router", c, WithHeader(backtrace[c], EncodeEnvelope(reply)),
                [pipe |-> <<PipeID[c]>>, env |-> <<reply>>, frame |-> <<r.frame>>])
  /\ UNCHANGED <<listenerVars, backtrace>>

(* recvLoop and handleMeshMessage up to where the message is acted on.     *)
Understood(got) ==
  LET env == BodyOf(got)
  IN  [pipe  |-> IF env = Malformed THEN Malformed ELSE PipeFromHeader(got[1].Header),
       env   |-> env,
       frame |-> IF env = Malformed \/ env[1].ReqID = HeartbeatReqID THEN Malformed
                 ELSE DecodeFrame(env[1].Payload)]
RouterRecv ==
  /\ mail.at = "wire" /\ mail.to = "router" /\ mail.conn \in inMesh /\ Connected(mail.conn)
  /\ Deliver(Understood(Receive(PutUint32(PipeID[mail.conn]), mail.data)))
  /\ UNCHANGED <<listenerVars, backtrace>>

(* What is on a connection that goes away is lost.                         *)
Lost ==
  /\ mail.at = "wire" /\ ~Connected(mail.conn) /\ mail' = [at |-> "none"]
  /\ UNCHANGED <<listenerVars, backtrace>>

MessageStep ==
  \/ \E c \in Conn : Send(c) \/ SendTo(c) \/ SendReply(c)
  \/ WorkerRecv \/ RouterRecv \/ Lost

LinkNext == MessageStep \/ (ListenerNext /\ UNCHANGED <<mail, backtrace>>)

LinkSpec ==
  /\ LinkInit /\ [][LinkNext]_linkVars /\ ListenerFairness
  /\ WF_linkVars(WorkerRecv) /\ WF_linkVars(RouterRecv)

-----------------------------------------------------------------------------
(* What is read is what was sent: the envelope with its request id, the    *)
(* frame of an answer, and the pipe id of the connection it came by, at    *)
(* every length the format allows (envelope.go:32-63, frame.go:41-78,      *)
(* socket.go:108-118, 188-229).                                            *)
ArrivesAsSent == mail.at = "read" => mail.asSent

(* A message reaches its reader while the connection and the listener last *)
(* even when it was sent before Accept had taken the connection: the       *)
(* acceptor is awake or is woken (ws.go:360-416).                          *)
SentIsRead ==
  \A c \in Conn :
    mail.at = "wire" /\ mail.conn = c ~> mail.at # "wire" \/ ~Connected(c) \/ closed
=============================================================================
