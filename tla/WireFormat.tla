----------------------------- MODULE WireFormat -----------------------------
(***************************************************************************)
(* The bytes of the mesh: envelopes and frames (internal/protocol) and the *)
(* headers internal/mesh/socket.go puts before them.                       *)
(*                                                                         *)
(* A message is a sequence of bytes.  A decoder yields a sequence of one   *)
(* result, or none when it returns an error.                               *)
(***************************************************************************)
EXTENDS Integers, Sequences

Byte == 0 .. 255
Bytes == Seq(Byte)
Malformed == << >>

MaxReqIDLen == 255
MaxPayloadLen == 16777216
headerSize == 5

(* binary.BigEndian, of uint32(n): the bytes beyond the fourth are gone.  *)
PutUint32(n) ==
  <<(n \div 16777216) % 256, (n \div 65536) % 256, (n \div 256) % 256, n % 256>>
Uint32(b) == 16777216 * b[1] + 65536 * b[2] + 256 * b[3] + b[4]

HeartbeatReqID == <<104, 98>>
HeartbeatAckReqID == <<104, 98, 97>>

Envelope == [ReqID : Bytes, Payload : Bytes]

EncodeEnvelope(e) == <<Len(e.ReqID) % 256>> \o e.ReqID \o e.Payload

DecodeEnvelope_OffByOne(data) ==
  IF Len(data) < 1 \/ Len(data) <= 1 + data[1] THEN Malformed
  ELSE <<[ReqID |-> SubSeq(data, 2, 1 + data[1]), Payload |-> SubSeq(data, 2 + data[1], Len(data))]>>
DecodeEnvelope(data) ==
  IF Len(data) < 1 \/ Len(data) < 1 + data[1] THEN Malformed
  ELSE <<[ReqID |-> SubSeq(data, 2, 1 + data[1]), Payload |-> SubSeq(data, 2 + data[1], Len(data))]>>

Frame == [Type : Byte, Payload : Bytes]

EncodeFrame(f) == <<f.Type>> \o PutUint32(Len(f.Payload)) \o f.Payload

DecodeFrame(data) ==
  IF Len(data) < headerSize THEN Malformed
  ELSE LET length == Uint32(SubSeq(data, 2, headerSize))
       IN  IF length > MaxPayloadLen \/ Len(data) - headerSize < length THEN Malformed
           ELSE <<[Type |-> data[1], Payload |-> SubSeq(data, headerSize + 1, headerSize + length)]>>

-----------------------------------------------------------------------------
(* Worker.Send and SendReply, and SendTo once xrep has taken the pipe id   *)
(* off the header: the transport sends the header and the body as one.     *)
backtraceToken == <<128, 0, 0, 0>>
WithHeader(header, body) == header \o body

(* SendTo's header: where xrep sends the message, and what remains of it.  *)
SendToHeader(pipe) == PutUint32(pipe) \o backtraceToken
PipeFromHeader(header) == IF Len(header) < 4 THEN Malformed ELSE <<Uint32(SubSeq(header, 1, 4))>>

(* mangos: a receiving raw socket moves four bytes at a time from the body *)
(* to the header, up to the first group that has its high bit set; without *)
(* one it drops the message.  xrep puts the sender's pipe id in front.     *)
Ends(data, k) == data[4 * k - 3] >= 128
Receive(prefix, data) ==
  IF \A k \in 1 .. Len(data) \div 4 : ~Ends(data, k) THEN Malformed
  ELSE LET k == CHOOSE k \in 1 .. Len(data) \div 4 :
                  Ends(data, k) /\ \A j \in 1 .. k - 1 : ~Ends(data, j)
       IN  <<[Header |-> prefix \o SubSeq(data, 1, 4 * k), Body |-> SubSeq(data, 4 * k + 1, Len(data))]>>
=============================================================================
