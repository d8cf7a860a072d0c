------------------------------- MODULE Frames -------------------------------
(***************************************************************************)
(* The frames of one answer on their way from the engine to the client:    *)
(* what handleJob (internal/worker/daemon.go) sends, what the mesh leaves  *)
(* of it when a connection breaks, and where the handler that collects     *)
(* them may stand (internal/router/server.go).                             *)
(***************************************************************************)
EXTENDS Integers, Sequences

CONSTANTS
  BufferSize,     \* sessionBufferSize
  MaxChunks       \* bound: chunks of one answer

ASSUME FramesAssumption == BufferSize \in Nat \ {0} /\ MaxChunks \in Nat

Frame == [type : {"chunk", "eof", "error"}, n : 0 .. MaxChunks]
Chunk(n) == [type |-> "chunk", n |-> n]
EOF == [type |-> "eof", n |-> 0]
Error == [type |-> "error", n |-> 0]

(* refused: answered before anything was dispatched for good.              *)
Phase == {"new", "selected", "stored", "waiting", "answered", "refused"}

(* The frames handleJob sends for one body.Read: data may come together    *)
(* with the end of the body.                                               *)
FramesOf_ErrorFirst(data, err) ==
  CASE err = "EOF" -> <<EOF>> [] err = "error" -> <<Error>> [] OTHER -> data
FramesOf_Silent(data, err) == IF err = "EOF" THEN Append(data, EOF) ELSE data
FramesOf(data, err) ==
  data \o (CASE err = "EOF" -> <<EOF>> [] err = "error" -> <<Error>> [] OTHER -> << >>)

(* What may be left of frames under way when the connection breaks: those  *)
(* that had arrived already and those that had not yet left.               *)
Without(frames, i, lost) == SubSeq(frames, 1, i) \o SubSeq(frames, i + 1 + lost, Len(frames))
Survivors(frames) == {Without(frames, i, lost) : i, lost \in 0 .. Len(frames)}
=============================================================================
