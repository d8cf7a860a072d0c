--------------------------- MODULE AdmissionProofs --------------------------
(***************************************************************************)
(* Proofs about the router's two entrances.  The mesh: what the decoders   *)
(* make of what the encoders wrote, at every length (WireFormat); who owns *)
(* the pipes of a listener (Listener); and that messages arrive as they    *)
(* were sent (MeshLink).  The dashboard: how many logins the throttle lets *)
(* through to be verified (LoginLimiter), for any number of addresses, any *)
(* limit and any window.                                                   *)
(***************************************************************************)
EXTENDS MeshLink, LoginLimiter, FiniteSetTheorems, WellFoundedInduction, TLAPS

-----------------------------------------------------------------------------
(* A byte is a natural number below 256, said without the range itself.    *)
LEMMA ByteRange ==
  \A b : b \in Byte <=> b \in Nat /\ b < 256
  BY DEF Byte

(* BigEndian.Uint32 undoes BigEndian.PutUint32 of any uint32 (frame.go:45, *)
(* 65; socket.go:112, 196).                                                *)
LEMMA Uint32RoundTrip ==
  ASSUME NEW n \in Nat, n < 4294967296
  PROVE  /\ PutUint32(n) \in Bytes /\ Len(PutUint32(n)) = 4
         /\ Uint32(PutUint32(n)) = n
<1>1. PutUint32(n) \in Bytes /\ Len(PutUint32(n)) = 4
  BY ByteRange, SMT DEF PutUint32, Bytes
<1>2. Uint32(PutUint32(n)) = n
  BY SMT DEF PutUint32, Uint32
<1> QED BY <1>1, <1>2, SMT

(* A message put together from two parts, or three, and taken apart again. *)
Halves(s, a, b) ==
  /\ Len(s) = Len(a) + Len(b) /\ \A i \in 1 .. Len(a) : s[i] = a[i]
  /\ SubSeq(s, 1, Len(a)) = a /\ SubSeq(s, Len(a) + 1, Len(s)) = b

(* Two parts that are appended can be taken apart.                         *)
LEMMA TwoParts ==
  ASSUME NEW a \in Bytes, NEW b \in Bytes
  PROVE  Halves(a \o b, a, b)
  BY DEF Halves, Bytes

Parts(s, a, b, c) ==
  /\ s \in Bytes /\ Len(s) = Len(a) + Len(b) + Len(c)
  /\ \A i \in 1 .. Len(a) : s[i] = a[i]
  /\ SubSeq(s, Len(a) + 1, Len(a) + Len(b)) = b
  /\ SubSeq(s, Len(a) + Len(b) + 1, Len(a) + Len(b) + Len(c)) = c

(* So can three.                                                           *)
LEMMA ThreeParts ==
  ASSUME NEW a \in Bytes, NEW b \in Bytes, NEW c \in Bytes
  PROVE  Parts(a \o b \o c, a, b, c)
<1> USE DEF Bytes
<1>1. a \o b \o c \in Bytes /\ Len(a \o b \o c) = Len(a) + Len(b) + Len(c)
  OBVIOUS
<1>2. \A i \in 1 .. Len(a) : (a \o b \o c)[i] = a[i]
  OBVIOUS
<1>3. SubSeq(a \o b \o c, Len(a) + 1, Len(a) + Len(b)) = b
  OBVIOUS
<1>4. SubSeq(a \o b \o c, Len(a) + Len(b) + 1, Len(a) + Len(b) + Len(c)) = c
  OBVIOUS
<1> HIDE DEF Bytes
<1> QED BY <1>1, <1>2, <1>3, <1>4, Zenon DEF Parts

(* DecodeEnvelope of EncodeEnvelope is the envelope, if its request id is  *)
(* no longer than one byte can say (envelope.go:32-63).                    *)
THEOREM EnvelopeRoundTrip ==
  ASSUME NEW e \in Envelope, Len(e.ReqID) <= MaxReqIDLen
  PROVE  /\ EncodeEnvelope(e) \in Bytes
         /\ DecodeEnvelope(EncodeEnvelope(e)) = <<e>>
<1> DEFINE size == <<Len(e.ReqID)>>
           id == e.ReqID
           body == e.Payload
           data == EncodeEnvelope(e)
<1>1. id \in Bytes /\ body \in Bytes /\ e = [ReqID |-> id, Payload |-> body]
  BY DEF Envelope
<1>2. Len(id) \in Nat /\ Len(body) \in Nat /\ Len(id) < 256 /\ Len(id) % 256 = Len(id)
  BY <1>1 DEF MaxReqIDLen, Bytes
<1>3. size \in Bytes /\ Len(size) = 1 /\ size[1] = Len(id)
  BY <1>2, ByteRange DEF Bytes
<1>4. data = size \o id \o body
  BY <1>2, Zenon DEF EncodeEnvelope
<1> HIDE DEF size, id, body, data
<1>5. Parts(data, size, id, body)
  BY <1>1, <1>3, <1>4, ThreeParts
<1>6. data[1] = Len(id) /\ Len(data) = 1 + Len(id) + Len(body) /\ data \in Bytes
  BY <1>2, <1>3, <1>5 DEF Parts
<1>7. SubSeq(data, 2, 1 + data[1]) = id /\ SubSeq(data, 2 + data[1], Len(data)) = body
  BY <1>2, <1>3, <1>5, <1>6 DEF Parts
<1>8. ~(Len(data) < 1 \/ Len(data) < 1 + data[1])
  BY <1>2, <1>6
<1>9. DecodeEnvelope(data) = <<[ReqID |-> id, Payload |-> body]>>
  BY <1>7, <1>8, Zenon DEF DecodeEnvelope
<1> QED BY <1>1, <1>6, <1>9 DEF data

(* DecodeFrame of EncodeFrame is the frame, if its payload is no longer    *)
(* than MaxPayloadLen (frame.go:41-78).                                    *)
THEOREM FrameRoundTrip ==
  ASSUME NEW f \in Frame, Len(f.Payload) <= MaxPayloadLen
  PROVE  /\ EncodeFrame(f) \in Bytes
         /\ DecodeFrame(EncodeFrame(f)) = <<f>>
<1> DEFINE body == f.Payload
           type == <<f.Type>>
           size == PutUint32(Len(body))
           data == EncodeFrame(f)
<1>1. /\ body \in Bytes /\ Len(body) \in Nat /\ Len(body) <= MaxPayloadLen
      /\ f = [Type |-> f.Type, Payload |-> body]
  BY DEF Frame, Bytes
<1>2. size \in Bytes /\ Len(size) = 4 /\ Uint32(size) = Len(body)
  <2>1. Len(body) < 4294967296
    BY <1>1, SMT DEF MaxPayloadLen
  <2> QED BY <1>1, <2>1, Uint32RoundTrip
<1>3. type \in Bytes /\ Len(type) = 1 /\ type[1] = f.Type
  BY DEF Frame, Bytes
<1>4. data = type \o size \o body
  BY DEF EncodeFrame
<1> HIDE DEF body, type, size, data
<1>5. Parts(data, type, size, body)
  BY <1>1, <1>2, <1>3, <1>4, ThreeParts
<1>6. Len(data) = 5 + Len(body) /\ data[1] = f.Type /\ data \in Bytes
  BY <1>1, <1>2, <1>3, <1>5 DEF Parts
<1>7. SubSeq(data, 2, 5) = size /\ SubSeq(data, 6, 5 + Len(body)) = body
  BY <1>1, <1>2, <1>3, <1>5 DEF Parts
<1>8. DecodeFrame(data) = <<[Type |-> f.Type, Payload |-> body]>>
  <2>1. ~(Len(data) < headerSize)
    BY <1>1, <1>6 DEF headerSize
  <2>2. ~(Len(body) > MaxPayloadLen \/ Len(data) - headerSize < Len(body))
    BY <1>1, <1>6, SMT DEF headerSize, MaxPayloadLen
  <2>3. /\ SubSeq(data, 2, headerSize) = size
        /\ SubSeq(data, headerSize + 1, headerSize + Len(body)) = body
    BY <1>7 DEF headerSize
  <2> QED BY <1>2, <1>6, <2>1, <2>2, <2>3, Zenon DEF DecodeFrame
<1> QED BY <1>1, <1>6, <1>8 DEF data

(* A receiving socket takes just the header off, whatever bytes follow it: *)
(* the first group of four has its high bit set (socket.go:188-229).       *)
THEOREM HeaderComesOff ==
  ASSUME NEW prefix, NEW body \in Bytes
  PROVE  Receive(prefix, WithHeader(backtraceToken, body)) =
           <<[Header |-> prefix \o backtraceToken, Body |-> body]>>
<1> DEFINE data == WithHeader(backtraceToken, body)
           groups == 1 .. Len(data) \div 4
           First(k) == Ends(data, k) /\ \A j \in 1 .. k - 1 : ~Ends(data, j)
<1>1. backtraceToken \in Bytes /\ Len(backtraceToken) = 4 /\ backtraceToken[1] = 128
  BY ByteRange DEF backtraceToken, Bytes
<1>2. data = backtraceToken \o body
  BY DEF WithHeader
<1> HIDE DEF data
<1>3. Halves(data, backtraceToken, body) /\ Len(body) \in Nat
  BY <1>1, <1>2, TwoParts DEF Bytes
<1>4. 1 \in groups /\ Ends(data, 1)
  BY <1>1, <1>3 DEF Ends, Halves
<1>5. (CHOOSE k \in groups : First(k)) = 1
  <2>1. \A k \in groups : First(k) <=> k = 1
    BY <1>4
  <2> QED BY <1>4, <2>1
<1>6. SubSeq(data, 1, 4 * 1) = backtraceToken /\ SubSeq(data, 4 * 1 + 1, Len(data)) = body
  BY <1>1, <1>3 DEF Halves
<1>7. Receive(prefix, data) = <<[Header |-> prefix \o SubSeq(data, 1, 4 * 1),
                                 Body |-> SubSeq(data, 4 * 1 + 1, Len(data))]>>
  BY <1>4, <1>5, Zenon DEF Receive
<1> QED BY <1>6, <1>7, Zenon DEF data

-----------------------------------------------------------------------------
Distinct(s) == \A i, j \in 1 .. Len(s) : s[i] = s[j] => i = j

(* Appending a new element keeps a list free of duplicates.                *)
LEMMA AppendDistinct ==
  ASSUME NEW S, NEW s \in Seq(S), NEW x \in S, Distinct(s), x \notin Range(s)
  PROVE  /\ Append(s, x) \in Seq(S) /\ Distinct(Append(s, x))
         /\ Range(Append(s, x)) = Range(s) \cup {x}
<1>1. /\ Append(s, x) \in Seq(S) /\ Len(Append(s, x)) = Len(s) + 1 /\ Len(s) \in Nat
      /\ Append(s, x)[Len(s) + 1] = x
      /\ \A i \in 1 .. Len(s) : Append(s, x)[i] = s[i]
  OBVIOUS
<1>2. \A i \in 1 .. Len(s) : s[i] # x
  BY DEF Range
<1>3. Distinct(Append(s, x))
  BY <1>1, <1>2 DEF Distinct
<1>4. Range(Append(s, x)) = Range(s) \cup {x}
  BY <1>1 DEF Range
<1> QED BY <1>1, <1>3, <1>4

Last(s) == s[Len(s)]
Front(s) == SubSeq(s, 1, Len(s) - 1)

(* Taking the last element off a list without duplicates takes it from the *)
(* set of its elements (ws.go:374-377).                                    *)
LEMMA FrontDistinct ==
  ASSUME NEW S, NEW s \in Seq(S), s # << >>, Distinct(s)
  PROVE  /\ Front(s) \in Seq(S) /\ Distinct(Front(s)) /\ Last(s) \in Range(s) /\ Last(s) \in S
         /\ Range(Front(s)) = Range(s) \ {Last(s)}
<1>1. /\ Front(s) \in Seq(S) /\ Len(Front(s)) = Len(s) - 1 /\ Len(s) \in Nat \ {0}
      /\ \A i \in 1 .. Len(s) - 1 : Front(s)[i] = s[i]
      /\ Last(s) = s[Len(s)]
  <2>1. Len(s) \in Nat \ {0}
    OBVIOUS
  <2> DEFINE n == Len(s) - 1
  <2>2. n \in Nat /\ n <= Len(s)
    BY <2>1
  <2> HIDE DEF n
  <2>3. SubSeq(s, 1, n) \in Seq(S) /\ Len(SubSeq(s, 1, n)) = n
    BY <2>2
  <2>4. \A i \in 1 .. n : SubSeq(s, 1, n)[i] = s[i]
    BY <2>2
  <2> QED BY <2>1, <2>3, <2>4 DEF Front, Last, n
<1>2. Distinct(Front(s))
  BY <1>1 DEF Distinct
<1>3. Last(s) \in Range(s) /\ Last(s) \in S
  BY <1>1 DEF Range
<1>4. Range(Front(s)) = Range(s) \ {Last(s)}
  BY <1>1 DEF Range, Distinct
<1> QED BY <1>1, <1>2, <1>3, <1>4

(* OwnedOnce is not inductive.  What has to be added: a pipe that mangos   *)
(* has was queued before, so that no handler queues it again; before       *)
(* Listen there is no handler, so that Listen drops nothing when it        *)
(* empties the list; and Accept only stops once the listener is closed, so *)
(* that a pipe queued before that finds it ready.                          *)
Owned(c) ==
  /\ wg[c] = IF c \in open THEN 1 ELSE 0
  /\ c \in open => (c \in Pending <=> c \notin inMesh) /\ stage[c] = "serving"
  /\ c \in Pending => c \in open
  /\ c \in inMesh => stage[c] \in {"serving", "returned"}
Started ==
  /\ running => ~closed
  /\ ~running /\ ~closed => acceptor = "none"
  /\ acceptor = "none" => \A c \in Conn : stage[c] = "new"
Queued(c) ==
  /\ c \in Pending => (acceptor = "ready" /\ ~closed) \/ c \in late
  /\ stage[c] = "upgrading" /\ closed => c \in late
QueuedInv == (acceptor = "stopped" => closed) /\ \A c \in Conn : Queued(c)
ListenerInv ==
  /\ ListenerTypeOK /\ Distinct(pending) /\ (\A c \in Conn : Owned(c)) /\ Started
  /\ QueuedInv

(* It says all that OwnedOnce says.                                        *)
LEMMA ListenerInvImplies == ListenerInv => OwnedOnce
  BY DEF ListenerInv, OwnedOnce, Distinct, Owned, QueuedInv, Queued

(* The initial state has the inductive invariant of the listener.          *)
LEMMA ListenerInvInit == NewListener => ListenerInv
<1> SUFFICES ASSUME NewListener PROVE ListenerInv
  OBVIOUS
<1>1. ListenerTypeOK
  <2>1. pending \in Seq(Conn) /\ stage \in [Conn -> Stage] /\ wg \in [Conn -> {0, 1}]
    BY DEF NewListener, Stage
  <2> QED BY <2>1, ZenonT(30) DEF NewListener, ListenerTypeOK
<1>4. Distinct(pending) /\ Started
  BY DEF NewListener, Distinct, Started
<1>2. Pending = {}
  BY DEF NewListener, Pending, Range
<1>3. \A c \in Conn : Owned(c)
  BY <1>2 DEF NewListener, Owned
<1>5. QueuedInv
  BY <1>2 DEF NewListener, QueuedInv, Queued
<1> QED BY <1>1, <1>3, <1>4, <1>5 DEF ListenerInv

(* A queued pipe keeps an Accept that is awake, or was late.               *)
LEMMA QueuedStep ==
  ASSUME ListenerInv, [ListenerNext]_listenerVars
  PROVE  QueuedInv'
<1> USE DEF ListenerInv, ListenerTypeOK, Started, QueuedInv, Queued
<1>1. CASE Listen
  <2>1. Pending' = {} /\ \A c \in Conn : stage'[c] = "new"
    BY <1>1 DEF Listen, Pending, Range
  <2> QED BY <1>1, <2>1 DEF Listen
<1>2. CASE Accept
  <2>1. CASE pending' = pending /\ pending # << >>
    BY <1>2, <2>1 DEF Accept, Pending
  <2>2. CASE pending' = pending /\ pending = << >>
    <3>1. Pending' = {}
      BY <2>2 DEF Pending, Range
    <3> QED BY <1>2, <2>2, <3>1 DEF Accept
  <2>3. CASE running /\ pending # << >> /\ pending' = Front(pending) /\ UNCHANGED acceptor
    <3>1. Pending' \subseteq Pending
      BY <2>3, FrontDistinct, ZenonT(30) DEF Pending
    <3> QED BY <1>2, <2>3, <3>1 DEF Accept
  <2> QED BY <1>2, <2>1, <2>2, <2>3 DEF Accept, Front
<1>3. CASE Close
  <2>1. Pending' = {}
    BY <1>3 DEF Close, Pending, Range
  <2> QED BY <1>3, <2>1 DEF Close, Upgrading
<1>4. ASSUME NEW d \in Conn, ServeHTTP(d)
      PROVE  QueuedInv'
  <2>1. Pending' = Pending /\ (closed => ~running)
    BY <1>4 DEF ServeHTTP, Pending
  <2> QED BY <1>4, <2>1 DEF ServeHTTP, Goto
<1>5. ASSUME NEW d \in Conn, Refuse(d) \/ UpgradeFails(d) \/ handlerReturns(d)
      PROVE  QueuedInv'
  <2>1. /\ Pending' = Pending /\ UNCHANGED <<acceptor, closed, late>>
        /\ stage' = [stage EXCEPT ![d] = "returned"]
    BY <1>5 DEF Refuse, UpgradeFails, handlerReturns, Pending, Goto
  <2> QED BY <2>1
<1>6. ASSUME NEW d \in Conn, handler(d)
      PROVE  QueuedInv'
  <2>1. Pending' = Pending \cup {d}
    BY <1>6, AppendDistinct DEF handler, Pending, Owned
  <2>2. acceptor # "none" /\ (~closed => acceptor' = "ready") /\ (acceptor' = "stopped" => closed)
    BY <1>6 DEF handler, AfterQueueing, Woken
  <2>3. UNCHANGED <<closed, late>> /\ stage'[d] = "serving" /\ \A c \in Conn \ {d} : stage'[c] = stage[c]
    BY <1>6 DEF handler, Goto
  <2> QED BY <1>6, <2>1, <2>2, <2>3 DEF handler
<1>7. ASSUME NEW d \in Conn, meshClosesPipe(d)
      PROVE  QueuedInv'
  BY <1>7 DEF meshClosesPipe, Pending
<1>8. CASE UNCHANGED listenerVars
  BY <1>8 DEF listenerVars, Pending
<1> HIDE DEF QueuedInv
<1> QED BY <1>1, <1>2, <1>3, <1>4, <1>5, <1>6, <1>7, <1>8 DEF ListenerNext, ConnStep

(* Every step of the listener keeps it.                                    *)
LEMMA ListenerInvStep ==
  ListenerInv /\ [ListenerNext]_listenerVars => ListenerInv'
<1> SUFFICES ASSUME ListenerInv, ListenerTypeOK, Distinct(pending), \A c \in Conn : Owned(c), Started,
                    [ListenerNext]_listenerVars
             PROVE  ListenerTypeOK' /\ Distinct(pending)' /\ (\A c \in Conn : Owned(c)') /\ Started'
  BY QueuedStep DEF ListenerInv
<1>1. CASE Listen
  <2>1. \A c \in Conn : c \notin open /\ c \notin inMesh
    BY <1>1 DEF Listen, Started, Owned
  <2>2. Distinct(pending)' /\ Pending' = {}
    BY <1>1 DEF Listen, Distinct, Pending, Range
  <2>3. ListenerTypeOK' /\ Started'
    BY <1>1 DEF Listen, ListenerTypeOK, Started
  <2>4. \A c \in Conn : Owned(c)'
    BY <1>1, <2>1, <2>2 DEF Listen, Owned
  <2> QED BY <2>2, <2>3, <2>4
<1>2. CASE Accept
  <2>1. CASE UNCHANGED <<pending, inMesh>>
    BY <1>2, <2>1 DEF Accept, ListenerTypeOK, Distinct, Owned, Started, Pending
  <2>2. CASE running /\ pending # << >> /\ inMesh' = inMesh \cup {Last(pending)} /\ pending' = Front(pending)
    <3>1. /\ Front(pending) \in Seq(Conn) /\ Distinct(Front(pending))
          /\ Last(pending) \in Pending /\ Last(pending) \in Conn
          /\ Range(Front(pending)) = Pending \ {Last(pending)}
      BY <2>2, FrontDistinct, ZenonT(30) DEF ListenerTypeOK, Pending
    <3>2. ListenerTypeOK' /\ Distinct(pending)' /\ Started'
      BY <1>2, <2>2, <3>1 DEF Accept, ListenerTypeOK, Distinct, Started
    <3>3. Pending' = Pending \ {Last(pending)}
      BY <2>2, <3>1 DEF Pending
    <3>4. \A c \in Conn : Owned(c)'
      BY <1>2, <2>2, <3>1, <3>3 DEF Accept, Owned
    <3> QED BY <3>2, <3>4
  <2> QED BY <1>2, <2>1, <2>2 DEF Accept, Last, Front
<1>3. CASE Close
  <2>1. \A c \in Conn : wg'[c] \in {0, 1}
    BY <1>3 DEF Close, ClosePipes, ListenerTypeOK, Owned
  <2>4. Distinct(pending)' /\ Started'
    BY <1>3 DEF Close, Woken, ListenerTypeOK, Distinct, Started
  <2>5. /\ wg' \in [Conn -> {0, 1}] /\ open' \subseteq Conn /\ pending' \in Seq(Conn)
        /\ late' \subseteq Conn
    BY <1>3, <2>1 DEF Close, ClosePipes, ListenerTypeOK, Upgrading
  <2>6. ListenerTypeOK'
    BY <1>3, <2>5, ZenonT(30) DEF Close, Woken, ListenerTypeOK
  <2>2. Pending' = {}
    BY <1>3 DEF Close, Pending, Range
  <2>3. \A c \in Conn : Owned(c)'
    BY <1>3, <2>2 DEF Close, ClosePipes, ListenerTypeOK, Owned
  <2> QED BY <2>3, <2>4, <2>6
<1>4. ASSUME NEW d \in Conn, ServeHTTP(d) \/ Refuse(d) \/ UpgradeFails(d) \/ handlerReturns(d)
      PROVE  ListenerTypeOK' /\ Distinct(pending)' /\ (\A c \in Conn : Owned(c)') /\ Started'
  <2>1. UNCHANGED <<running, closed, pending, acceptor, open, wg, inMesh, late>>
    BY <1>4 DEF ServeHTTP, Refuse, UpgradeFails, handlerReturns
  <2>2. d \notin open /\ acceptor # "none"
    BY <1>4 DEF ServeHTTP, Refuse, UpgradeFails, handlerReturns, Owned, Started
  <2>3. PICK t \in Stage : stage' = [stage EXCEPT ![d] = t] /\ (d \in inMesh => t = "returned")
    BY <1>4 DEF ServeHTTP, Refuse, UpgradeFails, handlerReturns, Goto, Stage, Owned
  <2>4. ListenerTypeOK' /\ Distinct(pending)' /\ Started'
    BY <2>1, <2>2, <2>3 DEF ListenerTypeOK, Distinct, Started
  <2>5. \A c \in Conn : Owned(c)'
    BY <2>1, <2>2, <2>3 DEF ListenerTypeOK, Owned, Pending
  <2> QED BY <2>4, <2>5
<1>5. ASSUME NEW d \in Conn, handler(d)
      PROVE  ListenerTypeOK' /\ Distinct(pending)' /\ (\A c \in Conn : Owned(c)') /\ Started'
  <2>1. d \notin open /\ d \notin Pending /\ d \notin inMesh /\ acceptor # "none" /\ wg[d] = 0
    BY <1>5 DEF handler, Owned, Started
  <2>2. /\ Append(pending, d) \in Seq(Conn) /\ Distinct(Append(pending, d))
        /\ Range(Append(pending, d)) = Pending \cup {d}
    BY <2>1, AppendDistinct DEF ListenerTypeOK, Pending
  <2>3. ListenerTypeOK' /\ Distinct(pending)' /\ Started'
    BY <1>5, <2>1, <2>2 DEF handler, Goto, AfterQueueing, Woken, ListenerTypeOK, Stage, Distinct, Started
  <2>4. Pending' = Pending \cup {d}
    BY <1>5, <2>2 DEF handler, Pending
  <2>5. \A c \in Conn : Owned(c)'
    BY <1>5, <2>1, <2>4 DEF handler, Goto, ListenerTypeOK, Owned
  <2> QED BY <2>3, <2>5
<1>6. ASSUME NEW d \in Conn, meshClosesPipe(d)
      PROVE  ListenerTypeOK' /\ Distinct(pending)' /\ (\A c \in Conn : Owned(c)') /\ Started'
  <2>1. Pending' = Pending /\ d \notin Pending
    BY <1>6 DEF meshClosesPipe, Pending, Owned
  <2>2. ListenerTypeOK' /\ Distinct(pending)' /\ Started'
    BY <1>6 DEF meshClosesPipe, ClosePipes, ListenerTypeOK, Distinct, Started, Owned
  <2>3. \A c \in Conn : Owned(c)'
    BY <1>6, <2>1 DEF meshClosesPipe, ClosePipes, ListenerTypeOK, Owned
  <2> QED BY <2>2, <2>3
<1>7. CASE UNCHANGED listenerVars
  BY <1>7 DEF listenerVars, ListenerTypeOK, Distinct, Owned, Started, Pending
<1> QED BY <1>1, <1>2, <1>3, <1>4, <1>5, <1>6, <1>7 DEF ListenerNext, ConnStep

(* Every open pipe has one owner that will close it or hand it on, in      *)
(* every order of upgrades, Accept, Close and repeated closes, for any set *)
(* of connections; the one exception is a pipe whose upgrade was under way *)
(* when the listener was closed (ws.go:162-171, 360-435).                  *)
THEOREM PipesAreOwned == LinkSpec => []OwnedOnce
<1>1. LinkInit => ListenerInv
  BY ListenerInvInit DEF LinkInit
<1>2. ListenerInv /\ [LinkNext]_linkVars => ListenerInv'
  <2>1. [LinkNext]_linkVars => [ListenerNext]_listenerVars
    BY DEF LinkNext, MessageStep, Send, SendTo, SendReply, WorkerRecv, RouterRecv, Lost, linkVars
  <2> QED BY <2>1, ListenerInvStep
<1> QED BY <1>1, <1>2, ListenerInvImplies, PTL DEF LinkSpec

-----------------------------------------------------------------------------
(* The header of a job is the token, so an answer starts with the token    *)
(* too; and the message under way is one that some sender may have meant.  *)
Wire(to, c, e, frame) ==
  [at |-> "wire", to |-> to, conn |-> c, data |-> WithHeader(backtraceToken, EncodeEnvelope(e)),
   meant |-> [pipe |-> <<PipeID[c]>>, env |-> <<e>>, frame |-> frame]]
Sendable(e) == e \in Envelope /\ Len(e.ReqID) <= MaxReqIDLen
FrameIn(e) == IF e.ReqID = HeartbeatReqID THEN << >> ELSE DecodeFrame(e.Payload)
MailOK ==
  \/ mail = [at |-> "none"]
  \/ mail = [at |-> "read", asSent |-> TRUE]
  \/ \E c \in Conn, e \in Jobs : mail = Wire("worker", c, e, << >>)
  \/ \E c \in Conn, e \in Envelope : Sendable(e) /\ mail = Wire("router", c, e, FrameIn(e))
LinkInv == backtrace \in [Conn -> {<< >>, backtraceToken}] /\ MailOK

(* The decoder of either side gets back the envelope that was sent.        *)
LEMMA BodyArrives ==
  ASSUME NEW prefix, NEW e, Sendable(e)
  PROVE  LET got == Receive(prefix, WithHeader(backtraceToken, EncodeEnvelope(e)))
         IN  /\ got = <<[Header |-> prefix \o backtraceToken, Body |-> EncodeEnvelope(e)]>>
             /\ BodyOf(got) = <<e>>
<1> DEFINE got == Receive(prefix, WithHeader(backtraceToken, EncodeEnvelope(e)))
<1>1. EncodeEnvelope(e) \in Bytes /\ DecodeEnvelope(EncodeEnvelope(e)) = <<e>>
  BY EnvelopeRoundTrip DEF Sendable
<1>2. got = <<[Header |-> prefix \o backtraceToken, Body |-> EncodeEnvelope(e)]>>
  BY <1>1, HeaderComesOff
<1> HIDE DEF got
<1>3. got # Malformed /\ got[1].Body = EncodeEnvelope(e)
  BY <1>2 DEF Malformed
<1>4. BodyOf(got) = <<e>>
  BY <1>1, <1>3 DEF BodyOf
<1> QED BY <1>2, <1>4 DEF got

(* The router reads the pipe id that xrep has put in front of a header.    *)
LEMMA PipeArrives ==
  ASSUME NEW c \in Conn
  PROVE  /\ PipeFromHeader(PutUint32(PipeID[c]) \o backtraceToken) = <<PipeID[c]>>
         /\ SubSeq(PutUint32(PipeID[c]) \o backtraceToken, 5, 8) = backtraceToken
<1> DEFINE id == PutUint32(PipeID[c])
           header == id \o backtraceToken
<1>1. PipeID[c] \in Nat /\ PipeID[c] < 4294967296
  BY LinkAssumption, SMT
<1>2. id \in Bytes /\ Len(id) = 4 /\ Uint32(id) = PipeID[c]
  BY <1>1, Uint32RoundTrip
<1>3. backtraceToken \in Bytes /\ Len(backtraceToken) = 4
  BY ByteRange DEF backtraceToken, Bytes
<1> HIDE DEF id
<1>4. Halves(header, id, backtraceToken)
  BY <1>2, <1>3, TwoParts
<1> HIDE DEF header
<1>5. Len(header) = 8 /\ SubSeq(header, 1, 4) = id /\ SubSeq(header, 5, 8) = backtraceToken
  BY <1>2, <1>3, <1>4 DEF Halves
<1>6. ~(Len(header) < 4)
  BY <1>5
<1>7. PipeFromHeader(header) = <<PipeID[c]>>
  BY <1>2, <1>5, <1>6, Zenon DEF PipeFromHeader
<1> QED BY <1>5, <1>7 DEF header, id

(* Each step of the link keeps LinkInv.                                    *)
LEMMA LinkInvStep == LinkInv /\ [LinkNext]_linkVars => LinkInv'
<1> SUFFICES ASSUME LinkInv, [LinkNext]_linkVars PROVE LinkInv'
  OBVIOUS
<1>1. ASSUME NEW c \in Conn, Send(c) PROVE LinkInv'
  <2>1. PICK e \in Control : mail' = Wire("router", c, e, << >>)
    BY <1>1 DEF Send, Post, Wire
  <2>2. Sendable(e) /\ e \in Envelope /\ FrameIn(e) = << >>
    BY LinkAssumption DEF Sendable, FrameIn
  <2>3. backtrace' = backtrace
    BY <1>1 DEF Send
  <2> QED BY <2>1, <2>2, <2>3 DEF LinkInv, MailOK
<1>2. ASSUME NEW c \in Conn, SendTo(c) PROVE LinkInv'
  <2>1. PICK e \in Jobs, to \in Conn :
          /\ <<PipeID[to]>> = PipeFromHeader(SendToHeader(PipeID[c]))
          /\ Post("worker", to, WithHeader(SubSeq(SendToHeader(PipeID[c]), 5, 8), EncodeEnvelope(e)),
                  [pipe |-> <<PipeID[c]>>, env |-> <<e>>, frame |-> << >>])
    BY <1>2 DEF SendTo
  <2>2. <<PipeID[to]>> = <<PipeID[c]>> /\ SubSeq(SendToHeader(PipeID[c]), 5, 8) = backtraceToken
    BY <2>1, PipeArrives, ZenonT(30) DEF SendToHeader
  <2>3. mail' = Wire("worker", to, e, << >>)
    BY <2>1, <2>2, Zenon DEF Post, Wire
  <2>4. backtrace' = backtrace
    BY <1>2 DEF SendTo
  <2> QED BY <2>3, <2>4 DEF LinkInv, MailOK
<1>3. ASSUME NEW c \in Conn, SendReply(c) PROVE LinkInv'
  <2>1. backtrace[c] = backtraceToken
    BY <1>3 DEF SendReply, LinkInv
  <2>2. PICK r \in Replies :
          LET reply == [ReqID |-> r.ReqID, Payload |-> EncodeFrame(r.frame)]
          IN  Post("router", c, WithHeader(backtrace[c], EncodeEnvelope(reply)),
                   [pipe |-> <<PipeID[c]>>, env |-> <<reply>>, frame |-> <<r.frame>>])
    BY <1>3, ZenonT(30) DEF SendReply
  <2> DEFINE reply == [ReqID |-> r.ReqID, Payload |-> EncodeFrame(r.frame)]
  <2>3. /\ r.ReqID \in Bytes /\ Len(r.ReqID) <= MaxReqIDLen /\ r.ReqID # HeartbeatReqID
        /\ EncodeFrame(r.frame) \in Bytes /\ DecodeFrame(EncodeFrame(r.frame)) = <<r.frame>>
    BY LinkAssumption, FrameRoundTrip
  <2>4. Sendable(reply) /\ reply \in Envelope /\ FrameIn(reply) = <<r.frame>>
    BY <2>3 DEF Sendable, Envelope, FrameIn
  <2>5. mail' = Wire("router", c, reply, <<r.frame>>)
    BY <2>1, <2>2, Zenon DEF Post, Wire
  <2>6. backtrace' = backtrace
    BY <1>3 DEF SendReply
  <2> HIDE DEF reply
  <2> QED BY <2>4, <2>5, <2>6 DEF LinkInv, MailOK
<1>4. CASE WorkerRecv
  <2>1. PICK c \in Conn, e \in Jobs : mail = Wire("worker", c, e, << >>)
    BY <1>4 DEF WorkerRecv, LinkInv, MailOK, Wire
  <2> DEFINE got == Receive(<< >>, mail.data)
  <2>2. Sendable(e) /\ mail.data = WithHeader(backtraceToken, EncodeEnvelope(e)) /\ mail.conn = c
        /\ mail.meant = [pipe |-> <<PipeID[c]>>, env |-> <<e>>, frame |-> << >>]
    BY <2>1, LinkAssumption DEF Sendable, Wire
  <2>3. got = <<[Header |-> << >> \o backtraceToken, Body |-> EncodeEnvelope(e)]>> /\ BodyOf(got) = <<e>>
    BY <2>2, BodyArrives, ZenonT(30)
  <2>4. << >> \o backtraceToken = backtraceToken
    BY DEF backtraceToken
  <2>5. got[1].Header = backtraceToken
    BY <2>3, <2>4
  <2>6. mail' = [at |-> "read", asSent |-> ([pipe |-> <<PipeID[c]>>, env |-> BodyOf(got), frame |-> << >>] = mail.meant)]
    BY <1>4, <2>2 DEF WorkerRecv, Deliver
  <2>7. mail' = [at |-> "read", asSent |-> TRUE]
    BY <2>2, <2>3, <2>6, Zenon
  <2>8. backtrace' = backtrace \/ backtrace' = [backtrace EXCEPT ![c] = backtraceToken]
    BY <1>4, <2>2, <2>5 DEF WorkerRecv
  <2> QED BY <2>7, <2>8 DEF LinkInv, MailOK
<1>5. CASE RouterRecv
  <2>1. PICK c \in Conn, e \in Envelope : Sendable(e) /\ mail = Wire("router", c, e, FrameIn(e))
    BY <1>5 DEF RouterRecv, LinkInv, MailOK, Wire
  <2> DEFINE got == Receive(PutUint32(PipeID[c]), mail.data)
  <2>2. mail.data = WithHeader(backtraceToken, EncodeEnvelope(e)) /\ mail.conn = c
        /\ mail.meant = [pipe |-> <<PipeID[c]>>, env |-> <<e>>, frame |-> FrameIn(e)]
    BY <2>1 DEF Wire
  <2>3. /\ got = <<[Header |-> PutUint32(PipeID[c]) \o backtraceToken, Body |-> EncodeEnvelope(e)]>>
        /\ BodyOf(got) = <<e>>
    BY <2>1, <2>2, BodyArrives, ZenonT(30)
  <2>4. mail' = [at |-> "read", asSent |-> (Understood(got) = mail.meant)] /\ backtrace' = backtrace
    BY <1>5, <2>2 DEF RouterRecv, Deliver
  <2> HIDE DEF got
  <2>5. PipeFromHeader(got[1].Header) = <<PipeID[c]>>
    BY <2>3, PipeArrives, ZenonT(30)
  <2>6. <<e>> # Malformed /\ <<e>>[1] = e /\ Malformed = << >>
    BY DEF Malformed
  <2>7. Understood(got) = [pipe |-> <<PipeID[c]>>, env |-> <<e>>, frame |-> FrameIn(e)]
    BY <2>3, <2>5, <2>6, Zenon DEF Understood, FrameIn
  <2>8. mail' = [at |-> "read", asSent |-> TRUE]
    BY <2>2, <2>4, <2>7, Zenon
  <2> QED BY <2>4, <2>8, ZenonT(30) DEF LinkInv, MailOK
<1>6. CASE Lost
  BY <1>6 DEF Lost, LinkInv, MailOK
<1>7. CASE UNCHANGED <<mail, backtrace>>
  BY <1>7 DEF LinkInv, MailOK
<1> QED BY <1>1, <1>2, <1>3, <1>4, <1>5, <1>6, <1>7 DEF LinkNext, MessageStep, linkVars

(* Whatever is read is what was sent, with the pipe id of the connection   *)
(* it came by: for all pipe ids, all messages within the limits of the     *)
(* length fields and any number of connections (envelope.go:32-63,         *)
(* frame.go:41-78, socket.go:108-118, 188-229).                            *)
THEOREM MessagesArriveAsSent == LinkSpec => []ArrivesAsSent
<1>1. LinkInit => LinkInv
  BY DEF LinkInit, LinkInv, MailOK
<1>2. LinkInv => ArrivesAsSent
  BY DEF LinkInv, MailOK, ArrivesAsSent, Wire
<1> QED BY <1>1, <1>2, LinkInvStep, PTL DEF LinkSpec

-----------------------------------------------------------------------------
(* Induction over the naturals, for a property given as a set.             *)
LEMMA SetInduction ==
  ASSUME NEW S, 0 \in S, \A n \in Nat : n \in S => n + 1 \in S
  PROVE  Nat \subseteq S
<1> DEFINE T == {1 .. n : n \in Nat \ S}
<1> SUFFICES ASSUME T # {} PROVE FALSE
  OBVIOUS
<1>1. IsWellFoundedOn(StrictSubsetOrdering(Nat), FiniteSubsetsOf(Nat))
  BY FS_StrictSubsetOrderingWellFounded
<1>2. T \subseteq FiniteSubsetsOf(Nat)
  <2>1. \A n \in Nat : IsFiniteSet(1 .. n) /\ 1 .. n \subseteq Nat
    BY FS_Interval
  <2> QED BY <2>1 DEF FiniteSubsetsOf
<1>3. PICK t \in T : \A u \in T : <<u, t>> \notin StrictSubsetOrdering(Nat)
  <2> HIDE DEF T
  <2> QED BY <1>1, <1>2, WFMin
<1>4. PICK n \in Nat \ S : t = 1 .. n
  OBVIOUS
<1>5. n - 1 \in Nat \ S
  <2>1. n # 0 /\ n \in Nat
    OBVIOUS
  <2>2. n - 1 \in Nat /\ (n - 1) + 1 = n
    BY <2>1
  <2> QED BY <2>2
<1>6. 1 .. (n - 1) \in T /\ 1 .. (n - 1) # 1 .. n /\ 1 .. (n - 1) \subseteq 1 .. n
  <2>1. n \in 1 .. n /\ n \notin 1 .. (n - 1)
    BY <1>5
  <2> QED BY <1>5, <2>1
<1>7. <<1 .. (n - 1), 1 .. n>> \in StrictSubsetOrdering(Nat)
  BY <1>6, SMTT(30) DEF StrictSubsetOrdering
<1> QED BY <1>3, <1>4, <1>6, <1>7, ZenonT(30)

(* The recursion of Burnt has a solution, so Burnt is the sums it says.    *)
History == [0 .. Window -> Nat]
Sums(g, history, n) ==
  g = [i \in 0 .. n |-> IF i = 0 THEN history[0] ELSE g[i - 1] + history[i]]
LEMMA BurntSums ==
  ASSUME NEW history
  PROVE  /\ Burnt(history)[0] = history[0]
         /\ \A i \in 1 .. Window : Burnt(history)[i] = Burnt(history)[i - 1] + history[i]
<1> DEFINE S == {n \in Nat : \E g : Sums(g, history, n)}
<1>1. 0 \in S
  <2>1. Sums([i \in 0 .. 0 |-> history[0]], history, 0)
    BY DEF Sums
  <2> QED BY <2>1
<1>2. ASSUME NEW n \in Nat, n \in S PROVE n + 1 \in S
  <2>1. PICK g : Sums(g, history, n)
    BY <1>2
  <2> DEFINE h == [i \in 0 .. n + 1 |-> IF i = 0 THEN history[0] ELSE g[i - 1] + history[i]]
  <2>2. /\ \A i \in 0 .. n : h[i] = g[i] /\ i \in 0 .. n + 1
        /\ \A i \in 0 .. n + 1 : i = 0 \/ i - 1 \in 0 .. n
    BY <2>1 DEF Sums
  <2>3. /\ h = [i \in 0 .. n + 1 |-> h[i]]
        /\ \A i \in 0 .. n + 1 : h[i] = IF i = 0 THEN history[0] ELSE g[i - 1] + history[i]
    OBVIOUS
  <2> HIDE DEF h
  <2>4. \A i \in 0 .. n + 1 : h[i] = IF i = 0 THEN history[0] ELSE h[i - 1] + history[i]
    BY <2>2, <2>3, ZenonT(30)
  <2>5. Sums(h, history, n + 1)
    BY <2>3, <2>4, SMTT(30) DEF Sums
  <2> QED BY <2>5
<1>3. \E g : Sums(g, history, Window)
  <2>1. Nat \subseteq S
    <3> HIDE DEF S
    <3> QED BY <1>1, <1>2, SetInduction
  <2> QED BY <2>1, LimiterAssumption
<1>4. Sums(Burnt(history), history, Window)
  BY <1>3, ZenonT(30) DEF Sums, Burnt
<1> QED BY <1>4, LimiterAssumption DEF Sums

(* The sums are numbers, and contain what was verified last.               *)
LEMMA BurntGrows ==
  ASSUME NEW history \in History
  PROVE  \A n \in 0 .. Window : Burnt(history)[n] \in Nat /\ history[0] <= Burnt(history)[n]
<1> DEFINE S == {n \in Nat : n <= Window => Burnt(history)[n] \in Nat /\ history[0] <= Burnt(history)[n]}
<1> USE LimiterAssumption
<1>0. \A i \in 0 .. Window : history[i] \in Nat
  BY DEF History
<1>1. 0 \in S
  <2>1. history[0] \in Nat /\ Burnt(history)[0] = history[0]
    BY <1>0, BurntSums
  <2> QED BY <2>1
<1>2. ASSUME NEW n \in Nat, n \in S PROVE n + 1 \in S
  <2>1. CASE n + 1 <= Window
    <3>1. n + 1 \in 1 .. Window /\ (n + 1) - 1 = n /\ n + 1 \in 0 .. Window
      BY <2>1
    <3>2. Burnt(history)[n + 1] = Burnt(history)[n] + history[n + 1]
      BY <3>1, BurntSums
    <3>3. history[n + 1] \in Nat /\ history[0] \in Nat
      BY <1>0, <3>1
    <3> QED BY <1>2, <2>1, <3>2, <3>3
  <2> QED BY <2>1
<1>3. Nat \subseteq S
  <2> HIDE DEF S
  <2> QED BY <1>1, <1>2, SetInduction
<1> QED BY <1>3

(* Nothing verified adds up to nothing.                                    *)
LEMMA BurntOfNothing ==
  ASSUME NEW history, \A n \in 0 .. Window : history[n] = 0
  PROVE  Burnt(history)[Window] = 0
<1> DEFINE S == {n \in Nat : n <= Window => Burnt(history)[n] = 0}
<1> USE LimiterAssumption
<1>1. 0 \in S
  BY BurntSums
<1>2. ASSUME NEW n \in Nat, n \in S PROVE n + 1 \in S
  <2>1. CASE n + 1 <= Window
    <3>1. n + 1 \in 1 .. Window /\ (n + 1) - 1 = n /\ n + 1 \in 0 .. Window
      BY <2>1
    <3>2. Burnt(history)[n + 1] = Burnt(history)[n] + history[n + 1]
      BY <3>1, BurntSums
    <3> QED BY <1>2, <2>1, <3>1, <3>2
  <2> QED BY <2>1
<1>3. Nat \subseteq S
  <2> HIDE DEF S
  <2> QED BY <1>1, <1>2, SetInduction
<1> QED BY <1>3

(* One more verification now is one more in every span of time.            *)
LEMMA BurntNow ==
  ASSUME NEW old \in History, NEW new \in History,
         new[0] = old[0] + 1, \A i \in 1 .. Window : new[i] = old[i]
  PROVE  \A n \in 0 .. Window : Burnt(new)[n] = Burnt(old)[n] + 1
<1> DEFINE S == {n \in Nat : n <= Window => Burnt(new)[n] = Burnt(old)[n] + 1}
<1> USE LimiterAssumption DEF History
<1>1. 0 \in S
  BY BurntSums, ZenonT(30)
<1>2. ASSUME NEW n \in Nat, n \in S PROVE n + 1 \in S
  <2>1. CASE n + 1 <= Window
    <3>1. n + 1 \in 1 .. Window /\ (n + 1) - 1 = n /\ n \in 0 .. Window
      BY <2>1
    <3>2. /\ Burnt(new)[n + 1] = Burnt(new)[n] + new[n + 1]
          /\ Burnt(old)[n + 1] = Burnt(old)[n] + old[n + 1]
      BY <3>1, BurntSums, ZenonT(30)
    <3>3. new[n + 1] = old[n + 1] /\ old[n + 1] \in Nat
      BY <3>1
    <3>4. Burnt(old)[n] \in Nat /\ Burnt(new)[n] = Burnt(old)[n] + 1
      BY <1>2, <2>1, <3>1, BurntGrows
    <3>5. Burnt(new)[n + 1] = Burnt(old)[n + 1] + 1
      BY <3>2, <3>3, <3>4
    <3> QED BY <3>5
  <2> QED BY <2>1
<1>3. Nat \subseteq S
  <2> HIDE DEF S
  <2> QED BY <1>1, <1>2, SetInduction, ZenonT(30)
<1> QED BY <1>3

(* What was verified within n units is within n + 1 of them once time has  *)
(* passed.                                                                 *)
LEMMA BurntLater ==
  ASSUME NEW old \in History, NEW new \in History,
         new[0] = 0, \A i \in 1 .. Window : new[i] = old[i - 1]
  PROVE  \A n \in 0 .. Window - 1 : Burnt(new)[n + 1] = Burnt(old)[n]
<1> DEFINE S == {n \in Nat : n + 1 <= Window => Burnt(new)[n + 1] = Burnt(old)[n]}
<1> USE LimiterAssumption DEF History
<1>1. 0 \in S
  <2>1. 1 \in 1 .. Window /\ 1 - 1 = 0
    OBVIOUS
  <2>2. Burnt(new)[1] = 0 + old[0] /\ Burnt(old)[0] = old[0] /\ old[0] \in Nat
    BY <2>1, BurntSums
  <2> QED BY <2>2
<1>2. ASSUME NEW n \in Nat, n \in S PROVE n + 1 \in S
  <2>1. CASE n + 2 <= Window
    <3>1. /\ n + 2 \in 1 .. Window /\ (n + 2) - 1 = n + 1
          /\ n + 1 \in 1 .. Window /\ (n + 1) - 1 = n
      BY <2>1
    <3>2. /\ Burnt(new)[n + 2] = Burnt(new)[n + 1] + new[n + 2]
          /\ Burnt(old)[n + 1] = Burnt(old)[n] + old[n + 1] /\ new[n + 2] = old[n + 1]
      BY <3>1, BurntSums, ZenonT(30)
    <3>3. Burnt(new)[n + 1] = Burnt(old)[n]
      BY <1>2, <2>1
    <3>4. Burnt(new)[(n + 1) + 1] = Burnt(old)[n + 1]
      BY <3>2, <3>3
    <3> QED BY <3>4
  <2> QED BY <2>1
<1>3. Nat \subseteq S
  <2> HIDE DEF S
  <2> QED BY <1>1, <1>2, SetInduction, ZenonT(30)
<1> QED BY <1>3

(* The strengthening of BurnBounded.  What was verified since the bucket   *)
(* was opened is within its count and the limit; what was verified before  *)
(* and still counts was all verified in one earlier bucket, since that had *)
(* run for the whole window.                                               *)
BurnInv(ip) ==
  /\ Expired(ip) =>
       verified[ip][0] = 0 /\ Burnt(verified[ip])[Window] <= Limit
  /\ ~Expired(ip) =>
       /\ Burnt(verified[ip])[hits[ip].age] <= hits[ip].count
       /\ Burnt(verified[ip])[hits[ip].age] <= Limit
       /\ Burnt(verified[ip])[Window] <= Burnt(verified[ip])[hits[ip].age] + Limit
LimiterInv == LimiterTypeOK /\ \A ip \in IP : BurnInv(ip)

(* The counters and histories of one address, as the provers use them.     *)
LEMMA LimiterTypes ==
  ASSUME LimiterTypeOK, NEW ip \in IP
  PROVE  /\ verified[ip] \in History /\ \A n \in 0 .. Window : verified[ip][n] \in 0 .. Limit
         /\ \A n \in 0 .. Window : Burnt(verified[ip])[n] \in Nat
         /\ Burnt(verified[ip])[Window - 1] <= Burnt(verified[ip])[Window]
         /\ ~Expired(ip) => /\ ip \in DOMAIN hits /\ hits[ip].count \in 1 .. Limit + 1
                            /\ hits[ip].age \in 0 .. Window
<1> USE LimiterAssumption
<1>1. verified[ip] \in History /\ \A n \in 0 .. Window : verified[ip][n] \in 0 .. Limit
  BY DEF LimiterTypeOK, History
<1>2. \A n \in 0 .. Window : Burnt(verified[ip])[n] \in Nat
  BY <1>1, BurntGrows
<1>3. Burnt(verified[ip])[Window - 1] <= Burnt(verified[ip])[Window]
  <2>1. /\ Window \in 1 .. Window /\ Window \in 0 .. Window /\ Window - 1 \in 0 .. Window
    OBVIOUS
  <2>2. Burnt(verified[ip])[Window] = Burnt(verified[ip])[Window - 1] + verified[ip][Window]
    BY <2>1, BurntSums
  <2>3. Burnt(verified[ip])[Window - 1] \in Nat /\ verified[ip][Window] \in Nat
    BY <1>1, <1>2, <2>1
  <2> QED BY <2>2, <2>3
<1>4. ASSUME ~Expired(ip)
      PROVE  /\ ip \in DOMAIN hits /\ hits[ip].count \in 1 .. Limit + 1
             /\ hits[ip].age \in 0 .. Window
  BY <1>4 DEF Expired, LimiterTypeOK, Bucket
<1> QED BY <1>1, <1>2, <1>3, <1>4

(* An attempt keeps the throttle's invariant for its own address.          *)
LEMMA AllowKeepsBound ==
  ASSUME LimiterTypeOK, NEW ip \in IP, BurnInv(ip), Allow(ip)
  PROVE  /\ BurnInv(ip)' /\ Counted(ip) \in Bucket
         /\ verified'[ip] \in [0 .. Window -> 0 .. Limit]
<1> USE LimiterAssumption
<1> DEFINE old == verified[ip]
           new == verified'[ip]
           b == Counted(ip)
<1>1. /\ old \in History /\ \A n \in 0 .. Window : old[n] \in 0 .. Limit
      /\ \A n \in 0 .. Window : Burnt(old)[n] \in Nat
      /\ 0 \in 0 .. Window /\ Window \in 0 .. Window
  BY LimiterTypes
<1>2. ip \in DOMAIN hits' /\ hits'[ip] = b
  BY DEF Allow
<1>3. CASE b.count <= Limit
  <2>1. /\ new = [old EXCEPT ![0] = @ + 1]
    BY <1>3 DEF Allow, Admitted, LimiterTypeOK
  <2>2. /\ new \in History /\ new[0] = old[0] + 1 /\ \A i \in 1 .. Window : new[i] = old[i]
    BY <1>1, <2>1 DEF History
  <2>3. \A n \in 0 .. Window : Burnt(new)[n] = Burnt(old)[n] + 1 /\ new[0] <= Burnt(new)[n]
    BY <1>1, <2>2, BurntNow, BurntGrows
  <2>4. /\ b \in Bucket /\ b.age \in 0 .. Window
        /\ Burnt(new)[b.age] <= b.count /\ Burnt(new)[b.age] <= Limit
        /\ Burnt(new)[Window] <= Burnt(new)[b.age] + Limit
    <3>1. CASE Expired(ip)
      <4>1. b = [count |-> 1, age |-> 0] /\ old[0] = 0 /\ Burnt(old)[Window] <= Limit
        BY <3>1 DEF Counted, BurnInv
      <4>2. b.count = 1 /\ b.age = 0 /\ b \in Bucket
        BY <4>1 DEF Bucket
      <4>3. Burnt(old)[0] = 0 /\ Burnt(new)[0] = 1 /\ Burnt(new)[Window] = Burnt(old)[Window] + 1
        BY <1>1, <2>3, <4>1, BurntSums
      <4> QED BY <1>1, <4>1, <4>2, <4>3
    <3>2. CASE ~Expired(ip)
      <4>1. /\ hits[ip].count \in 1 .. Limit + 1 /\ hits[ip].age \in 0 .. Window /\ hits[ip] \in Bucket
            /\ b = [hits[ip] EXCEPT !.count = AtMost(Limit + 1, @ + 1)]
        BY <3>2, LimiterTypes DEF Counted, LimiterTypeOK
      <4>2. /\ b \in Bucket /\ b.age = hits[ip].age /\ b.count = hits[ip].count + 1
        BY <1>3, <4>1 DEF Bucket, AtMost
      <4>3. /\ Burnt(old)[b.age] <= hits[ip].count
            /\ Burnt(old)[Window] <= Burnt(old)[b.age] + Limit
        BY <3>2, <4>2 DEF BurnInv
      <4>4. Burnt(new)[b.age] = Burnt(old)[b.age] + 1 /\ Burnt(new)[Window] = Burnt(old)[Window] + 1
        BY <1>1, <2>3, <4>1, <4>2
      <4>5. Burnt(old)[b.age] \in Nat /\ Burnt(old)[Window] \in Nat
        BY <1>1, <4>1, <4>2
      <4> QED BY <1>3, <4>1, <4>2, <4>3, <4>4, <4>5
    <3> QED BY <3>1, <3>2
  <2>5. new \in [0 .. Window -> 0 .. Limit]
    <3>1. new[0] <= Limit
      BY <1>1, <2>2, <2>3, <2>4
    <3> QED BY <1>1, <2>1, <2>2, <3>1 DEF History
  <2>6. ~Expired(ip)'
    BY <1>2, <2>4 DEF Expired
  <2> QED BY <1>2, <2>4, <2>5, <2>6 DEF BurnInv
<1>4. CASE ~(b.count <= Limit)
  <2>1. ~Expired(ip)
    BY <1>4 DEF Counted
  <2>2. /\ hits[ip].count \in 1 .. Limit + 1 /\ hits[ip].age \in 0 .. Window /\ hits[ip] \in Bucket
        /\ b = [hits[ip] EXCEPT !.count = AtMost(Limit + 1, @ + 1)]
    BY <2>1, LimiterTypes DEF Counted, LimiterTypeOK
  <2>3. /\ b \in Bucket /\ b.age = hits[ip].age /\ b.count >= hits[ip].count
    BY <2>2 DEF Bucket, AtMost
  <2>4. new = old
    BY <1>4 DEF Allow, Admitted
  <2>5. ~Expired(ip)'
    BY <1>2, <2>2, <2>3 DEF Expired
  <2>6. /\ Burnt(old)[b.age] <= b.count /\ Burnt(old)[b.age] <= Limit
        /\ Burnt(old)[Window] <= Burnt(old)[b.age] + Limit
    BY <1>1, <2>1, <2>2, <2>3 DEF BurnInv, Bucket
  <2> QED BY <1>2, <2>3, <2>4, <2>5, <2>6 DEF BurnInv, LimiterTypeOK
<1> QED BY <1>3, <1>4

(* So does the passing of time, for every address.                         *)
LEMMA TickKeepsBound ==
  ASSUME LimiterTypeOK, NEW ip \in IP, BurnInv(ip), LimiterTick
  PROVE  BurnInv(ip)' /\ verified'[ip] \in [0 .. Window -> 0 .. Limit]
<1> USE LimiterAssumption
<1> DEFINE old == verified[ip]
           new == verified'[ip]
<1>1. /\ old \in History /\ \A n \in 0 .. Window : old[n] \in 0 .. Limit
      /\ \A n \in 0 .. Window : Burnt(old)[n] \in Nat
      /\ Burnt(old)[Window - 1] <= Burnt(old)[Window]
      /\ Window \in 0 .. Window /\ Window - 1 \in 0 .. Window
  BY LimiterTypes
<1>2. new = [age \in 0 .. Window |-> IF age = 0 THEN 0 ELSE old[age - 1]]
  BY DEF LimiterTick
<1>3. /\ new \in [0 .. Window -> 0 .. Limit] /\ new \in History
      /\ new[0] = 0 /\ \A i \in 1 .. Window : new[i] = old[i - 1]
  BY <1>1, <1>2, SMTT(30) DEF History
<1>4. \A n \in 0 .. Window - 1 : Burnt(new)[n + 1] = Burnt(old)[n]
  BY <1>1, <1>3, BurntLater, ZenonT(30)
<1>5. Burnt(new)[Window] = Burnt(old)[Window - 1]
  BY <1>4
<1> HIDE DEF old, new
<1>6. CASE Expired(ip)
  <2>1. Expired(ip)'
    BY <1>6 DEF Expired, LimiterTick, LimiterTypeOK, Bucket, AtMost
  <2>2. Burnt(new)[Window] <= Limit
    BY <1>1, <1>5, <1>6 DEF BurnInv, old
  <2> QED BY <1>3, <2>1, <2>2 DEF BurnInv, new
<1>7. CASE ~Expired(ip)
  <2>1. /\ ip \in DOMAIN hits /\ hits[ip].count \in 1 .. Limit + 1 /\ hits[ip].age \in 0 .. Window
        /\ hits[ip] \in Bucket
    BY <1>7, LimiterTypes DEF LimiterTypeOK
  <2>2. /\ ip \in DOMAIN hits' /\ hits'[ip].count = hits[ip].count
        /\ hits'[ip].age = hits[ip].age + 1
    BY <2>1 DEF LimiterTick, Bucket, AtMost
  <2>3. /\ Burnt(old)[hits[ip].age] <= hits[ip].count /\ Burnt(old)[hits[ip].age] <= Limit
        /\ Burnt(old)[Window] <= Burnt(old)[hits[ip].age] + Limit
    BY <1>7 DEF BurnInv, old
  <2>4. CASE hits[ip].age = Window
    <3>1. Expired(ip)'
      BY <2>2, <2>4 DEF Expired
    <3>2. Burnt(new)[Window] <= Limit
      BY <1>1, <1>5, <2>3, <2>4, SMTT(30)
    <3> QED BY <1>3, <3>1, <3>2 DEF BurnInv, new
  <2>5. CASE hits[ip].age # Window
    <3>1. ~Expired(ip)'
      BY <2>1, <2>2, <2>5 DEF Expired
    <3>2. Burnt(new)[hits'[ip].age] = Burnt(old)[hits[ip].age] /\ Burnt(old)[hits[ip].age] \in Nat
      BY <1>1, <1>4, <2>1, <2>2, <2>5
    <3>3. Burnt(new)[Window] <= Burnt(new)[hits'[ip].age] + Limit
      BY <1>1, <1>5, <2>3, <3>2
    <3> QED BY <1>3, <2>2, <2>3, <3>1, <3>2, <3>3 DEF BurnInv, new
  <2> QED BY <2>4, <2>5
<1> QED BY <1>3, <1>6, <1>7 DEF new

(* Every step keeps the throttle's invariant.                              *)
LEMMA LimiterPreserved == ASSUME LimiterInv, [LimiterNext]_limiterVars PROVE LimiterInv'
<1> USE LimiterAssumption DEF LimiterInv
<1>1. ASSUME NEW ip \in IP, Allow(ip) PROVE LimiterInv'
  <2>1. BurnInv(ip)' /\ Counted(ip) \in Bucket /\ verified'[ip] \in [0 .. Window -> 0 .. Limit]
    BY <1>1, AllowKeepsBound
  <2>2. LimiterTypeOK'
    <3>1. DOMAIN hits' \subseteq IP /\ hits' \in [DOMAIN hits' -> Bucket]
      BY <1>1, <2>1 DEF Allow, LimiterTypeOK
    <3>2. verified' \in [IP -> [0 .. Window -> 0 .. Limit]]
      <4>1. verified' = [verified EXCEPT ![ip] = verified'[ip]]
        BY <1>1, ZenonT(30) DEF Allow, LimiterTypeOK
      <4> QED BY <2>1, <4>1, ZenonT(30) DEF LimiterTypeOK
    <3> QED BY <3>1, <3>2 DEF LimiterTypeOK
  <2>3. ASSUME NEW x \in IP, x # ip PROVE BurnInv(x)'
    <3>1. verified'[x] = verified[x] /\ (x \in DOMAIN hits' <=> x \in DOMAIN hits)
          /\ (x \in DOMAIN hits => hits'[x] = hits[x])
      BY <1>1, <2>3 DEF Allow, LimiterTypeOK
    <3>2. BurnInv(x)
      OBVIOUS
    <3> QED BY <3>1, <3>2 DEF BurnInv, Expired
  <2> QED BY <2>1, <2>2, <2>3
<1>2. CASE LimiterTick
  <2>1. \A ip \in IP : BurnInv(ip)' /\ verified'[ip] \in [0 .. Window -> 0 .. Limit]
    BY <1>2, TickKeepsBound
  <2>2. DOMAIN hits' \subseteq IP /\ hits' \in [DOMAIN hits' -> Bucket]
    <3>1. /\ DOMAIN hits' = DOMAIN hits
          /\ hits' = [ip \in DOMAIN hits |-> [hits[ip] EXCEPT !.age = AtMost(Window + 1, @ + 1)]]
      BY <1>2 DEF LimiterTick
    <3>2. \A b \in Bucket : [b EXCEPT !.age = AtMost(Window + 1, @ + 1)] \in Bucket
      BY DEF Bucket, AtMost
    <3> QED BY <3>1, <3>2 DEF LimiterTypeOK
  <2>3. verified' \in [IP -> [0 .. Window -> 0 .. Limit]]
    BY <1>2, <2>1 DEF LimiterTick
  <2> QED BY <2>1, <2>2, <2>3 DEF LimiterTypeOK
<1>3. CASE UNCHANGED limiterVars
  BY <1>3 DEF limiterVars, LimiterTypeOK, BurnInv, Expired
<1> QED BY <1>1, <1>2, <1>3 DEF LimiterNext

(* However attempts are spread over the windows, no span of a window's     *)
(* length sees more than twice the limit of keys verified for one address  *)
(* (Allow, limiter.go:31-45).                                              *)
THEOREM VerificationsAreBounded == LimiterSafetySpec => []BurnBounded
<1>1. newLoginLimiter => LimiterInv
  <2> SUFFICES ASSUME newLoginLimiter PROVE LimiterInv
    OBVIOUS
  <2>1. LimiterTypeOK
    BY LimiterAssumption DEF newLoginLimiter, LimiterTypeOK
  <2>2. ASSUME NEW ip \in IP PROVE BurnInv(ip)
    <3>1. Expired(ip) /\ \A n \in 0 .. Window : verified[ip][n] = 0
      BY DEF newLoginLimiter, Expired
    <3>2. Burnt(verified[ip])[Window] <= Limit
      BY <3>1, BurntOfNothing, LimiterAssumption
    <3> QED BY <3>1, <3>2, LimiterAssumption DEF BurnInv
  <2> QED BY <2>1, <2>2 DEF LimiterInv
<1>2. LimiterInv => BurnBounded
  <2> SUFFICES ASSUME LimiterInv, NEW ip \in IP PROVE Burnt(verified[ip])[Window] <= 2 * Limit
    BY DEF BurnBounded, LimiterInv
  <2>1. /\ \A n \in 0 .. Window : Burnt(verified[ip])[n] \in Nat
        /\ ~Expired(ip) => hits[ip].age \in 0 .. Window
    BY LimiterTypes DEF LimiterInv
  <2> QED BY <2>1, LimiterAssumption DEF LimiterInv, BurnInv
<1> QED BY <1>1, <1>2, LimiterPreserved, PTL DEF LimiterSafetySpec
=============================================================================
