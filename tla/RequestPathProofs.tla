-------------------------- MODULE RequestPathProofs -------------------------
(***************************************************************************)
(* Proofs about RequestPath, for any number of requests, workers and       *)
(* chunks, any capacity of the channels and any number of faults.          *)
(*                                                                         *)
(* All that is said of a request concerns its own handler, channel, job    *)
(* and frames, so the invariant is RouterProofs' ReqOK of every request,   *)
(* and WholeOK of those nothing was lost of.                               *)
(***************************************************************************)
EXTENDS RequestPath, RouterProofs

(* The invariant: what holds of every request.  A request is whole while   *)
(* nothing of it was lost and its handler has not recorded 502.            *)
Sound(r) == ReqOK(phase[r], channel[r], reply[r], audits[r], job[r], read[r], wire[r])
Whole(r) ==
  r \notin damaged /\ audits[r] # <<502>> =>
    WholeOK(phase[r], channel[r], reply[r], job[r], read[r], wire[r])
Mapped(f) == f = [r \in Req |-> f[r]]
Shape == Mapped(phase) /\ Mapped(channel) /\ Mapped(reply) /\ Mapped(audits)
         /\ Mapped(job) /\ Mapped(read) /\ Mapped(wire)
Requests ==
  /\ Shape /\ damaged \subseteq Req
  /\ sessions = {r \in Req : phase[r] \in {"stored", "waiting"}}
  /\ \A r \in Req : Sound(r) /\ Whole(r)

(* A step that concerns one request.                                       *)
Becomes(r, ph, ch, rep, aud, jb, rd, wr) ==
  /\ phase' = [phase EXCEPT ![r] = ph] /\ channel' = [channel EXCEPT ![r] = ch]
  /\ reply' = [reply EXCEPT ![r] = rep] /\ audits' = [audits EXCEPT ![r] = aud]
  /\ job' = [job EXCEPT ![r] = jb] /\ read' = [read EXCEPT ![r] = rd]
  /\ wire' = [wire EXCEPT ![r] = wr]
  /\ damaged \subseteq damaged' /\ damaged' \subseteq damaged \cup {r}
  /\ sessions' = IF ph \in {"stored", "waiting"} THEN sessions \cup {r} ELSE sessions \ {r}

(* It keeps what is said of the requests if it does so for this one.       *)
LEMMA LocalStep ==
  ASSUME Requests, NEW r \in Req,
         NEW ph, NEW ch, NEW rep, NEW aud, NEW jb, NEW rd, NEW wr,
         Becomes(r, ph, ch, rep, aud, jb, rd, wr),
         ReqOK(ph, ch, rep, aud, jb, rd, wr),
         r \notin damaged' /\ aud # << 502 >> => WholeOK(ph, ch, rep, jb, rd, wr)
  PROVE  Requests'
<1>1. Shape'
  BY ZenonT(30) DEF Becomes, Requests, Shape, Mapped
<1>2. /\ phase'[r] = ph /\ channel'[r] = ch /\ reply'[r] = rep /\ audits'[r] = aud
      /\ job'[r] = jb /\ read'[r] = rd /\ wire'[r] = wr
  BY DEF Becomes, Requests, Shape, Mapped
<1>3. \A q \in Req \ {r} :
        /\ phase'[q] = phase[q] /\ channel'[q] = channel[q] /\ reply'[q] = reply[q]
        /\ audits'[q] = audits[q] /\ job'[q] = job[q] /\ read'[q] = read[q] /\ wire'[q] = wire[q]
  BY ZenonT(30) DEF Becomes, Requests, Shape, Mapped
<1>4. \A q \in Req : Sound(q)'
  BY <1>2, <1>3 DEF Requests, Sound
<1>5. \A q \in Req : Whole(q)'
  BY <1>2, <1>3 DEF Requests, Whole, Becomes
<1>6. sessions' = {q \in Req : phase'[q] \in {"stored", "waiting"}}
  BY <1>2, <1>3 DEF Requests, Becomes
<1>7. damaged' \subseteq Req
  BY DEF Requests, Becomes
<1> QED BY <1>1, <1>4, <1>5, <1>6, <1>7 DEF Requests

(* The parts of a request, for steps that leave most of them alone.        *)
LEMMA Unchanged ==
  ASSUME NEW f, Mapped(f), NEW r \in Req
  PROVE  f = [f EXCEPT ![r] = f[r]]
BY DEF Mapped

(* The parts of one request before a step.                                 *)
LEMMA Parts ==
  ASSUME Requests, NEW r \in Req
  PROVE  /\ phase = [phase EXCEPT ![r] = phase[r]] /\ channel = [channel EXCEPT ![r] = channel[r]]
         /\ reply = [reply EXCEPT ![r] = reply[r]] /\ audits = [audits EXCEPT ![r] = audits[r]]
         /\ job = [job EXCEPT ![r] = job[r]] /\ read = [read EXCEPT ![r] = read[r]]
         /\ wire = [wire EXCEPT ![r] = wire[r]]
         /\ ReqOK(phase[r], channel[r], reply[r], audits[r], job[r], read[r], wire[r])
         /\ r \notin damaged /\ audits[r] # <<502>> =>
              WholeOK(phase[r], channel[r], reply[r], job[r], read[r], wire[r])
         /\ (r \in sessions <=> phase[r] \in {"stored", "waiting"})
         /\ (r \in sessions => sessions = sessions \cup {r})
         /\ (r \notin sessions => sessions = sessions \ {r})
BY Unchanged DEF Requests, Shape, Sound, Whole

(* Up to its dispatch nothing of a request is under way.                   *)
LEMMA EarlyOK ==
  ASSUME NEW ph, NEW ch, NEW rep, NEW aud, NEW jb, NEW rd, NEW wr, NEW q \in Phase \ {"answered"},
         ph \in Before, ReqOK(ph, ch, rep, aud, jb, rd, wr)
  PROVE  /\ ReqOK(q, ch, rep, aud, jb, rd, wr)
         /\ WholeOK(q, ch, rep, jb, rd, wr)
         /\ q = "waiting" => ReqOK(q, ch, rep, aud, "sent", rd, wr) /\ WholeOK(q, ch, rep, "sent", rd, wr)
<1>1. /\ jb = "none" /\ rd = 0 /\ ch = << >> /\ wr = << >> /\ rep = << >> /\ aud = << >>
      /\ InOrder(rep, ch, wr, rd)
  BY DEF ReqOK, Before
<1>2. \A j \in {"none", "sent"} : q = "waiting" \/ j = "none" => ReqOK(q, ch, rep, aud, j, rd, wr)
  BY <1>1 DEF ReqOK, Phase, Before
<1>3. \A j \in {"none", "sent"} : q = "waiting" \/ j = "none" => WholeOK(q, ch, rep, j, rd, wr)
  BY <1>1 DEF WholeOK, Places
<1> QED BY <1>1, <1>2, <1>3

-----------------------------------------------------------------------------
(* The steps of a handler before it waits.                                 *)
LEMMA EarlyStep ==
  ASSUME Requests, NEW r \in Req,
         Unauthorized(r) \/ Select(r) \/ Store(r) \/ Dispatch(r) \/ DispatchFails(r)
  PROVE  Requests'
<1> DEFINE q == phase'[r]
<1>1. phase[r] \in Before /\ q \in Phase \ {"answered"} /\ phase' = [phase EXCEPT ![r] = q]
  <2>1. \A x : [phase EXCEPT ![r] = x][r] = x
    BY DEF Requests, Shape, Mapped
  <2> QED BY <2>1 DEF Unauthorized, Select, Store, Dispatch, DispatchFails, Goto, Before, Phase
<1>2. sessions' = IF q \in {"stored", "waiting"} THEN sessions \cup {r} ELSE sessions \ {r}
  <2>1. \A x : [phase EXCEPT ![r] = x][r] = x
    BY DEF Requests, Shape, Mapped
  <2> QED BY <2>1, Parts, ZenonT(30) DEF Unauthorized, Select, Store, Dispatch, DispatchFails, Goto, AfterFailedSend
<1>3. UNCHANGED <<channel, reply, audits, read, wire>>
  BY DEF Unauthorized, Select, Store, Dispatch, DispatchFails, jobVars
<1>4. /\ damaged \subseteq damaged' /\ damaged' \subseteq damaged \cup {r}
      /\ job' = job \/ (q = "waiting" /\ job' = [job EXCEPT ![r] = "sent"])
  <2>1. \A x : [phase EXCEPT ![r] = x][r] = x
    BY DEF Requests, Shape, Mapped
  <2> QED BY <2>1 DEF Unauthorized, Select, Store, Dispatch, DispatchFails, Goto, jobVars
<1> HIDE DEF q
<1>5. CASE job' = job
  <2>1. /\ ReqOK(q, channel[r], reply[r], audits[r], job[r], read[r], wire[r])
        /\ WholeOK(q, channel[r], reply[r], job[r], read[r], wire[r])
    BY <1>1, Parts, EarlyOK
  <2>2. /\ channel' = [channel EXCEPT ![r] = channel[r]] /\ reply' = [reply EXCEPT ![r] = reply[r]]
        /\ audits' = [audits EXCEPT ![r] = audits[r]] /\ job' = [job EXCEPT ![r] = job[r]]
        /\ read' = [read EXCEPT ![r] = read[r]] /\ wire' = [wire EXCEPT ![r] = wire[r]]
    BY <1>3, <1>5, Parts
  <2>b. Becomes(r, q, channel[r], reply[r], audits[r], job[r], read[r], wire[r])
    BY <1>1, <1>2, <1>4, <2>2 DEF Becomes
  <2> QED BY <2>1, <2>b, LocalStep, Zenon
<1>6. CASE q = "waiting" /\ job' = [job EXCEPT ![r] = "sent"]
  <2>1. /\ ReqOK(q, channel[r], reply[r], audits[r], "sent", read[r], wire[r])
        /\ WholeOK(q, channel[r], reply[r], "sent", read[r], wire[r])
    BY <1>1, <1>6, Parts, EarlyOK, ZenonT(30)
  <2>2. /\ channel' = [channel EXCEPT ![r] = channel[r]] /\ reply' = [reply EXCEPT ![r] = reply[r]]
        /\ audits' = [audits EXCEPT ![r] = audits[r]]
        /\ read' = [read EXCEPT ![r] = read[r]] /\ wire' = [wire EXCEPT ![r] = wire[r]]
    BY <1>3, Parts
  <2>b. Becomes(r, q, channel[r], reply[r], audits[r], "sent", read[r], wire[r])
    BY <1>1, <1>2, <1>4, <1>6, <2>2 DEF Becomes
  <2> QED BY <2>1, <2>b, LocalStep, Zenon
<1> QED BY <1>4, <1>5, <1>6

(* The steps of a job.                                                     *)
LEMMA JobStepOK ==
  ASSUME Requests, NEW r \in Req, JobStep(r) \/ ProxyFails(r)
  PROVE  Requests'
<1>1. /\ phase' = [phase EXCEPT ![r] = phase[r]] /\ channel' = [channel EXCEPT ![r] = channel[r]]
      /\ reply' = [reply EXCEPT ![r] = reply[r]] /\ audits' = [audits EXCEPT ![r] = audits[r]]
      /\ damaged' = damaged
      /\ sessions' = IF phase[r] \in {"stored", "waiting"} THEN sessions \cup {r} ELSE sessions \ {r}
  BY Parts DEF JobStep, StartJob, Read, ProxyFails, handlerVars
<1>2. CASE StartJob(r)
  <2>1. /\ job[r] = "sent" /\ job' = [job EXCEPT ![r] = "running"]
        /\ read' = [read EXCEPT ![r] = read[r]] /\ wire' = [wire EXCEPT ![r] = wire[r]]
    BY <1>2, Parts DEF StartJob
  <2>2. /\ ReqOK(phase[r], channel[r], reply[r], audits[r], "running", read[r], wire[r])
        /\ r \notin damaged' /\ audits[r] # <<502>> =>
             WholeOK(phase[r], channel[r], reply[r], "running", read[r], wire[r])
    BY <1>1, <2>1, Parts, StartOK
  <2>b. Becomes(r, phase[r], channel[r], reply[r], audits[r], "running", read[r], wire[r])
    BY <1>1, <2>1 DEF Becomes
  <2> QED BY <2>2, <2>b, LocalStep, Zenon
<1>3. CASE ProxyFails(r)
  <2> DEFINE w == Append(wire[r], Error)
  <2>1. job[r] = "running" /\ job' = [job EXCEPT ![r] = "none"] /\ read' = [read EXCEPT ![r] = read[r]]
    BY <1>3, Parts DEF ProxyFails
  <2>2. /\ ReqOK(phase[r], channel[r], reply[r], audits[r], "none", read[r], w)
        /\ r \notin damaged' /\ audits[r] # <<502>> =>
             WholeOK(phase[r], channel[r], reply[r], "none", read[r], w)
    BY <1>1, <2>1, Parts, SendEndOK
  <2>3. wire[r] \in Seq(Frame) /\ Error \in Frame
    <3>1. Error \in Frame
      BY FramesAssumption DEF Error, Frame
    <3> QED BY <3>1, Parts DEF ReqOK
  <2>4. wire[r] \o <<Error>> = w
    BY <2>3, SendTogether
  <2>5. wire' = [wire EXCEPT ![r] = w]
    BY <1>3, <2>4, ZenonT(30) DEF ProxyFails, SendFrames
  <2>b. Becomes(r, phase[r], channel[r], reply[r], audits[r], "none", read[r], w)
    BY <1>1, <2>1, <2>5 DEF Becomes
  <2> QED BY <2>2, <2>b, LocalStep, Zenon
<1>4. CASE Read(r)
  <2>1. PICK n \in {0, 1}, err \in {"nil", "EOF", "error"} :
          /\ read[r] + n <= MaxChunks
          /\ read' = [read EXCEPT ![r] = @ + n]
          /\ SendFrames(r, FramesOf(IF n = 1 THEN <<Chunk(read[r] + 1)>> ELSE << >>, err))
          /\ job' = [job EXCEPT ![r] = IF err = "nil" THEN @ ELSE "none"]
    BY <1>4, ZenonT(30) DEF Read
  <2> DEFINE w == wire[r] \o FramesOf(IF n = 1 THEN <<Chunk(read[r] + 1)>> ELSE << >>, err)
             j == IF err = "nil" THEN "running" ELSE "none"
  <2>2. job[r] = "running"
    BY <1>4 DEF Read
  <2>3. /\ read' = [read EXCEPT ![r] = read[r] + n] /\ wire' = [wire EXCEPT ![r] = w]
        /\ job' = [job EXCEPT ![r] = j]
    BY <2>1, <2>2 DEF SendFrames
  <2>w. w = wire[r] \o FramesOf(IF n = 1 THEN <<Chunk(read[r] + 1)>> ELSE << >>, err)
    OBVIOUS
  <2>j. j = IF err = "nil" THEN "running" ELSE "none"
    OBVIOUS
  <2> HIDE DEF w, j
  <2>r. ReqOK(phase[r], channel[r], reply[r], audits[r], "running", read[r], wire[r])
    BY <2>2, Parts
  <2>4. /\ ReqOK(phase[r], channel[r], reply[r], audits[r], j, read[r] + n, w)
        /\ WholeOK(phase[r], channel[r], reply[r], "running", read[r], wire[r]) =>
             WholeOK(phase[r], channel[r], reply[r], j, read[r] + n, w)
    BY <2>1, <2>w, <2>j, <2>r, ReadOK, ZenonT(30)
  <2>5. r \notin damaged' /\ audits[r] # <<502>> =>
             WholeOK(phase[r], channel[r], reply[r], j, read[r] + n, w)
    BY <1>1, <2>2, <2>4, Parts
  <2>b. Becomes(r, phase[r], channel[r], reply[r], audits[r], j, read[r] + n, w)
    BY <1>1, <2>3 DEF Becomes
  <2> QED BY <2>4, <2>5, <2>b, LocalStep, Zenon
<1> QED BY <1>2, <1>3, <1>4 DEF JobStep

(* recvLoop's step.                                                        *)
LEMMA ReceiveStep ==
  ASSUME Requests, NEW r \in Req, ReceiveFrame(r)
  PROVE  Requests'
<1>1. /\ phase' = [phase EXCEPT ![r] = phase[r]]
      /\ reply' = [reply EXCEPT ![r] = reply[r]] /\ audits' = [audits EXCEPT ![r] = audits[r]]
      /\ job' = [job EXCEPT ![r] = job[r]] /\ read' = [read EXCEPT ![r] = read[r]]
      /\ wire' = [wire EXCEPT ![r] = Tail(wire[r])] /\ wire[r] # << >>
      /\ sessions' = IF phase[r] \in {"stored", "waiting"} THEN sessions \cup {r} ELSE sessions \ {r}
  BY Parts DEF ReceiveFrame
<1>2. phase[r] \notin Before /\ ReqOK(phase[r], channel[r], reply[r], audits[r], job[r], read[r], wire[r])
  BY <1>1, Parts DEF ReqOK
<1>3. CASE r \in sessions /\ Room(r)
  <2>1. /\ channel' = [channel EXCEPT ![r] = Append(channel[r], Head(wire[r]))] /\ damaged' = damaged
        /\ phase[r] = "waiting" /\ Len(channel[r]) < BufferSize
    BY <1>2, <1>3, Parts DEF ReceiveFrame, Room, Before
  <2>2. /\ ReqOK(phase[r], Append(channel[r], Head(wire[r])), reply[r], audits[r], job[r], read[r], Tail(wire[r]))
        /\ r \notin damaged' /\ audits[r] # <<502>> =>
             WholeOK(phase[r], Append(channel[r], Head(wire[r])), reply[r], job[r], read[r], Tail(wire[r]))
    BY <1>1, <1>2, <2>1, Parts, ReceiveOK, ZenonT(30)
  <2>b. Becomes(r, phase[r], Append(channel[r], Head(wire[r])), reply[r], audits[r], job[r], read[r], Tail(wire[r]))
    BY <1>1, <2>1 DEF Becomes
  <2> QED BY <2>2, <2>b, LocalStep, Zenon
<1>4. CASE ~(r \in sessions /\ Room(r))
  <2>1. /\ channel' = [channel EXCEPT ![r] = channel[r]]
        /\ damaged \subseteq damaged' /\ damaged' \subseteq damaged \cup {r}
        /\ r \notin damaged' => r \notin damaged /\ r \notin sessions
    BY <1>4, Parts DEF ReceiveFrame
  <2>2. ReqOK(phase[r], channel[r], reply[r], audits[r], job[r], read[r], Tail(wire[r]))
    BY <1>1, <1>2, ReceiveOK
  <2>3. r \notin damaged' /\ audits[r] # <<502>> =>
             WholeOK(phase[r], channel[r], reply[r], job[r], read[r], Tail(wire[r]))
    BY <1>1, <2>1, Parts, ZenonT(30) DEF WholeOK
  <2>b. Becomes(r, phase[r], channel[r], reply[r], audits[r], job[r], read[r], Tail(wire[r]))
    BY <1>1, <2>1 DEF Becomes
  <2> QED BY <2>2, <2>3, <2>b, LocalStep, Zenon
<1> QED BY <1>3, <1>4

(* A round of the handler's frame loop, case by case: what it does to its  *)
(* request, as the proofs below need it.                                   *)
LEMMA HandleCases ==
  ASSUME Requests, NEW r \in Req, HandleFrame(r)
  PROVE  /\ phase[r] = "waiting" /\ audits[r] = << >> /\ channel[r] # << >>
         /\ channel' = [channel EXCEPT ![r] = Tail(channel[r])]
         /\ UNCHANGED <<job, read, wire, damaged>>
         /\ \/ /\ IsChunk(Head(channel[r]))
               /\ reply' = [reply EXCEPT ![r] = Append(reply[r], Head(channel[r]).n)]
               /\ \/ UNCHANGED <<phase, audits, sessions>>
                  \/ /\ phase' = [phase EXCEPT ![r] = "answered"]
                     /\ audits' = [audits EXCEPT ![r] = <<502>>] /\ sessions' = sessions \ {r}
            \/ /\ ~IsChunk(Head(channel[r])) /\ reply' = reply
               /\ phase' = [phase EXCEPT ![r] = "answered"] /\ sessions' = sessions \ {r}
               /\ \E aud \in {<<200>>, <<502>>} : audits' = [audits EXCEPT ![r] = aud]
<1> DEFINE f == Head(channel[r])
<1>1. /\ phase[r] = "waiting" /\ channel[r] # << >>
      /\ channel' = [channel EXCEPT ![r] = Tail(channel[r])]
      /\ UNCHANGED <<job, read, wire, damaged>>
  BY DEF HandleFrame, jobVars
<1>2. audits[r] = << >>
  <2>1. ReqOK(phase[r], channel[r], reply[r], audits[r], job[r], read[r], wire[r])
    BY Parts
  <2> QED BY <1>1, <2>1 DEF ReqOK
<1>3. f.type \in {"chunk", "eof", "error"}
  <2>1. channel[r] \in Seq(Frame)
    BY Parts DEF ReqOK
  <2>2. f \in Frame
    BY <1>1, <2>1
  <2> QED BY <2>2 DEF Frame
<1>4. PICK lost \in IF f.type = "chunk" /\ r \in streamed \cap gone THEN BOOLEAN ELSE {FALSE} :
        /\ reply' = [reply EXCEPT ![r] = IF f.type = "chunk" THEN Append(@, f.n) ELSE @]
        /\ audits' = [audits EXCEPT ![r] = @ \o Outcome(f, lost)]
        /\ IF Returns(f, lost)
           THEN Goto(r, "answered") /\ sessions' = sessions \ {r}
           ELSE UNCHANGED <<phase, sessions>>
  BY ZenonT(30) DEF HandleFrame
<1>5. << >> \o << >> = << >> /\ << >> \o <<200>> = <<200>> /\ << >> \o <<502>> = <<502>>
  OBVIOUS
<1>6. /\ reply = [reply EXCEPT ![r] = reply[r]] /\ audits = [audits EXCEPT ![r] = << >>]
  BY <1>2, Parts
<1>7. reply' = IF f.type = "chunk" THEN [reply EXCEPT ![r] = Append(reply[r], f.n)] ELSE reply
  BY <1>4, <1>6, ZenonT(30)
<1>8. audits' = [audits EXCEPT ![r] = << >> \o Outcome(f, lost)]
  BY <1>2, <1>4
<1> HIDE DEF f
<1>9. CASE f.type = "chunk" /\ lost
  <2>1. Outcome(f, lost) = <<502>> /\ Returns(f, lost)
    BY <1>9 DEF Outcome, Returns
  <2>2. audits' = [audits EXCEPT ![r] = <<502>>]
    BY <1>5, <1>8, <2>1
  <2> QED BY <1>1, <1>2, <1>4, <1>7, <1>9, <2>1, <2>2, ZenonT(30) DEF IsChunk, Goto, f
<1>10. CASE f.type = "chunk" /\ ~lost
  <2>1. Outcome(f, lost) = << >> /\ ~Returns(f, lost)
    BY <1>10 DEF Outcome, Returns
  <2>2. audits' = audits
    BY <1>5, <1>6, <1>8, <2>1
  <2> QED BY <1>1, <1>2, <1>4, <1>7, <1>10, <2>1, <2>2 DEF IsChunk, f
<1>11. CASE f.type = "eof"
  <2>1. Outcome(f, lost) = <<200>> /\ Returns(f, lost)
    BY <1>11 DEF Outcome, Returns
  <2>2. audits' = [audits EXCEPT ![r] = <<200>>]
    BY <1>5, <1>8, <2>1
  <2> QED BY <1>1, <1>2, <1>4, <1>7, <1>11, <2>1, <2>2, ZenonT(30) DEF IsChunk, Goto, f
<1>12. CASE f.type = "error"
  <2>1. Outcome(f, lost) = <<502>> /\ Returns(f, lost)
    BY <1>12 DEF Outcome, Returns
  <2>2. audits' = [audits EXCEPT ![r] = <<502>>]
    BY <1>5, <1>8, <2>1
  <2> QED BY <1>1, <1>2, <1>4, <1>7, <1>12, <2>1, <2>2, ZenonT(30) DEF IsChunk, Goto, f
<1> QED BY <1>3, <1>9, <1>10, <1>11, <1>12

(* A round of the frame loop keeps what is said of its request.            *)
LEMMA HandleStep ==
  ASSUME Requests, NEW r \in Req, HandleFrame(r)
  PROVE  Requests'
<1>1. /\ phase[r] = "waiting" /\ audits[r] = << >> /\ channel[r] # << >>
      /\ channel' = [channel EXCEPT ![r] = Tail(channel[r])] /\ damaged' = damaged
      /\ job' = [job EXCEPT ![r] = job[r]] /\ read' = [read EXCEPT ![r] = read[r]]
      /\ wire' = [wire EXCEPT ![r] = wire[r]]
  BY HandleCases, Parts
<1>2. /\ ReqOK("waiting", channel[r], reply[r], << >>, job[r], read[r], wire[r])
      /\ r \notin damaged => WholeOK("waiting", channel[r], reply[r], job[r], read[r], wire[r])
      /\ r \in sessions
  BY <1>1, Parts, SMTT(30)
<1> DEFINE t == Append(reply[r], Head(channel[r]).n)
<1>3. CASE IsChunk(Head(channel[r])) /\ UNCHANGED <<phase, audits, sessions>>
  <2>1. /\ phase' = [phase EXCEPT ![r] = "waiting"] /\ audits' = [audits EXCEPT ![r] = << >>]
        /\ reply' = [reply EXCEPT ![r] = t] /\ sessions' = sessions \cup {r}
    <3>1. phase' = phase /\ audits' = audits /\ sessions' = sessions
      BY <1>3
    <3>2. reply' = [reply EXCEPT ![r] = t]
      BY <1>3, HandleCases
    <3> HIDE DEF t
    <3> QED BY <1>1, <1>2, <3>1, <3>2, Parts
  <2>2. /\ ReqOK("waiting", Tail(channel[r]), t, << >>, job[r], read[r], wire[r])
        /\ r \notin damaged' => WholeOK("waiting", Tail(channel[r]), t, job[r], read[r], wire[r])
    BY <1>1, <1>2, <1>3, HandleChunkOK
  <2> HIDE DEF t
  <2>b. Becomes(r, "waiting", Tail(channel[r]), t, << >>, job[r], read[r], wire[r])
    BY <1>1, <2>1 DEF Becomes
  <2> QED BY <2>2, <2>b, LocalStep, Zenon
<1>4. CASE IsChunk(Head(channel[r])) /\ ~UNCHANGED <<phase, audits, sessions>>
  <2>1. /\ phase' = [phase EXCEPT ![r] = "answered"] /\ audits' = [audits EXCEPT ![r] = <<502>>]
        /\ reply' = [reply EXCEPT ![r] = t] /\ sessions' = sessions \ {r}
    BY <1>4, HandleCases
  <2>2. ReqOK("answered", Tail(channel[r]), t, <<502>>, job[r], read[r], wire[r])
    BY <1>1, <1>2, <1>4, HandleChunkOK
  <2> HIDE DEF t
  <2>b. Becomes(r, "answered", Tail(channel[r]), t, <<502>>, job[r], read[r], wire[r])
    BY <1>1, <2>1 DEF Becomes
  <2> QED BY <2>2, <2>b, LocalStep, Zenon
<1>5. CASE ~IsChunk(Head(channel[r]))
  <2>1. PICK aud \in {<<200>>, <<502>>} : audits' = [audits EXCEPT ![r] = aud]
    BY <1>5, HandleCases
  <2>2. /\ phase' = [phase EXCEPT ![r] = "answered"] /\ reply' = [reply EXCEPT ![r] = reply[r]]
        /\ sessions' = sessions \ {r}
    BY <1>5, HandleCases, Parts
  <2>3. /\ ReqOK("answered", Tail(channel[r]), reply[r], aud, job[r], read[r], wire[r])
        /\ r \notin damaged' => WholeOK("answered", Tail(channel[r]), reply[r], job[r], read[r], wire[r])
    BY <1>1, <1>2, <1>5, HandleEndOK
  <2>4. r \notin damaged' /\ aud # <<502>> =>
          WholeOK("answered", Tail(channel[r]), reply[r], job[r], read[r], wire[r])
    BY <2>3
  <2>b. Becomes(r, "answered", Tail(channel[r]), reply[r], aud, job[r], read[r], wire[r])
    BY <1>1, <2>1, <2>2 DEF Becomes
  <2> QED BY <2>3, <2>4, <2>b, LocalStep, Zenon
<1> QED BY <1>3, <1>4, <1>5

(* A break or a crash touches the jobs and frames of one worker, and marks *)
(* every request of which it takes something.                              *)
LEMMA LossStep ==
  ASSUME Requests, NEW w \in Node, Disconnect(w) \/ Crash(w)
  PROVE  /\ UNCHANGED <<phase, channel, reply, audits, read, sessions>>
         /\ Mapped(job)' /\ Mapped(wire)' /\ damaged \subseteq damaged' /\ damaged' \subseteq Req
         /\ \A r \in Req :
              /\ job'[r] \in {job[r], "none"}
              /\ wire'[r] \in Survivors(wire[r]) \/ wire'[r] = << >> \/ wire'[r] = wire[r]
              /\ r \notin damaged' => job'[r] = job[r] /\ wire'[r] = wire[r]
              /\ r \in damaged' => r \in damaged \/ job[r] # "none" \/ wire[r] # << >>
<1>1. UNCHANGED <<phase, channel, reply, audits, read, sessions>> /\ damaged \subseteq Req
  BY DEF Disconnect, Crash, handlerVars, Requests
<1>2. CASE Crash(w)
  BY <1>1, <1>2 DEF Crash, JobsOf, Mapped
<1>3. CASE Disconnect(w)
  <2>1. PICK kept \in [Req -> UNION {Survivors(wire[r]) : r \in Req}] :
          /\ \A r \in Req : IF pick[r].id = w
                            THEN kept[r] \in Survivors(wire[r])
                            ELSE kept[r] = wire[r]
          /\ wire' = kept
          /\ damaged' = damaged \cup {r \in Req : kept[r] # wire[r]}
                                \cup {r \in JobsOf(w) : job[r] = "sent"}
    BY <1>3 DEF Disconnect
  <2>2. job' = [r \in Req |-> IF pick[r].id = w /\ job[r] = "sent" THEN "none" ELSE job[r]]
    BY <1>3 DEF Disconnect
  <2>3. \A r \in Req : wire[r] \in Seq(Frame)
    BY Parts DEF ReqOK
  <2>4. \A r \in Req : wire[r] = << >> => kept[r] = << >>
    BY <2>1, <2>3, SurvivorsRise
  <2>5. Mapped(job)' /\ Mapped(wire)'
    BY <2>1, <2>2 DEF Mapped
  <2>6. damaged \subseteq damaged' /\ damaged' \subseteq Req
    BY <1>1, <2>1 DEF JobsOf
  <2> QED BY <1>1, <2>1, <2>2, <2>4, <2>5, <2>6 DEF JobsOf
<1> QED BY <1>2, <1>3

(* They keep what is said of every request.                                *)
LEMMA LossOK ==
  ASSUME Requests, NEW w \in Node, Disconnect(w) \/ Crash(w)
  PROVE  Requests'
<1>1. Shape'
  BY LossStep DEF Requests, Shape, Mapped
<1>2. ASSUME NEW r \in Req PROVE Sound(r)'
  BY LossStep, Parts, CutOK DEF Sound
<1>3. ASSUME NEW r \in Req PROVE Whole(r)'
  BY LossStep, Parts DEF Whole
<1> QED BY <1>1, <1>2, <1>3, LossStep DEF Requests

-----------------------------------------------------------------------------
(* Every step keeps what is said of every request.                         *)
LEMMA RequestsPreserved ==
  ASSUME Requests, [PathNext]_pathVars
  PROVE  Requests'
<1>1. ASSUME NEW r \in Req, HandlerStep(r) \/ JobStep(r) \/ ReceiveFrame(r)
                           \/ Unauthorized(r) \/ DispatchFails(r) \/ ProxyFails(r)
      PROVE  Requests'
  BY <1>1, EarlyStep, JobStepOK, ReceiveStep, HandleStep DEF HandlerStep
<1>2. ASSUME NEW w \in Node, Disconnect(w) \/ Crash(w) PROVE Requests'
  BY <1>2, LossOK
<1>3. ASSUME UNCHANGED <<phase, channel, reply, audits, job, read, wire, damaged, sessions>>
      PROVE  Requests'
  BY <1>3 DEF Requests, Shape, Mapped, Sound, Whole
<1>4. ASSUME NEW r \in Req, ClientLeaves(r) PROVE Requests'
  BY <1>3, <1>4 DEF ClientLeaves, jobVars
<1>5. ASSUME NEW w \in Node, Connect(w) \/ Heartbeat(w) PROVE Requests'
  BY <1>3, <1>5 DEF Connect, Heartbeat, handlerVars, jobVars
<1>6. ASSUME PathTick \/ Terminate \/ recvLoopReturns \/ Shutdown \/ UNCHANGED pathVars
      PROVE  Requests'
  BY <1>3, <1>6 DEF PathTick, Terminate, recvLoopReturns, Shutdown, pathVars, handlerVars, jobVars
<1> QED BY <1>1, <1>2, <1>4, <1>5, <1>6 DEF PathNext

(* Initially nothing is under way.                                         *)
LEMMA RequestsInitially == ASSUME PathInit PROVE Requests
<1>1. Shape /\ damaged \subseteq Req /\ sessions = {r \in Req : phase[r] \in {"stored", "waiting"}}
  BY DEF PathInit, Shape, Mapped
<1>2. ReqOK("new", << >>, << >>, << >>, "none", 0, << >>)
  BY FramesAssumption DEF ReqOK, InOrder, Rising, After, UpTo, Phase
<1>3. WholeOK("new", << >>, << >>, "none", 0, << >>)
  BY DEF WholeOK, Places
<1>4. \A r \in Req : Sound(r) /\ Whole(r)
  BY <1>2, <1>3 DEF PathInit, Sound, Whole
<1> QED BY <1>1, <1>4 DEF Requests

(* The invariant of the requests is inductive.                             *)
LEMMA RequestsAlways == PathSafetySpec => []Requests
BY RequestsInitially, RequestsPreserved, PTL DEF PathSafetySpec

(* A recorded 200 stands for the whole answer of the engine, in order,     *)
(* unless something of it was lost (daemon.go:309-325,                     *)
(* server.go:179-189, 304-315).                                            *)
THEOREM AnswersAreComplete == PathSafetySpec => []CompleteUnlessDamaged
<1>1. Requests => CompleteUnlessDamaged
  <2> SUFFICES ASSUME Requests, NEW r \in Req, audits[r] = << 200 >>, r \notin damaged
               PROVE  reply[r] = [i \in 1 .. read[r] |-> i]
    BY DEF CompleteUnlessDamaged
  <2>1. <<200>> # <<502>> /\ <<200>> # << >>
    <3>1. <<200>>[1] # <<502>>[1]
      OBVIOUS
    <3> QED BY <3>1
  <2>2. Sound(r) /\ WholeOK(phase[r], channel[r], reply[r], job[r], read[r], wire[r])
    BY <2>1 DEF Requests, Whole
  <2>3. phase[r] = "answered"
    <3>1. phase[r] # "answered" => audits[r] = << >>
      BY <2>2 DEF Sound, ReqOK
    <3> QED BY <2>1, <3>1
  <2>4. /\ reply[r] \in Seq(1 .. MaxChunks) /\ read[r] \in Nat
        /\ Len(reply[r]) \in Nat /\ DOMAIN reply[r] = 1 .. Len(reply[r])
        /\ \A k \in DOMAIN reply[r] : reply[r][k] = k /\ reply[r][k] \in 1 .. read[r]
    <3>1. /\ reply[r] \in Seq(1 .. MaxChunks) /\ read[r] \in 0 .. MaxChunks
          /\ \A k \in DOMAIN reply[r] : reply[r][k] = k /\ reply[r][k] \in 1 .. read[r]
      BY <2>2, ZenonT(30) DEF Sound, ReqOK, InOrder, WholeOK
    <3>2. /\ read[r] \in Nat /\ Len(reply[r]) \in Nat
          /\ DOMAIN reply[r] = 1 .. Len(reply[r])
      BY <3>1, FramesAssumption
    <3> QED BY <3>1, <3>2, Zenon
  <2>5. Len(reply[r]) + 0 + 0 \in {read[r], read[r] + 1}
    BY <2>2, <2>3, ZenonT(30) DEF WholeOK
  <2>6. Len(reply[r]) = read[r]
    BY <2>4, <2>5
  <2> QED BY <2>4, <2>6
<1> QED BY <1>1, RequestsAlways, PTL

-----------------------------------------------------------------------------
(* The values the service's variables have in the request path.            *)
StatusIn(ph) ==
  CASE ph \in {"new", "selected", "stored"} -> "new"
    [] ph = "waiting" -> "open"
    [] OTHER -> "closed"
Statuses == [r \in Req |-> Status(r)]
OutcomeIn(ph, aud) == IF ph = "refused" THEN <<503>> ELSE aud
Outcomes == [r \in Req |-> IF phase[r] = "refused" THEN <<503>> ELSE audits[r]]

(* What a step of one handler is to the service.                           *)
LEMMA Mapping ==
  ASSUME NEW r \in Req, \A q \in Req \ {r} : phase'[q] = phase[q] /\ audits'[q] = audits[q]
  PROVE  /\ Statuses' = [Statuses EXCEPT ![r] = StatusIn(phase'[r])]
         /\ Outcomes' = [Outcomes EXCEPT ![r] = OutcomeIn(phase'[r], audits'[r])]
<1>1. Statuses = [q \in Req |-> StatusIn(phase[q])] /\ Statuses' = [q \in Req |-> StatusIn(phase'[q])]
  BY DEF Statuses, Status, StatusIn
<1>2. /\ Outcomes = [q \in Req |-> OutcomeIn(phase[q], audits[q])]
      /\ Outcomes' = [q \in Req |-> OutcomeIn(phase'[q], audits'[q])]
  BY DEF Outcomes, OutcomeIn
<1>3. Statuses' = [Statuses EXCEPT ![r] = StatusIn(phase'[r])]
  BY <1>1
<1>4. Outcomes' = [Outcomes EXCEPT ![r] = OutcomeIn(phase'[r], audits'[r])]
  BY <1>2
<1> QED BY <1>3, <1>4

(* The refusals and the dispatch.                                          *)
LEMMA EarlyRefines ==
  ASSUME Requests, NEW r \in Req,
         Unauthorized(r) \/ Select(r) \/ Store(r) \/ Dispatch(r) \/ DispatchFails(r)
  PROVE  [Service!ServiceNext]_Service!serviceVars
<1>1. UNCHANGED <<read, reply, audits>> /\ phase[r] \in {"new", "selected", "stored"}
  BY DEF Unauthorized, Select, Store, Dispatch, DispatchFails, jobVars
<1>2. audits' = [audits EXCEPT ![r] = << >>] /\ audits[r] = << >>
  <2>1. audits[r] = << >>
    BY <1>1, Parts DEF ReqOK
  <2> QED BY <1>1, <2>1, Parts
<1>3. Statuses[r] = "new" /\ Outcomes[r] = << >> /\ Statuses = [Statuses EXCEPT ![r] = "new"]
      /\ Outcomes = [Outcomes EXCEPT ![r] = << >>]
  BY <1>1, <1>2, ZenonT(30) DEF Statuses, Status, Outcomes
<1>4. /\ \A x : phase' = [phase EXCEPT ![r] = x] => phase'[r] = x
      /\ \A q \in Req \ {r} : phase'[q] = phase[q] /\ audits'[q] = audits[q]
  BY <1>1 DEF Unauthorized, Select, Store, Dispatch, DispatchFails, Goto, Requests, Shape, Mapped
<1>5. /\ Statuses' = [Statuses EXCEPT ![r] = StatusIn(phase'[r])]
      /\ Outcomes' = [Outcomes EXCEPT ![r] = OutcomeIn(phase'[r], << >>)]
  BY <1>1, <1>2, <1>4, Mapping
<1>6. CASE phase' = [phase EXCEPT ![r] = "refused"] /\ damaged' = damaged
  <2>1. phase'[r] = "refused"
    BY <1>4, <1>6, ZenonT(30)
  <2>2. Statuses' = [Statuses EXCEPT ![r] = "closed"] /\ Outcomes' = [Outcomes EXCEPT ![r] = <<503>>]
    BY <1>5, <2>1, SMTT(30) DEF StatusIn, OutcomeIn
  <2>3. Service!RefuseRequest(r)
    BY <1>1, <1>3, <1>6, <2>2 DEF Service!RefuseRequest, Service!Close, Statuses, Outcomes
  <2> QED BY <2>3 DEF Service!ServiceNext
<1>7. CASE phase' = [phase EXCEPT ![r] = "waiting"] /\ damaged' \in {damaged, damaged \cup {r}}
  <2>1. phase'[r] = "waiting"
    BY <1>4, <1>7, ZenonT(30)
  <2>2. Statuses' = [Statuses EXCEPT ![r] = "open"] /\ Outcomes' = Outcomes
    BY <1>3, <1>5, <2>1 DEF StatusIn, OutcomeIn
  <2>3. Service!Open(r)
    BY <1>1, <1>3, <1>7, <2>2 DEF Service!Open, Statuses, Outcomes
  <2> QED BY <2>3 DEF Service!ServiceNext
<1>8. CASE phase' \in {[phase EXCEPT ![r] = "selected"], [phase EXCEPT ![r] = "stored"]} /\ damaged' = damaged
  <2>1. phase'[r] \in {"selected", "stored"}
    BY <1>4, <1>8
  <2>2. StatusIn(phase'[r]) = "new" /\ OutcomeIn(phase'[r], << >>) = << >>
    BY <2>1 DEF StatusIn, OutcomeIn
  <2>3. Statuses' = Statuses /\ Outcomes' = Outcomes
    BY <1>3, <1>5, <2>2
  <2> QED BY <1>1, <1>8, <2>3 DEF Service!serviceVars, Statuses, Outcomes
<1> QED BY <1>6, <1>7, <1>8, SMTT(30) DEF Unauthorized, Select, Store, Dispatch, DispatchFails, Goto

(* A round of the frame loop passes a chunk on or finishes.                *)
LEMMA HandleRefines ==
  ASSUME Requests, NEW r \in Req, HandleFrame(r)
  PROVE  [Service!ServiceNext]_Service!serviceVars
<1>1. /\ phase[r] = "waiting" /\ audits[r] = << >> /\ channel[r] # << >>
      /\ read' = read /\ damaged' = damaged
  BY HandleCases
<1>2. /\ ReqOK("waiting", channel[r], reply[r], << >>, job[r], read[r], wire[r])
      /\ r \notin damaged => WholeOK("waiting", channel[r], reply[r], job[r], read[r], wire[r])
      /\ phase = [phase EXCEPT ![r] = "waiting"] /\ audits = [audits EXCEPT ![r] = << >>]
  BY <1>1, Parts
<1>3. Statuses[r] = "open"
  BY <1>1 DEF Statuses, Status
<1> DEFINE n == Head(channel[r]).n
<1>4. ASSUME IsChunk(Head(channel[r]))
      PROVE  /\ n \in 1 .. read[r] /\ \A i \in 1 .. Len(reply[r]) : reply[r][i] < n
             /\ r \notin damaged => n = Len(reply[r]) + 1
  <2>1. /\ channel[r] \in Seq(Frame) /\ InOrder(reply[r], channel[r], wire[r], read[r])
        /\ Len(reply[r]) \in Nat /\ DOMAIN reply[r] = 1 .. Len(reply[r])
    BY <1>2 DEF ReqOK
  <2>2. /\ \A m : UpTo(channel[r], m) => n \in 1 .. m
        /\ \A x : After(x, channel[r]) => x < n
        /\ \A a \in Nat : \A m : Places(channel[r], a, m) => Place(Head(channel[r]), a + 1, m)
    BY <1>1, <1>4, <2>1, TailRises
  <2>3. r \notin damaged => Places(channel[r], Len(reply[r]), read[r])
    BY <1>2, SMTT(30) DEF WholeOK
  <2>4. r \notin damaged => Place(Head(channel[r]), Len(reply[r]) + 1, read[r])
    BY <2>1, <2>2, <2>3
  <2>5. r \notin damaged => n = Len(reply[r]) + 1
    BY <1>4, <2>4 DEF Place
  <2> HIDE DEF n
  <2> QED BY <2>1, <2>2, <2>5 DEF InOrder
<1>5. CASE IsChunk(Head(channel[r])) /\ UNCHANGED <<phase, audits, sessions>>
  <2>1. Statuses' = Statuses /\ Outcomes' = Outcomes
    BY <1>5 DEF Statuses, Status, Outcomes
  <2>2. reply' = [reply EXCEPT ![r] = Append(reply[r], n)]
    BY <1>5, HandleCases
  <2>3. Service!PassOn(r)
    BY <1>1, <1>3, <1>4, <1>5, <2>1, <2>2, ZenonT(30) DEF Service!PassOn, Statuses, Outcomes
  <2> QED BY <2>3 DEF Service!ServiceNext
<1>6. CASE IsChunk(Head(channel[r])) /\ ~UNCHANGED <<phase, audits, sessions>>
  <2>1. /\ reply' = [reply EXCEPT ![r] = Append(reply[r], n)]
        /\ phase' = [phase EXCEPT ![r] = "answered"] /\ audits' = [audits EXCEPT ![r] = <<502>>]
    BY <1>6, HandleCases
  <2>3. Statuses' = [Statuses EXCEPT ![r] = "closed"] /\ Outcomes' = [Outcomes EXCEPT ![r] = <<502>>]
    <3>1. phase'[r] = "answered" /\ audits'[r] = <<502>>
      BY <2>1 DEF Requests, Shape, Mapped
    <3>2. \A q \in Req \ {r} : phase'[q] = phase[q] /\ audits'[q] = audits[q]
      BY <2>1 DEF Requests, Shape, Mapped
    <3> QED BY <3>1, <3>2, Mapping, SMTT(30) DEF StatusIn, OutcomeIn
  <2>4. Service!PassOn(r)
    BY <1>1, <1>3, <1>4, <1>6, <2>1, <2>3, ZenonT(30) DEF Service!PassOn, Service!Close, Statuses, Outcomes
  <2> QED BY <2>4 DEF Service!ServiceNext
<1>7. CASE ~IsChunk(Head(channel[r]))
  <2>1. PICK aud \in {<<200>>, <<502>>} : audits' = [audits EXCEPT ![r] = aud]
    BY <1>7, HandleCases
  <2>2. reply' = reply /\ phase' = [phase EXCEPT ![r] = "answered"]
    BY <1>7, HandleCases
  <2>4. Statuses' = [Statuses EXCEPT ![r] = "closed"] /\ Outcomes' = [Outcomes EXCEPT ![r] = aud]
    <3>1. phase'[r] = "answered" /\ audits'[r] = aud
      BY <2>1, <2>2 DEF Requests, Shape, Mapped
    <3>2. \A q \in Req \ {r} : phase'[q] = phase[q] /\ audits'[q] = audits[q]
      BY <2>1, <2>2 DEF Requests, Shape, Mapped
    <3> QED BY <3>1, <3>2, Mapping, SMTT(30) DEF StatusIn, OutcomeIn
  <2>5. r \in damaged \/ Len(reply[r]) = read[r]
    <3>1. /\ ReqOK("waiting", channel[r], reply[r], << >>, job[r], read[r], wire[r])
          /\ channel[r] # << >> /\ ~IsChunk(Head(channel[r]))
      BY <1>1, <1>2, <1>7
    <3>2. WholeOK("waiting", channel[r], reply[r], job[r], read[r], wire[r]) => Len(reply[r]) = read[r]
      BY <3>1, HandleEndOK, SMTT(30)
    <3> QED BY <1>2, <3>2
  <2>6. Service!Finish(r)
    BY <1>1, <1>3, <2>1, <2>2, <2>4, <2>5, ZenonT(30) DEF Service!Finish, Service!Close, Statuses, Outcomes
  <2> QED BY <2>6 DEF Service!ServiceNext
<1> QED BY <1>5, <1>6, <1>7

(* A read of the engine is the service's Produce, or nothing to it.        *)
LEMMA JobRefines ==
  ASSUME Requests, NEW r \in Req, JobStep(r) \/ ProxyFails(r)
  PROVE  [Service!ServiceNext]_Service!serviceVars
<1>1. UNCHANGED <<phase, audits, reply, damaged>> /\ job[r] # "none"
  BY DEF JobStep, StartJob, Read, ProxyFails, handlerVars
<1>2. Statuses' = Statuses /\ Outcomes' = Outcomes
  BY <1>1 DEF Statuses, Status, Outcomes
<1>3. CASE read' = read
  BY <1>1, <1>2, <1>3 DEF Service!serviceVars, Statuses, Outcomes
<1>4. CASE read' = [read EXCEPT ![r] = @ + 1]
  <2>1. phase[r] \notin Before
    BY <1>1, Parts DEF ReqOK
  <2>2. Statuses[r] # "new"
    BY <2>1 DEF Statuses, Status, Before
  <2>3. Service!Produce(r)
    BY <1>1, <1>2, <1>4, <2>2 DEF Service!Produce, Statuses, Outcomes
  <2> QED BY <2>3 DEF Service!ServiceNext
<1>5. CASE Read(r)
  <2>1. PICK n \in {0, 1} : read' = [read EXCEPT ![r] = @ + n]
    BY <1>5, ZenonT(30) DEF Read
  <2>2. read[r] \in Nat /\ read = [read EXCEPT ![r] = read[r]]
    BY Parts, FramesAssumption DEF ReqOK
  <2>3. n = 0 => read' = read
    BY <2>1, <2>2
  <2> QED BY <1>3, <1>4, <2>1, <2>3, ZenonT(30)
<1> QED BY <1>3, <1>5 DEF JobStep, StartJob, ProxyFails

(* Losing something of requests that are under way.                        *)
LEMMA LossRefines ==
  ASSUME UNCHANGED <<phase, audits, reply, read>>, damaged \subseteq damaged', damaged' \subseteq Req,
         \A r \in Req : r \in damaged' /\ r \notin damaged => phase[r] \notin Before
  PROVE  [Service!ServiceNext]_Service!serviceVars
<1>1. Statuses' = Statuses /\ Outcomes' = Outcomes
  BY DEF Statuses, Status, Outcomes
<1> DEFINE rs == damaged' \ damaged
<1>2. rs \in SUBSET {r \in Req : Statuses[r] # "new"}
  BY DEF Statuses, Status, Before
<1>3. damaged' = damaged \cup rs
  OBVIOUS
<1> HIDE DEF rs
<1>4. Service!Lose
  BY <1>1, <1>2, <1>3 DEF Service!Lose, Statuses, Outcomes
<1> QED BY <1>4 DEF Service!ServiceNext

(* The request path implements RequestService.                             *)
THEOREM PathImplementsService == PathSafetySpec => ImplementsService
<1>1. PathInit => Service!ServiceInit
  BY DEF PathInit, Service!ServiceInit, Status
<1>2. Requests /\ [PathNext]_pathVars => [Service!ServiceNext]_Service!serviceVars
  <2> SUFFICES ASSUME Requests, [PathNext]_pathVars
               PROVE  [Service!ServiceNext]_Service!serviceVars
    OBVIOUS
  <2>1. ASSUME NEW r \in Req, HandlerStep(r) \/ JobStep(r) \/ Unauthorized(r) \/ DispatchFails(r) \/ ProxyFails(r)
        PROVE  [Service!ServiceNext]_Service!serviceVars
    BY <2>1, EarlyRefines, HandleRefines, JobRefines DEF HandlerStep
  <2>2. ASSUME NEW r \in Req, ReceiveFrame(r)
        PROVE  [Service!ServiceNext]_Service!serviceVars
    <3>1. /\ UNCHANGED <<phase, audits, reply, read>> /\ damaged \subseteq damaged'
          /\ damaged' \subseteq damaged \cup {r} /\ wire[r] # << >>
      BY <2>2 DEF ReceiveFrame
    <3>2. phase[r] \notin Before /\ damaged \subseteq Req
      BY <3>1, Parts DEF ReqOK, Requests
    <3> QED BY <3>1, <3>2, LossRefines
  <2>3. ASSUME NEW w \in Node, Disconnect(w) \/ Crash(w)
        PROVE  [Service!ServiceNext]_Service!serviceVars
    <3>1. \A r \in Req : job[r] # "none" \/ wire[r] # << >> => phase[r] \notin Before
      BY Parts DEF ReqOK
    <3> QED BY <2>3, <3>1, LossStep, LossRefines
  <2>4. ASSUME UNCHANGED <<phase, audits, reply, read, damaged>>
        PROVE  [Service!ServiceNext]_Service!serviceVars
    <3>1. Statuses' = Statuses /\ Outcomes' = Outcomes
      BY <2>4, Zenon DEF Statuses, Status, Outcomes
    <3> QED BY <2>4, <3>1, Zenon DEF Service!serviceVars, Statuses, Outcomes
  <2>5. ASSUME NEW r \in Req, ClientLeaves(r)
        PROVE  [Service!ServiceNext]_Service!serviceVars
    BY <2>4, <2>5 DEF ClientLeaves, jobVars
  <2>6. ASSUME NEW w \in Node, Connect(w) \/ Heartbeat(w)
        PROVE  [Service!ServiceNext]_Service!serviceVars
    BY <2>4, <2>6 DEF Connect, Heartbeat, handlerVars, jobVars
  <2>7. ASSUME PathTick \/ Terminate \/ recvLoopReturns \/ Shutdown \/ UNCHANGED pathVars
        PROVE  [Service!ServiceNext]_Service!serviceVars
    BY <2>4, <2>7 DEF PathTick, Terminate, recvLoopReturns, Shutdown, pathVars, handlerVars, jobVars
  <2> QED BY <2>1, <2>2, <2>3, <2>5, <2>6, <2>7 DEF PathNext
<1> QED BY <1>1, <1>2, RequestsAlways, PTL DEF PathSafetySpec, ImplementsService, Service!ServiceSpec
=============================================================================
