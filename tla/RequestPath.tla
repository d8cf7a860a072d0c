---------------------------- MODULE RequestPath -----------------------------
(***************************************************************************)
(* A chat completion from ingress to answer: handleChatCompletions,        *)
(* streamResponse and bufferedResponse with the frame side of recvLoop     *)
(* (internal/router/server.go), and handleJob (internal/worker/daemon.go). *)
(*                                                                         *)
(* One goroutine per request on the router, one per job on the worker, and *)
(* recvLoop between them.  A request has at most one job, so a job goes by *)
(* the name of its request.  A chunk is its number in the engine's answer. *)
(*                                                                         *)
(* Fleet models how heartbeats come in; here an accepted one is one step   *)
(* that tells the registry the worker's present pipe and load.  The mesh   *)
(* is external, as in Fleet: a job sent to a pipe that is gone is dropped  *)
(* without an error, and a break loses what is under way.                  *)
(***************************************************************************)
EXTENDS NodeRegistry, Frames

CONSTANTS
  Req,            \* client requests
  NoPipe,         \* not connected
  MaxFaults       \* bound: broken connections, worker crashes, failed sends

ASSUME PathAssumption ==
  /\ NoPipe \notin Pipe /\ Pipe \subseteq Nat
  /\ MaxFaults \in Nat
  /\ IsFiniteSet(Req) /\ 0 .. Cardinality(Req) \subseteq Load

VARIABLES
  conn, nextPipe, \* node -> pipe its worker is connected on; the next pipe id
  phase,          \* where the handler of a request stands
  streamed,       \* the requests with "stream": true
  pick,           \* request -> entry that selectLeastConnections returned
  sessions,       \* s.sessions: the requests it holds a channel for
  channel,        \* request -> frames buffered in its channel
  reply,          \* request -> chunks written to the client, or to the buffer
  audits,         \* request -> status codes recorded for it
  gone,           \* the requests whose client has disconnected
  job,            \* request -> its job: none, sent or running
  read,           \* request -> chunks its job has read from the engine
  wire,           \* request -> frames of its job under way to recvLoop
  damaged,        \* the requests the mesh or a full channel lost something of
  server,         \* serving, stopping once SIGTERM came, closed
  receiving,      \* recvLoop runs
  faults          \* how many faults have happened

handlerVars == <<phase, streamed, pick, sessions, channel, reply, audits, gone>>
jobVars == <<job, read, wire>>
meshVars == <<conn, nextPipe>>
serverVars == <<server, receiving>>
pathVars == <<registryVars, handlerVars, jobVars, meshVars, serverVars, damaged, faults>>

NoPick == [id |-> NoName, pipe |-> NoPipe]

PathTypeOK ==
  /\ TypeOK
  /\ conn \in [Node -> Pipe \cup {NoPipe}] /\ nextPipe \in Nat
  /\ phase \in [Req -> Phase] /\ streamed \subseteq Req /\ gone \subseteq Req
  /\ pick \in [Req -> [id : Node \cup {NoName}, pipe : Pipe \cup {NoPipe}]]
  /\ sessions \subseteq Req /\ channel \in [Req -> Seq(Frame)]
  /\ \A r \in Req : Len(channel[r]) <= BufferSize
  /\ reply \in [Req -> Seq(1 .. MaxChunks)] /\ audits \in [Req -> Seq({200, 502})]
  /\ job \in [Req -> {"none", "sent", "running"}] /\ read \in [Req -> 0 .. MaxChunks]
  /\ wire \in [Req -> Seq(Frame)] /\ damaged \subseteq Req
  /\ server \in {"serving", "stopping", "closed"} /\ receiving \in BOOLEAN
  /\ faults \in 0 .. MaxFaults

PathInit ==
  /\ newNodeRegistry
  /\ conn = [w \in Node |-> NoPipe] /\ nextPipe = 1
  /\ phase = [r \in Req |-> "new"] /\ streamed \in SUBSET Req /\ gone = {}
  /\ pick = [r \in Req |-> NoPick] /\ sessions = {}
  /\ channel = [r \in Req |-> << >>] /\ reply = [r \in Req |-> << >>]
  /\ audits = [r \in Req |-> << >>]
  /\ job = [r \in Req |-> "none"] /\ read = [r \in Req |-> 0]
  /\ wire = [r \in Req |-> << >>] /\ damaged = {}
  /\ server = "serving" /\ receiving = TRUE /\ faults = 0

Goto(r, p) == phase' = [phase EXCEPT ![r] = p]
Fault == faults < MaxFaults /\ faults' = faults + 1

(* The jobs of a worker, and its d.activeRequests.                         *)
JobsOf(w) == {r \in Req : pick[r].id = w /\ job[r] # "none"}
activeRequests(w) == Cardinality({r \in JobsOf(w) : job[r] = "running"})

-----------------------------------------------------------------------------
(* handleChatCompletions up to the selection.  A request without a valid   *)
(* API key, or with no worker available, is refused.                       *)
Unauthorized(r) ==
  /\ server = "serving" /\ phase[r] = "new"
  /\ Goto(r, "refused")
  /\ UNCHANGED <<registryVars, streamed, pick, sessions, channel, reply, audits, gone,
                 jobVars, meshVars, serverVars, damaged, faults>>

Select(r) ==
  /\ server = "serving" /\ phase[r] = "new"
  /\ LET id == selectLeastConnections
     IN  IF id = NoName
         THEN Goto(r, "refused") /\ UNCHANGED pick
         ELSE /\ Goto(r, "selected")
              /\ pick' = [pick EXCEPT ![r] = [id |-> id, pipe |-> byID[id].pipe]]
  /\ UNCHANGED <<registryVars, streamed, sessions, channel, reply, audits, gone,
                 jobVars, meshVars, serverVars, damaged, faults>>

(* The session is stored before the job goes out.                          *)
Store(r) ==
  /\ phase[r] = "selected"
  /\ Goto(r, "stored")
  /\ sessions' = sessions \cup {r}
  /\ UNCHANGED <<registryVars, streamed, pick, channel, reply, audits, gone,
                 jobVars, meshVars, serverVars, damaged, faults>>

(* SendTo on the pipe of the entry that was selected, which the worker may *)
(* have left since.                                                        *)
Dispatch(r) ==
  /\ phase[r] = "stored"
  /\ Goto(r, "waiting")
  /\ IF conn[pick[r].id] = pick[r].pipe
     THEN job' = [job EXCEPT ![r] = "sent"] /\ UNCHANGED damaged
     ELSE damaged' = damaged \cup {r} /\ UNCHANGED job
  /\ UNCHANGED <<registryVars, streamed, pick, sessions, channel, reply, audits, gone,
                 read, wire, meshVars, serverVars, faults>>

(* SendTo returns an error.                                                *)
AfterFailedSend_Leaked(r) == sessions
AfterFailedSend(r) == sessions \ {r}
DispatchFails(r) ==
  /\ Fault /\ phase[r] = "stored"
  /\ Goto(r, "refused")
  /\ sessions' = AfterFailedSend(r)
  /\ UNCHANGED <<registryVars, streamed, pick, channel, reply, audits, gone,
                 jobVars, meshVars, serverVars, damaged>>

-----------------------------------------------------------------------------
(* One round of the frame loop of streamResponse or bufferedResponse.      *)
(* `lost': a flush to the client failed, which a write to a client that    *)
(* left may do; a buffered answer is written only when it is complete.     *)
(* The status to record when frame f ends the request, as a sequence.      *)
Outcome(f, lost) ==
  CASE f.type = "eof" -> <<200>>
    [] f.type = "error" \/ lost -> <<502>>
    [] OTHER -> << >>

(* The handler returns exactly when it has recorded the outcome.           *)
Returns_Continues(f, lost) == f.type # "chunk"
Returns(f, lost) == f.type # "chunk" \/ lost

HandleFrame(r) ==
  /\ phase[r] = "waiting" /\ channel[r] # << >>
  /\ LET f == Head(channel[r])
     IN  \E lost \in IF f.type = "chunk" /\ r \in streamed \cap gone THEN BOOLEAN ELSE {FALSE} :
           /\ reply' = [reply EXCEPT ![r] = IF f.type = "chunk" THEN Append(@, f.n) ELSE @]
           /\ audits' = [audits EXCEPT ![r] = @ \o Outcome(f, lost)]
           /\ IF Returns(f, lost)
              THEN Goto(r, "answered") /\ sessions' = sessions \ {r}
              ELSE UNCHANGED <<phase, sessions>>
  /\ channel' = [channel EXCEPT ![r] = Tail(@)]
  /\ UNCHANGED <<registryVars, streamed, pick, gone, jobVars, meshVars, serverVars, damaged, faults>>

ClientLeaves(r) ==
  /\ phase[r] = "waiting" /\ r \notin gone
  /\ gone' = gone \cup {r}
  /\ UNCHANGED <<registryVars, phase, streamed, pick, sessions, channel, reply, audits,
                 jobVars, meshVars, serverVars, damaged, faults>>

(* recvLoop, handleMeshMessage: a frame goes to its session's channel; it  *)
(* is dropped when the channel is full, ignored when there is no session.  *)
Room(r) == Len(channel[r]) < BufferSize
ReceiveFrame(r) ==
  /\ receiving /\ wire[r] # << >>
  /\ wire' = [wire EXCEPT ![r] = Tail(@)]
  /\ channel' = IF r \in sessions /\ Room(r)
                THEN [channel EXCEPT ![r] = Append(@, Head(wire[r]))] ELSE channel
  /\ damaged' = IF r \in sessions /\ ~Room(r) THEN damaged \cup {r} ELSE damaged
  /\ UNCHANGED <<registryVars, phase, streamed, pick, sessions, reply, audits, gone,
                 job, read, meshVars, serverVars, faults>>

-----------------------------------------------------------------------------
(* The worker takes a job: handleJob starts.                               *)
StartJob(r) ==
  /\ job[r] = "sent"
  /\ job' = [job EXCEPT ![r] = "running"]
  /\ UNCHANGED <<registryVars, handlerVars, read, wire, meshVars, serverVars, damaged, faults>>

SendFrames(r, frames) == wire' = [wire EXCEPT ![r] = @ \o frames]

(* engine.Proxy fails.                                                     *)
ProxyFails(r) ==
  /\ job[r] = "running" /\ read[r] = 0
  /\ job' = [job EXCEPT ![r] = "none"]
  /\ SendFrames(r, <<Error>>)
  /\ UNCHANGED <<registryVars, handlerVars, read, meshVars, serverVars, damaged, faults>>

Read(r) ==
  /\ job[r] = "running"
  /\ \E n \in {0, 1}, err \in {"nil", "EOF", "error"} :
       /\ n = 0 => err # "nil"
       /\ read[r] + n <= MaxChunks
       /\ read' = [read EXCEPT ![r] = @ + n]
       /\ SendFrames(r, FramesOf(IF n = 1 THEN <<Chunk(read[r] + 1)>> ELSE << >>, err))
       /\ job' = [job EXCEPT ![r] = IF err = "nil" THEN @ ELSE "none"]
  /\ UNCHANGED <<registryVars, handlerVars, meshVars, serverVars, damaged, faults>>

-----------------------------------------------------------------------------
Connect(w) ==
  /\ conn[w] = NoPipe /\ nextPipe \in Pipe
  /\ conn' = [conn EXCEPT ![w] = nextPipe] /\ nextPipe' = nextPipe + 1
  /\ UNCHANGED <<registryVars, handlerVars, jobVars, serverVars, damaged, faults>>

(* An accepted heartbeat of w (see Fleet).                                 *)
Heartbeat(w) ==
  /\ receiving /\ conn[w] # NoPipe
  /\ \E s \in ConnState : upsert(w, conn[w], s, activeRequests(w))
  /\ UNCHANGED <<handlerVars, jobVars, meshVars, serverVars, damaged, faults>>

(* The connection of w breaks: jobs not yet taken are lost, and of the     *)
(* frames of a job those that had left but not arrived.                    *)
Disconnect(w) ==
  /\ Fault /\ conn[w] # NoPipe
  /\ conn' = [conn EXCEPT ![w] = NoPipe]
  /\ job' = [r \in Req |-> IF pick[r].id = w /\ job[r] = "sent" THEN "none" ELSE job[r]]
  /\ \E kept \in [Req -> UNION {Survivors(wire[r]) : r \in Req}] :
       /\ \A r \in Req : IF pick[r].id = w
                         THEN kept[r] \in Survivors(wire[r])
                         ELSE kept[r] = wire[r]
       /\ wire' = kept
       /\ damaged' = damaged \cup {r \in Req : kept[r] # wire[r]}
                             \cup {r \in JobsOf(w) : job[r] = "sent"}
  /\ UNCHANGED <<registryVars, handlerVars, read, nextPipe, serverVars>>

(* The worker process of w ends: its jobs end without a frame.             *)
Crash(w) ==
  /\ Fault /\ conn[w] # NoPipe
  /\ conn' = [conn EXCEPT ![w] = NoPipe]
  /\ job' = [r \in Req |-> IF pick[r].id = w THEN "none" ELSE job[r]]
  /\ wire' = [r \in Req |-> IF pick[r].id = w THEN << >> ELSE wire[r]]
  /\ damaged' = damaged \cup JobsOf(w) \cup {r \in Req : pick[r].id = w /\ wire[r] # << >>}
  /\ UNCHANGED <<registryVars, handlerVars, read, nextPipe, serverVars>>

PathTick ==
  /\ RegistryTick
  /\ UNCHANGED <<handlerVars, jobVars, meshVars, serverVars, damaged, faults>>

-----------------------------------------------------------------------------
(* SIGTERM: serve calls Shutdown while recvLoop, on the same context,      *)
(* returns after the message it is at.                                     *)
Terminate ==
  /\ server = "serving" /\ server' = "stopping"
  /\ UNCHANGED <<registryVars, handlerVars, jobVars, meshVars, receiving, damaged, faults>>
recvLoopReturns ==
  /\ server # "serving" /\ receiving /\ receiving' = FALSE
  /\ UNCHANGED <<registryVars, handlerVars, jobVars, meshVars, server, damaged, faults>>

(* app.Shutdown waits for the requests in progress, then the mesh closes.  *)
InProgress(r) == phase[r] \in {"selected", "stored", "waiting"}
Shutdown ==
  /\ server = "stopping" /\ ~\E r \in Req : InProgress(r)
  /\ server' = "closed"
  /\ UNCHANGED <<registryVars, handlerVars, jobVars, meshVars, receiving, damaged, faults>>

HandlerStep(r) == Select(r) \/ Store(r) \/ Dispatch(r) \/ HandleFrame(r)
JobStep(r) == StartJob(r) \/ Read(r)

PathNext ==
  \/ \E r \in Req : \/ HandlerStep(r) \/ JobStep(r) \/ ReceiveFrame(r)
                    \/ Unauthorized(r) \/ DispatchFails(r) \/ ProxyFails(r) \/ ClientLeaves(r)
  \/ \E w \in Node : Connect(w) \/ Heartbeat(w) \/ Disconnect(w) \/ Crash(w)
  \/ PathTick \/ Terminate \/ recvLoopReturns \/ Shutdown

(* Goroutines run, the engine's answers end, the dialer redials, and while *)
(* the worker is connected its frames arrive.                              *)
Connected(r) == pick[r].id \in Node /\ conn[pick[r].id] # NoPipe
PathFairness ==
  /\ \A r \in Req : WF_pathVars(HandlerStep(r)) /\ WF_pathVars(JobStep(r))
                    /\ WF_pathVars(Connected(r) /\ ReceiveFrame(r))
  /\ \A w \in Node : WF_pathVars(Connect(w))
  /\ WF_pathVars(recvLoopReturns) /\ WF_pathVars(Shutdown)

PathSafetySpec == PathInit /\ [][PathNext]_pathVars
PathSpec == PathSafetySpec /\ PathFairness

-----------------------------------------------------------------------------
(* s.sessions holds exactly the requests between Store and return: a frame *)
(* never finds its session missing, and no path out of a handler leaves a  *)
(* channel behind (server.go:268-274, 303, 328).  The types hold too, the  *)
(* capacity of a channel among them.                                       *)
SessionsMatchHandlers ==
  PathTypeOK /\ sessions = {r \in Req : phase[r] \in {"stored", "waiting"}}

(* An answer recorded as 200 holds every chunk the engine produced, in     *)
(* order, unless the mesh or a full channel lost part of it                *)
(* (daemon.go:309-325, server.go:179-189, 304-315).                        *)
CompleteUnlessDamaged ==
  \A r \in Req :
    audits[r] = <<200>> /\ r \notin damaged => reply[r] = [i \in 1 .. read[r] |-> i]

(* While the router serves, a dispatched request is answered unless the    *)
(* mesh or a full channel lost something of it: every way a job can end on *)
(* the worker reaches the client (daemon.go:300-326, server.go:297-345).   *)
AnsweredUnlessDamaged ==
  \A r \in Req :
    phase[r] = "waiting" ~> (phase[r] = "answered" \/ r \in damaged \/ server # "serving")

(* "A worker's NNG socket dying mid-stream must produce a clean SSE        *)
(* termination, not a hang" (design/vision.md:268), and when the router is *)
(* restarted "in-flight SSE streams are dropped and clients receive a      *)
(* standard error event" (design/vision.md:264).  So a stream that loses   *)
(* its worker has an end, at the latest when the router is told to stop.   *)
(* streamResponse ranges over a channel that nothing closes, and Shutdown  *)
(* waits for it (server.go:131-137, 304).                                  *)
LosesWorker(r) ==
  /\ r \in streamed /\ phase[r] = "waiting" /\ reply[r] # << >> /\ channel[r] = << >>
  /\ conn[pick[r].id] # pick[r].pipe /\ job[r] = "none" /\ wire[r] = << >>
LostStreamEnds ==
  \A r \in Req :
    [](LosesWorker(r) /\ server = "serving" =>
         [](server = "stopping" => <>(phase[r] = "answered" \/ r \in gone)))

(* The request path does for every request what RequestService promises:   *)
(* chunks in order and none twice, one outcome, nothing after it, and 200  *)
(* only for a whole answer (server.go:259-345, daemon.go:300-326).  A      *)
(* request is open from its dispatch to the return of its handler.         *)
Status(r) ==
  CASE phase[r] \in {"new", "selected", "stored"} -> "new"
    [] phase[r] = "waiting" -> "open"
    [] OTHER -> "closed"
Service == INSTANCE RequestService WITH
  Request  <- Req,
  status   <- [r \in Req |-> Status(r)],
  outcome  <- [r \in Req |-> IF phase[r] = "refused" THEN <<503>> ELSE audits[r]],
  produced <- read,
  passed   <- reply,
  lossy    <- damaged
ImplementsService == Service!ServiceSpec
=============================================================================
