---------------------------- MODULE FleetProofs -----------------------------
(***************************************************************************)
(* Proofs about the worker daemon and about Fleet, for any number of       *)
(* daemons, nodes and tokens, any heartbeat interval and any registration  *)
(* tick that is not longer, and any sequence of faults.                    *)
(*                                                                         *)
(* Of the daemon: SilenceNoticed is not inductive.  That a silence is      *)
(* noticed in time rests on when the ticker fires next and on what the     *)
(* loop has checked already, which SilenceInv adds.                        *)
(*                                                                         *)
(* Of the fleet: first that it uses the registry as NodeRegistry specifies *)
(* it, so that what is proved there holds here.  Then that a job           *)
(* dispatched to a node only reaches a worker enrolled as that node.  That *)
(* rests on all that carries one pipe id, a connection, the heartbeats     *)
(* that came over it and byPipe, belonging to the same node, which         *)
(* OwnerInv states.  Then that this worker is the one last accepted        *)
(* (RouteInv), and that one which hears so on its present connection has   *)
(* the route (AckInv).                                                     *)
(***************************************************************************)
EXTENDS Fleet, RouterProofs

(* The assumptions as the provers use them.                                *)
LEMMA Durations ==
  /\ RegistrationTick \in Nat /\ RegistrationTick > 0
  /\ HeartbeatInterval \in Nat /\ RegistrationTick <= HeartbeatInterval
  /\ degradedAfter = 3 * HeartbeatInterval /\ MaxSilence \in Nat
  /\ degradedAfter + HeartbeatInterval < MaxSilence
  /\ NoAck \notin 0 .. MaxSilence /\ NoReason \notin Reason
BY DaemonAssumption DEF degradedAfter

(* An ack keeps the daemon's state well typed.                             *)
LEMMA AckType ==
  ASSUME DaemonTypeOK, NEW d \in Daemon,
         handleAck(d, TRUE, NoReason) \/ \E reason \in Reason : handleAck(d, FALSE, reason)
  PROVE  DaemonTypeOK'
<1> USE Durations DEF DaemonTypeOK
<1>1. CASE handleAck(d, TRUE, NoReason)
  BY <1>1 DEF handleAck, ReasonAfter, StateAfter
<1>2. ASSUME NEW reason \in Reason, handleAck(d, FALSE, reason)
      PROVE  DaemonTypeOK'
  BY <1>2 DEF handleAck, ReasonAfter, StateAfter
<1> QED BY <1>1, <1>2, ZenonT(30)

(* Every step of a daemon keeps its state well typed.                      *)
LEMMA StepType ==
  ASSUME DaemonTypeOK, NEW d \in Daemon, DaemonStep(d)
  PROVE  DaemonTypeOK'
<1> USE Durations DEF DaemonTypeOK
<1>1. CASE dial(d) \/ dialFails(d) \/ announce(d)
  BY <1>1 DEF dial, dialFails, announce
<1>2. CASE checkDegraded(d)
  BY <1>2 DEF checkDegraded
<1>3. CASE sendHeartbeat(d)
  BY <1>3 DEF sendHeartbeat
<1>4. CASE settle(d)
  BY <1>4 DEF settle, SettledPeriod
<1>5. CASE restart(d)
  BY <1>5 DEF restart
<1>6. CASE handleAck(d, TRUE, NoReason) \/ \E reason \in Reason : handleAck(d, FALSE, reason)
  BY <1>6, AckType, ZenonT(30)
<1> QED BY <1>1, <1>2, <1>3, <1>4, <1>5, <1>6, ZenonT(30) DEF DaemonStep

(* So does the passing of time.                                            *)
LEMMA DaemonTickType ==
  ASSUME DaemonTypeOK, NEW blocked, DaemonTick(blocked)
  PROVE  DaemonTypeOK'
BY Durations DEF DaemonTypeOK, DaemonTick

(* The daemon's fields keep to their types.                                *)
THEOREM DaemonTypeCorrect == DaemonSpec => []DaemonTypeOK
<1>1. NewDaemon => DaemonTypeOK
  BY Durations DEF NewDaemon, DaemonTypeOK
<1>2. DaemonTypeOK /\ [DaemonNext]_daemonVars => DaemonTypeOK'
  <2>1. DaemonTypeOK /\ DaemonNext => DaemonTypeOK'
    BY StepType, DaemonTickType DEF DaemonNext
  <2>2. DaemonTypeOK /\ UNCHANGED daemonVars => DaemonTypeOK'
    BY DEF DaemonTypeOK, daemonVars
  <2> QED BY <2>1, <2>2
<1> QED BY <1>1, <1>2, PTL DEF DaemonSpec

-----------------------------------------------------------------------------
(* A step keeps the reported state in agreement with the acks.             *)
LEMMA StepMatchesAcks ==
  ASSUME DaemonTypeOK, ConnStateMatchesAcks, NEW d \in Daemon, DaemonStep(d)
  PROVE  ConnStateMatchesAcks'
<1> USE Durations DEF DaemonTypeOK, ConnStateMatchesAcks
<1>1. CASE dial(d) \/ dialFails(d) \/ announce(d)
  BY <1>1 DEF dial, dialFails, announce
<1>2. CASE checkDegraded(d)
  BY <1>2 DEF checkDegraded
<1>3. CASE sendHeartbeat(d)
  BY <1>3 DEF sendHeartbeat
<1>4. CASE settle(d)
  BY <1>4 DEF settle
<1>5. CASE restart(d)
  BY <1>5 DEF restart
<1>6. CASE handleAck(d, TRUE, NoReason)
  BY <1>6 DEF handleAck, ReasonAfter, StateAfter
<1>7. ASSUME NEW reason \in Reason, handleAck(d, FALSE, reason)
      PROVE  ConnStateMatchesAcks'
  BY <1>7 DEF handleAck, ReasonAfter, StateAfter
<1> QED BY <1>1, <1>2, <1>3, <1>4, <1>5, <1>6, <1>7, ZenonT(30) DEF DaemonStep

(* The state a worker reports is what its acks told it (checkDegraded and  *)
(* handleAck, daemon.go:207-298).                                          *)
THEOREM StateMatchesAcks == DaemonSpec => []ConnStateMatchesAcks
<1>1. NewDaemon => ConnStateMatchesAcks
  BY DEF NewDaemon, ConnStateMatchesAcks
<1>2. DaemonTypeOK /\ ConnStateMatchesAcks /\ [DaemonNext]_daemonVars => ConnStateMatchesAcks'
  <2> SUFFICES ASSUME DaemonTypeOK, ConnStateMatchesAcks, [DaemonNext]_daemonVars
               PROVE  ConnStateMatchesAcks'
    OBVIOUS
  <2>1. ASSUME NEW d \in Daemon, DaemonStep(d) PROVE ConnStateMatchesAcks'
    BY <2>1, StepMatchesAcks
  <2>2. CASE DaemonTick({})
    BY <2>2, Durations DEF DaemonTick, ConnStateMatchesAcks, DaemonTypeOK
  <2>3. CASE UNCHANGED daemonVars
    BY <2>3 DEF daemonVars, ConnStateMatchesAcks
  <2> QED BY <2>1, <2>2, <2>3 DEF DaemonNext
<1> QED BY <1>1, <1>2, DaemonTypeCorrect, PTL DEF DaemonSpec

-----------------------------------------------------------------------------
(* The strengthening of SilenceNoticed for one daemon: when the next tick  *)
(* comes the silence is still within bounds, and after the check of a tick *)
(* a daemon that is still registered has heard an ack in the window.       *)
SilenceBounded(d) ==
  state[d] = "registered" =>
    /\ lastAck[d] \in 0 .. MaxSilence /\ Ticking(d)
    /\ lastAck[d] + wait[d] <= degradedAfter + HeartbeatInterval
    /\ loop[d] # "idle" => lastAck[d] <= degradedAfter
SilenceInv == \A d \in Daemon : SilenceBounded(d)

(* A step of a daemon keeps SilenceInv.                                    *)
LEMMA StepBoundsSilence ==
  ASSUME DaemonTypeOK, SilenceInv, NEW d \in Daemon, DaemonStep(d)
  PROVE  SilenceInv'
<1> SUFFICES ASSUME NEW c \in Daemon PROVE SilenceBounded(c)'
  BY DEF SilenceInv
<1>0. SilenceBounded(c)
  BY DEF SilenceInv
<1> USE <1>0, Durations DEF DaemonTypeOK, SilenceBounded, Ticking, Running
<1>1. CASE dial(d) \/ dialFails(d) \/ announce(d)
  BY <1>1 DEF dial, dialFails, announce
<1>2. CASE checkDegraded(d)
  BY <1>2 DEF checkDegraded, Silent
<1>3. CASE sendHeartbeat(d)
  BY <1>3 DEF sendHeartbeat
<1>4. CASE settle(d)
  BY <1>4 DEF settle, SettledPeriod
<1>5. CASE restart(d)
  BY <1>5 DEF restart
<1>6. CASE Ticking(d) /\ handleAck(d, TRUE, NoReason)
  BY <1>6 DEF handleAck, StateAfter
<1>7. ASSUME NEW reason \in Reason, handleAck(d, FALSE, reason)
      PROVE  SilenceBounded(c)'
  BY <1>7 DEF handleAck, StateAfter
<1> QED BY <1>1, <1>2, <1>3, <1>4, <1>5, <1>6, <1>7, ZenonT(30) DEF DaemonStep

(* Time cannot pass over a tick that is due, so it keeps SilenceInv.       *)
LEMMA TickBoundsSilence ==
  ASSUME DaemonTypeOK, SilenceInv, DaemonTick({})
  PROVE  SilenceInv'
<1> SUFFICES ASSUME NEW c \in Daemon, state[c] = "registered" PROVE SilenceBounded(c)'
  BY DEF SilenceInv, SilenceBounded, DaemonTick
<1> USE DEF Ticking, Running
<1>1. loop[c] = "idle" /\ wait[c] > 0
  BY DEF DaemonTick, Prompt, DaemonTypeOK, SilenceInv, SilenceBounded
<1>2. lastAck'[c] = lastAck[c] + 1 /\ wait'[c] = wait[c] - 1
  BY <1>1, Durations DEF DaemonTick, DaemonTypeOK, SilenceInv, SilenceBounded
<1> QED BY <1>1, <1>2, Durations DEF DaemonTick, DaemonTypeOK, SilenceInv, SilenceBounded

(* A worker notices ack silence within one heartbeat of the window         *)
(* (checkDegraded on every tick, daemon.go:185-220).                       *)
THEOREM SilenceIsNoticed == DaemonSpec => []SilenceNoticed
<1>1. NewDaemon => SilenceInv
  BY DEF NewDaemon, SilenceInv, SilenceBounded
<1>2. DaemonTypeOK /\ SilenceInv /\ [DaemonNext]_daemonVars => SilenceInv'
  <2>1. DaemonTypeOK /\ SilenceInv /\ DaemonNext => SilenceInv'
    BY StepBoundsSilence, TickBoundsSilence DEF DaemonNext
  <2>2. SilenceInv /\ UNCHANGED daemonVars => SilenceInv'
    BY DEF SilenceInv, SilenceBounded, daemonVars, Ticking, Running
  <2> QED BY <2>1, <2>2
<1>3. DaemonTypeOK /\ SilenceInv => SilenceNoticed
  BY Durations DEF SilenceInv, SilenceBounded, SilenceNoticed, DaemonTypeOK
<1> QED BY <1>1, <1>2, <1>3, DaemonTypeCorrect, PTL DEF DaemonSpec

-----------------------------------------------------------------------------
(* The registry changes when recvLoop answers a heartbeat, when the router *)
(* starts and as time passes.                                              *)
LEMMA RegistryAlone ==
  ASSUME [FleetNext]_fleetVars, ~Answer, ~RestartRouter, ~FleetTick
  PROVE  UNCHANGED <<byID, byPipe, order, claims>>
<1>1. CASE \E d \in Daemon : Dial(d) \/ DialFails(d) \/ Connect(d) \/ Arrive(d) \/ Disconnect(d)
  BY <1>1, ZenonT(30) DEF Dial, DialFails, Connect, Attach, Arrive, Disconnect, registryVars
<1>2. CASE \E d \in Daemon : RestartDaemon(d) \/ Beat(d) \/ LoopStep(d) \/ RecvAck(d)
  BY <1>2, ZenonT(30) DEF RestartDaemon, Beat, LoopStep, RecvAck, registryVars
<1>3. CASE (\E t \in Token : Revoke(t)) \/ Check \/ UNCHANGED fleetVars
  BY <1>3, ZenonT(30) DEF Revoke, Check, fleetVars, registryVars
<1> QED BY <1>1, <1>2, <1>3, ZenonT(30) DEF FleetNext

(* A daemon becomes registered by an ack, and by an OK.                    *)
LEMMA OnlyAcksRegister ==
  ASSUME DaemonTypeOK, FleetNext, NEW c \in Daemon, state[c] # "registered", state'[c] = "registered"
  PROVE  RecvAck(c) /\ Head(acks[c]).verdict = "ok"
<1>0. state \in [Daemon -> {"connecting", "registered", "degraded"}]
  BY DEF DaemonTypeOK
<1>1. ASSUME NEW d \in Daemon, RecvAck(d) PROVE d = c /\ Head(acks[d]).verdict = "ok"
  BY <1>0, <1>1, ZenonT(30) DEF RecvAck, handleAck, StateAfter
<1>2. ASSUME NEW d \in Daemon, Dial(d) \/ DialFails(d) \/ Connect(d) \/ Arrive(d) \/ Disconnect(d)
      PROVE  FALSE
  BY <1>2 DEF Disconnect, Dial, dial, DialFails, dialFails, Connect, Arrive, daemonVars
<1>3. ASSUME NEW d \in Daemon, RestartDaemon(d) \/ Beat(d) \/ LoopStep(d) PROVE FALSE
  BY <1>0, <1>3 DEF RestartDaemon, restart, Beat, LoopStep, announce, sendHeartbeat, checkDegraded, settle
<1>4. CASE \/ \E t \in Token : Revoke(t)
           \/ Check \/ Answer \/ RestartRouter \/ FleetTick
  BY <1>4 DEF Revoke, Check, Answer, RestartRouter, FleetTick, DaemonTick, daemonVars
<1> QED BY <1>1, <1>2, <1>3, <1>4 DEF FleetNext

-----------------------------------------------------------------------------
(* The heartbeats the router holds, queued or being handled.               *)
Held == {inbox[i] : i \in DOMAIN inbox} \cup {handling[i].m : i \in DOMAIN handling}

MeshTypeOK ==
  /\ pipe \in [Daemon -> Pipe \cup {NoPipe}] /\ nextPipe \in Nat
  /\ inbox \in Seq(Message)
  /\ handling \in Seq([m : Message, verdict : Verdict]) /\ Len(handling) <= 1

(* A verdict of the checks is ok or a reason.                              *)
LEMMA VerdictType == ASSUME NEW t PROVE VerdictOf(t) \in Verdict
BY FleetAssumption DEF VerdictOf, Verdict

(* What each step does to connections and held heartbeats.                 *)
LEMMA MeshStep ==
  ASSUME MeshTypeOK, [FleetNext]_fleetVars
  PROVE  /\ MeshTypeOK'
         /\ \/ UNCHANGED <<pipe, nextPipe>> /\ Held' \subseteq Held
            \/ /\ \E d \in Daemon : pipe[d] # NoPipe /\ Held' \subseteq Held \cup {[pipe |-> pipe[d], from |-> d]}
               /\ UNCHANGED <<pipe, nextPipe>>
            \/ /\ \E d \in Daemon : pipe' = [pipe EXCEPT ![d] = NoPipe]
               /\ Held' \subseteq Held /\ UNCHANGED nextPipe
            \/ /\ pipe' = [d \in Daemon |-> NoPipe]
               /\ Held' \subseteq Held /\ UNCHANGED nextPipe
            \/ /\ \E d \in Daemon : pipe' = [pipe EXCEPT ![d] = nextPipe]
               /\ Held' \subseteq Held /\ nextPipe' = nextPipe + 1
<1> USE FleetAssumption DEF MeshTypeOK
<1>1. ASSUME NEW d \in Daemon, Dial(d) \/ Connect(d) PROVE MeshTypeOK' /\ Held' = Held
                          /\ pipe' = [pipe EXCEPT ![d] = nextPipe] /\ nextPipe' = nextPipe + 1
  BY <1>1 DEF Dial, Connect, Attach, Held
<1>2. ASSUME NEW d \in Daemon, Arrive(d)
      PROVE  /\ MeshTypeOK' /\ UNCHANGED <<pipe, nextPipe>> /\ pipe[d] # NoPipe
             /\ Held' \subseteq Held \cup {[pipe |-> pipe[d], from |-> d]}
  <2>1. [pipe |-> pipe[d], from |-> d] \in Message /\ inbox \in Seq(Message)
    BY <1>2 DEF Arrive, Message
  <2> DEFINE x == [pipe |-> pipe[d], from |-> d]
  <2>2. inbox' = Append(inbox, x) /\ UNCHANGED <<pipe, nextPipe, handling>> /\ pipe[d] # NoPipe
    BY <1>2 DEF Arrive
  <2>3. x \in Message
    BY <2>1
  <2> HIDE DEF x
  <2>4. /\ inbox' \in Seq(Message)
        /\ \A i \in DOMAIN inbox' : inbox'[i] = x \/ \E j \in DOMAIN inbox : inbox'[i] = inbox[j]
    BY <2>1, <2>2, <2>3
  <2>5. Held' \subseteq Held \cup {x}
    BY <2>2, <2>4 DEF Held
  <2> QED BY <2>2, <2>4, <2>5 DEF x
<1>3. ASSUME NEW d \in Daemon, Disconnect(d) \/ RestartDaemon(d)
      PROVE  /\ MeshTypeOK' /\ pipe' = [pipe EXCEPT ![d] = NoPipe]
             /\ Held' = Held /\ UNCHANGED nextPipe
  BY <1>3 DEF Disconnect, RestartDaemon, Break, Held
<1>4. ASSUME NEW d \in Daemon, DialFails(d) \/ Beat(d) \/ LoopStep(d) \/ RecvAck(d)
      PROVE  MeshTypeOK' /\ Held' = Held /\ UNCHANGED <<pipe, nextPipe>>
  <2>1. UNCHANGED <<pipe, nextPipe, inbox, handling>>
    BY <1>4, ZenonT(30) DEF DialFails, Beat, Send, LoopStep, RecvAck, meshVars
  <2> QED BY <2>1 DEF Held
<1>5. CASE Check
  <2> DEFINE h == Head(inbox)
  <2>1. PICK v \in Verdict : handling' = <<[m |-> Head(inbox), verdict |-> v]>>
    <3>1. "internal" \in Verdict
      BY DEF Verdict
    <3> QED BY <1>5, <3>1, VerdictType DEF Check
  <2>2. inbox \in Seq(Message) /\ inbox # << >> /\ inbox' = Tail(inbox) /\ UNCHANGED <<pipe, nextPipe>>
    BY <1>5 DEF Check
  <2>3. /\ h \in Message /\ h = inbox[1] /\ 1 \in DOMAIN inbox
        /\ inbox' \in Seq(Message)
        /\ \A i \in DOMAIN inbox' : i + 1 \in DOMAIN inbox /\ inbox'[i] = inbox[i + 1]
    BY <2>2
  <2> HIDE DEF h
  <2>4. handling' = <<[m |-> h, verdict |-> v]>>
    BY <2>1 DEF h
  <2>5. /\ handling' \in Seq([m : Message, verdict : Verdict]) /\ Len(handling') = 1
        /\ \A i \in DOMAIN handling' : handling'[i].m = h
    BY <2>3, <2>4
  <2>6. Held' \subseteq Held
    BY <2>3, <2>5 DEF Held
  <2> QED BY <2>2, <2>3, <2>5, <2>6
<1>6. CASE Answer
  BY <1>6, SMTT(30) DEF Answer, Held
<1>7. CASE RestartRouter
  BY <1>7 DEF RestartRouter, Held
<1>8. CASE FleetTick \/ (\E t \in Token : Revoke(t)) \/ UNCHANGED fleetVars
  BY <1>8 DEF FleetTick, Revoke, meshVars, fleetVars, Held
<1> QED BY <1>1, <1>2, <1>3, <1>4, <1>5, <1>6, <1>7, <1>8, ZenonT(30) DEF FleetNext

(* The mesh keeps to its types.                                            *)
LEMMA MeshTypeCorrect == FleetSafetySpec => []MeshTypeOK
<1>1. FleetInit => MeshTypeOK
  BY FleetAssumption DEF FleetInit, MeshTypeOK
<1>2. MeshTypeOK /\ [FleetNext]_fleetVars => MeshTypeOK'
  BY MeshStep
<1> QED BY <1>1, <1>2, PTL DEF FleetSafetySpec

-----------------------------------------------------------------------------
(* The router holds nothing but messages.                                  *)
LEMMA HeldType == ASSUME MeshTypeOK PROVE Held \subseteq Message
<1> DEFINE H == [m : Message, verdict : Verdict]
<1>1. inbox \in Seq(Message) /\ handling \in Seq(H)
  BY DEF MeshTypeOK
<1>2. \A h \in H : h.m \in Message
  OBVIOUS
<1> HIDE DEF H
<1>3. /\ \A i \in DOMAIN inbox : inbox[i] \in Message
      /\ \A i \in DOMAIN handling : handling[i] \in H
  BY <1>1
<1> QED BY <1>2, <1>3 DEF Held

(* The heartbeat that is being handled is one of them.                     *)
LEMMA HandledIsHeld ==
  ASSUME MeshTypeOK, handling # << >>
  PROVE  /\ 1 \in DOMAIN handling /\ handling[1].m \in Held
         /\ handling[1].m \in Message /\ handling[1].verdict \in Verdict
<1> DEFINE H == [m : Message, verdict : Verdict]
<1>1. handling \in Seq(H)
  BY DEF MeshTypeOK
<1>2. \A h \in H : h.m \in Message /\ h.verdict \in Verdict
  OBVIOUS
<1> HIDE DEF H
<1>3. 1 \in DOMAIN handling /\ handling[1] \in H
  BY <1>1
<1> QED BY <1>2, <1>3 DEF Held

(* What an Answer does: the whole of handleHeartbeat after its checks, on  *)
(* well-typed arguments.                                                   *)
LEMMA AnswerUpdatesRegistry ==
  ASSUME MeshTypeOK, Answer
  PROVE  \/ \E m \in Held, s \in ConnState, n \in Load :
               m \in Message /\ NodeName(m) \in Node /\ upsert(NodeName(m), m.pipe, s, n)
         \/ \E id \in Node \cup {NoName}, reason \in Reason : recordClaim(id, reason)
<1> DEFINE m == handling[1].m
           v == handling[1].verdict
<1>2. m \in Message /\ v \in Verdict /\ m \in Held
  BY HandledIsHeld DEF Answer
<1>3. NodeName(m) \in Node /\ NodeIDOf[m.from] \in Node \cup {NoName}
  BY <1>2, FleetAssumption DEF NodeName, Message
<1>4. IF v = "ok" THEN \E s \in ConnState, n \in Load : upsert(NodeName(m), m.pipe, s, n)
      ELSE recordClaim(ClaimName(m, v), v)
  BY DEF Answer
<1> HIDE DEF m, v
<1>5. CASE v = "ok"
  BY <1>2, <1>3, <1>4, <1>5
<1>6. CASE v # "ok"
  <2>1. ClaimName(m, v) \in Node \cup {NoName} /\ v \in Reason
    BY <1>2, <1>3, <1>6 DEF ClaimName, Verdict
  <2> QED BY <1>4, <1>6, <2>1
<1> QED BY <1>5, <1>6

(* Every step of the fleet is a step of the registry or leaves it alone.   *)
LEMMA FleetStepsRegistry ==
  ASSUME MeshTypeOK, [FleetNext]_fleetVars
  PROVE  [RegistryNext]_registryVars
<1>1. CASE Answer
  <2>1. ASSUME NEW m \in Held, NEW s \in ConnState, NEW n \in Load, m \in Message,
               NodeName(m) \in Node, upsert(NodeName(m), m.pipe, s, n)
        PROVE  RegistryNext
    <3>1. m.pipe \in Pipe
      BY <2>1 DEF Message
    <3> QED BY <2>1, <3>1 DEF RegistryNext
  <2>2. ASSUME NEW id \in Node \cup {NoName}, NEW reason \in Reason, recordClaim(id, reason)
        PROVE  RegistryNext
    BY <2>2 DEF RegistryNext
  <2> QED BY <1>1, <2>1, <2>2, AnswerUpdatesRegistry
<1>2. CASE RestartRouter
  BY <1>2 DEF RestartRouter, RegistryNext
<1>3. CASE FleetTick
  <2>1. RegistryTick
    BY <1>3, SMTT(30) DEF FleetTick
  <2> QED BY <2>1 DEF RegistryNext
<1> QED BY <1>1, <1>2, <1>3, RegistryAlone DEF registryVars

(* The fleet drives the registry within its specification: whatever comes  *)
(* over the mesh, recvLoop only makes the updates NodeRegistry allows      *)
(* (server.go:192-242), so the theorems about the registry carry over.     *)
THEOREM FleetImplementsRegistry == FleetSafetySpec => RegistrySpec
<1>1. FleetInit => newNodeRegistry
  BY DEF FleetInit
<1>2. MeshTypeOK /\ [FleetNext]_fleetVars => [RegistryNext]_registryVars
  BY FleetStepsRegistry
<1> QED BY <1>1, <1>2, MeshTypeCorrect, PTL DEF FleetSafetySpec, RegistrySpec

-----------------------------------------------------------------------------
(* Daemon d is behind pipe p: it is connected on it, or the router holds a *)
(* heartbeat of d that came over it.                                       *)
Uses(d, p) == pipe[d] = p \/ \E m \in Held : m.pipe = p /\ m.from = d

(* A pipe has one daemon behind it, ever, and byPipe names its node.       *)
OwnerInv ==
  \A p \in Pipe :
    /\ p \in DOMAIN byPipe => p < nextPipe
    /\ \A d, e \in Daemon : Uses(d, p) /\ Uses(e, p) => d = e
    /\ \A d \in Daemon : Uses(d, p) => p < nextPipe /\ (p \in DOMAIN byPipe => byPipe[p] = Serves(d))

(* Only a new connection puts a daemon behind a pipe, and behind one that  *)
(* was never used.                                                         *)
LEMMA UsesGrow ==
  ASSUME MeshTypeOK, [FleetNext]_fleetVars
  PROVE  /\ nextPipe' \in Nat /\ nextPipe \in Nat
         /\ \/ nextPipe' = nextPipe /\ \A d \in Daemon, p \in Pipe : Uses(d, p)' => Uses(d, p)
            \/ /\ nextPipe' = nextPipe + 1
               /\ \E c \in Daemon : \A d \in Daemon, p \in Pipe :
                    Uses(d, p)' => Uses(d, p) \/ (d = c /\ p = nextPipe)
<1> USE FleetAssumption DEF MeshTypeOK
<1>0. MeshTypeOK' /\ nextPipe \in Nat /\ nextPipe' \in Nat
  BY MeshStep
<1>1. CASE UNCHANGED <<pipe, nextPipe>> /\ Held' \subseteq Held
  BY <1>0, <1>1 DEF Uses
<1>2. ASSUME NEW d \in Daemon, Held' \subseteq Held \cup {[pipe |-> pipe[d], from |-> d]},
             UNCHANGED <<pipe, nextPipe>>
      PROVE  nextPipe' = nextPipe /\ \A e \in Daemon, p \in Pipe : Uses(e, p)' => Uses(e, p)
  BY <1>2 DEF Uses
<1>3. ASSUME NEW d \in Daemon, pipe' = [pipe EXCEPT ![d] = NoPipe],
             Held' \subseteq Held, UNCHANGED nextPipe
      PROVE  nextPipe' = nextPipe /\ \A e \in Daemon, p \in Pipe : Uses(e, p)' => Uses(e, p)
  BY <1>3 DEF Uses
<1>4. CASE pipe' = [d \in Daemon |-> NoPipe] /\ Held' \subseteq Held /\ UNCHANGED nextPipe
  BY <1>0, <1>4 DEF Uses
<1>5. ASSUME NEW c \in Daemon, pipe' = [pipe EXCEPT ![c] = nextPipe], Held' \subseteq Held
      PROVE  \A d \in Daemon, p \in Pipe :
               Uses(d, p)' => Uses(d, p) \/ (d = c /\ p = nextPipe)
  BY <1>5 DEF Uses
<1> QED BY <1>0, <1>1, <1>2, <1>3, <1>4, <1>5, MeshStep, ZenonT(30)

(* byPipe changes only as a restart or the Answer to a held heartbeat.     *)
LEMMA ByPipeStep ==
  ASSUME MeshTypeOK, [FleetNext]_fleetVars
  PROVE  \/ byPipe' = byPipe \/ byPipe' = << >>
         \/ \E m \in Held : m \in Message /\ byPipe' = Put(byPipe, m.pipe, NodeName(m))
<1>1. CASE Answer
  BY <1>1, AnswerUpdatesRegistry, ZenonT(30) DEF upsert, recordClaim
<1>2. CASE RestartRouter
  BY <1>2 DEF RestartRouter, RegistryRestart
<1>3. CASE FleetTick
  BY <1>3 DEF FleetTick, RegistryTick
<1> QED BY <1>1, <1>2, <1>3, RegistryAlone

(* Every step keeps the ownership of pipes.                                *)
LEMMA OwnerPreserved ==
  ASSUME MeshTypeOK, OwnerInv, [FleetNext]_fleetVars
  PROVE  OwnerInv'
<1> SUFFICES ASSUME NEW p \in Pipe
             PROVE  /\ p \in DOMAIN byPipe' => p < nextPipe'
                    /\ \A d, e \in Daemon : Uses(d, p)' /\ Uses(e, p)' => d = e
                    /\ \A d \in Daemon : Uses(d, p)' =>
                          p < nextPipe' /\ (p \in DOMAIN byPipe' => byPipe'[p] = Serves(d))
  BY DEF OwnerInv, Serves
<1> USE FleetAssumption
<1>1. nextPipe \in Nat /\ nextPipe' \in Nat /\ nextPipe <= nextPipe' /\ p \in Nat
  BY UsesGrow
<1>2. /\ p \in DOMAIN byPipe => p < nextPipe
      /\ \A d, e \in Daemon : Uses(d, p) /\ Uses(e, p) => d = e
      /\ \A d \in Daemon : Uses(d, p) => p < nextPipe /\ (p \in DOMAIN byPipe => byPipe[p] = Serves(d))
  BY DEF OwnerInv
<1>3. /\ \A d, e \in Daemon : Uses(d, p)' /\ Uses(e, p)' => d = e
      /\ \A d \in Daemon : Uses(d, p)' => p < nextPipe' /\ (Uses(d, p) \/ p = nextPipe)
  BY <1>1, <1>2, UsesGrow
<1>4. ASSUME NEW m \in Held, m \in Message, byPipe' = Put(byPipe, m.pipe, NodeName(m)), m.pipe = p
      PROVE  Uses(m.from, p) /\ m.from \in Daemon /\ byPipe'[p] = Serves(m.from)
  BY <1>4 DEF Uses, Message, Put, NodeName, Serves
<1>5. p \in DOMAIN byPipe' => p < nextPipe /\ \A d \in Daemon : Uses(d, p) => byPipe'[p] = Serves(d)
  <2>1. CASE byPipe' = byPipe \/ byPipe' = << >>
    BY <1>2, <2>1
  <2>2. ASSUME NEW m \in Held, m \in Message, byPipe' = Put(byPipe, m.pipe, NodeName(m)), m.pipe = p
        PROVE  p < nextPipe /\ \A d \in Daemon : Uses(d, p) => byPipe'[p] = Serves(d)
    BY <1>2, <1>4, <2>2
  <2>3. ASSUME NEW m \in Held, m \in Message, byPipe' = Put(byPipe, m.pipe, NodeName(m)), m.pipe # p
        PROVE  p \in DOMAIN byPipe' => p \in DOMAIN byPipe /\ byPipe'[p] = byPipe[p]
    BY <2>3 DEF Put
  <2> QED BY <1>2, <2>1, <2>2, <2>3, ByPipeStep
<1> QED BY <1>1, <1>3, <1>5

(* Pipes keep their owners through every run of the fleet.                 *)
LEMMA PipesHaveOneOwner == FleetSafetySpec => []OwnerInv
<1>1. FleetInit => OwnerInv
  BY FleetAssumption DEF FleetInit, OwnerInv, Uses, Held, newNodeRegistry
<1>2. MeshTypeOK /\ OwnerInv /\ [FleetNext]_fleetVars => OwnerInv'
  BY OwnerPreserved
<1> QED BY <1>1, <1>2, MeshTypeCorrect, PTL DEF FleetSafetySpec

(* A job dispatched to a node only ever reaches a worker enrolled as that  *)
(* node, through every reconnect, restart and late heartbeat               *)
(* (handleHeartbeat and upsert, server.go:192-242, nodes.go:139-160).      *)
THEOREM DispatchIsSafe == FleetSafetySpec => []DispatchReachesNode
<1>1. MeshTypeOK /\ OwnerInv /\ TypeOK /\ PipeLinked => DispatchReachesNode
  BY FleetAssumption DEF OwnerInv, PipeLinked, DispatchReachesNode, Uses, TypeOK, NodeEntry
<1>2. FleetSafetySpec => [](TypeOK /\ PipeLinked)
  BY FleetImplementsRegistry, TypeCorrect, PipesAreLinked, PTL
<1> QED BY <1>1, <1>2, MeshTypeCorrect, PipesHaveOneOwner, PTL

-----------------------------------------------------------------------------
(* An ack on its way to a daemon came over a connection that was made, and *)
(* an OK on the present connection says that byPipe knows that connection. *)
(* An OK left in the queue by an earlier one says nothing any more.        *)
AckTypeOK == acks \in [Daemon -> Seq(Ack)]
Granted(d, a) ==
  /\ a.pipe < nextPipe
  /\ a.verdict = "ok" /\ a.pipe = pipe[d] => pipe[d] \in DOMAIN byPipe
OkGranted(d) == \A i \in DOMAIN acks[d] : Granted(d, acks[d][i])
AckInv == AckTypeOK /\ \A d \in Daemon : OkGranted(d)

(* What an Answer does to routes: it points the node of a heartbeat it     *)
(* accepts to the heartbeat's pipe, and otherwise nothing.                 *)
Accepts(m) ==
  /\ byPipe' = Put(byPipe, m.pipe, Serves(m.from))
  /\ \E entry : entry.pipe = m.pipe /\ byID' = Put(byID, Serves(m.from), entry)
Answers(m, v) ==
  /\ UNCHANGED <<pipe, nextPipe, inbox>> /\ handling' = << >>
  /\ sendAck(m.pipe, v) /\ m.pipe < nextPipe
  /\ IF v = "ok" THEN Accepts(m) ELSE UNCHANGED <<byID, byPipe>>
LEMMA AnswerRoutes ==
  ASSUME MeshTypeOK, OwnerInv, Answer
  PROVE  /\ 1 \in DOMAIN handling /\ handling[1].m \in Held
         /\ handling[1].m \in Message /\ handling[1].verdict \in Verdict
         /\ Answers(handling[1].m, handling[1].verdict)
<1> DEFINE m == handling[1].m
           v == handling[1].verdict
<1>1. 1 \in DOMAIN handling /\ m \in Held /\ m \in Message /\ v \in Verdict
  BY HandledIsHeld DEF Answer
<1>2. /\ IF v = "ok" THEN \E s \in ConnState, n \in Load : upsert(NodeName(m), m.pipe, s, n)
         ELSE recordClaim(ClaimName(m, v), v)
      /\ UNCHANGED <<pipe, nextPipe, inbox>> /\ handling' = << >> /\ sendAck(m.pipe, v)
  BY DEF Answer
<1> HIDE DEF m, v
<1>3. Uses(m.from, m.pipe) /\ m.from \in Daemon /\ m.pipe \in Pipe
  BY <1>1 DEF Uses, Message
<1>4. m.pipe < nextPipe /\ ~Taken(Serves(m.from), m.pipe)
  BY <1>3, ZenonT(30) DEF OwnerInv, Taken
<1>5. ASSUME v = "ok" PROVE Accepts(m)
  <2>1. PICK s \in ConnState, n \in Load : upsert(Serves(m.from), m.pipe, s, n)
    BY <1>2, <1>5, SMTT(30) DEF NodeName, Serves
  <2>2. /\ byPipe' = Put(byPipe, m.pipe, Serves(m.from))
        /\ byID' = Put(byID, Serves(m.from), NewEntry(Serves(m.from), m.pipe, s, n))
    BY <1>4, <2>1, ZenonT(30) DEF upsert
  <2>3. NewEntry(Serves(m.from), m.pipe, s, n).pipe = m.pipe
    BY SMTT(30) DEF NewEntry
  <2> QED BY <2>2, <2>3, ZenonT(30) DEF Accepts
<1>6. ASSUME v # "ok" PROVE UNCHANGED <<byID, byPipe>>
  BY <1>2, <1>6, ZenonT(30) DEF recordClaim
<1>7. Answers(m, v)
  BY <1>2, <1>4, <1>5, <1>6, ZenonT(30) DEF Answers
<1> QED BY <1>1, <1>7 DEF m, v

(* What is left of a queue of which the last acks never came in.           *)
LEMMA HeardAcks ==
  ASSUME NEW s \in Seq(Ack), NEW n \in Nat, n <= Len(s)
  PROVE  /\ SubSeq(s, 1, n) \in Seq(Ack)
         /\ \A i \in DOMAIN SubSeq(s, 1, n) : i \in DOMAIN s /\ SubSeq(s, 1, n)[i] = s[i]
<1>1. SubSeq(s, 1, n) \in Seq(Ack) /\ Len(SubSeq(s, 1, n)) = n
  OBVIOUS
<1>2. \A i \in 1 .. n : SubSeq(s, 1, n)[i] = s[i]
  OBVIOUS
<1> QED BY <1>1, <1>2

(* Acks that are kept while their daemon has no connection, or a new one.  *)
AcksKept(d) ==
  /\ \A i \in DOMAIN acks'[d] : \E j \in DOMAIN acks[d] : acks'[d][i] = acks[d][j]
  /\ \/ pipe'[d] \in {NoPipe, nextPipe}
     \/ pipe'[d] = pipe[d] /\ DOMAIN byPipe \subseteq DOMAIN byPipe'
LEMMA AckAside ==
  ASSUME MeshTypeOK, AckInv, NEW d \in Daemon, nextPipe' \in {nextPipe, nextPipe + 1}, AcksKept(d)
  PROVE  OkGranted(d)'
<1> SUFFICES ASSUME NEW i \in DOMAIN acks'[d] PROVE Granted(d, acks[d][i])'
  BY DEF OkGranted
<1>1. PICK j \in DOMAIN acks[d] : acks'[d][i] = acks[d][j]
  BY DEF AcksKept
<1>2. Granted(d, acks[d][j]) /\ acks[d][j] \in Ack
  <2>1. acks[d] \in Seq(Ack)
    BY DEF AckInv, AckTypeOK
  <2>2. acks[d][j] \in Ack
    BY <2>1
  <2> QED BY <2>2 DEF AckInv, OkGranted
<1>3. acks[d][j].pipe \in Nat /\ acks[d][j].pipe # NoPipe /\ nextPipe \in Nat
  BY <1>2, FleetAssumption DEF Ack, MeshTypeOK
<1> QED BY <1>1, <1>2, <1>3 DEF Granted, AcksKept

(* Every step keeps AckInv.                                                *)
LEMMA AckPreserved ==
  ASSUME MeshTypeOK, OwnerInv, AckInv, [FleetNext]_fleetVars
  PROVE  AckInv'
<1>0. acks \in [Daemon -> Seq(Ack)] /\ nextPipe \in Nat /\ pipe \in [Daemon -> Pipe \cup {NoPipe}]
  BY DEF AckInv, AckTypeOK, MeshTypeOK
<1>1. CASE Answer
  <2>1. PICK m \in Message, v \in Verdict : Answers(m, v)
    BY <1>1, AnswerRoutes
  <2> DEFINE a == [pipe |-> m.pipe, verdict |-> v]
  <2>2. a \in Ack /\ a.pipe = m.pipe /\ a.verdict = v
    BY DEF Ack, Message
  <2>3. acks' = [d \in Daemon |-> IF pipe[d] = m.pipe THEN Append(acks[d], a) ELSE acks[d]]
    BY <2>1 DEF Answers, sendAck
  <2> HIDE DEF a
  <2>4. AckTypeOK'
    BY <1>0, <2>2, <2>3 DEF AckTypeOK
  <2>5. /\ DOMAIN byPipe \subseteq DOMAIN byPipe' /\ (v = "ok" => m.pipe \in DOMAIN byPipe')
        /\ UNCHANGED <<pipe, nextPipe>> /\ m.pipe < nextPipe
    BY <2>1 DEF Answers, Accepts, Put
  <2>6. ASSUME NEW d \in Daemon PROVE OkGranted(d)'
    <3>1. acks[d] \in Seq(Ack) /\ OkGranted(d)
      BY <1>0 DEF AckInv
    <3>2. CASE pipe[d] = m.pipe
      <4>1. acks'[d] = Append(acks[d], a)
        BY <2>3, <3>2
      <4>2. \A i \in DOMAIN acks'[d] : acks'[d][i] = a \/ (i \in DOMAIN acks[d] /\ acks'[d][i] = acks[d][i])
        BY <2>2, <3>1, <4>1
      <4>3. Granted(d, a)'
        BY <2>2, <2>5, <3>2 DEF Granted
      <4>4. \A b : Granted(d, b) => Granted(d, b)'
        BY <2>5 DEF Granted
      <4> QED BY <3>1, <4>2, <4>3, <4>4 DEF OkGranted
    <3>3. CASE pipe[d] # m.pipe
      <4>1. AcksKept(d)
        BY <2>3, <2>5, <3>3 DEF AcksKept
      <4> QED BY <2>5, <4>1, AckAside
    <3> QED BY <3>2, <3>3
  <2> QED BY <2>4, <2>6 DEF AckInv
<1>2. ASSUME NEW d \in Daemon, RecvAck(d) PROVE AckInv'
  <2>1. /\ acks[d] # << >> /\ acks' = [acks EXCEPT ![d] = Tail(acks[d])]
        /\ UNCHANGED <<byPipe, pipe, nextPipe>>
    BY <1>2, ZenonT(30) DEF RecvAck, registryVars
  <2>2. acks[d] \in Seq(Ack)
    BY <1>0
  <2>3. /\ Tail(acks[d]) \in Seq(Ack)
        /\ \A i \in DOMAIN Tail(acks[d]) : i + 1 \in DOMAIN acks[d] /\ Tail(acks[d])[i] = acks[d][i + 1]
    BY <2>1, <2>2
  <2>4. AckTypeOK'
    BY <1>0, <2>1, <2>3 DEF AckTypeOK
  <2>5. \A c \in Daemon : AcksKept(c)
    BY <1>0, <2>1, <2>3 DEF AcksKept
  <2>6. \A c \in Daemon : OkGranted(c)'
    BY <2>1, <2>5, AckAside
  <2> QED BY <2>4, <2>6 DEF AckInv
<1>3. ASSUME NEW d \in Daemon, Disconnect(d) \/ RestartDaemon(d) PROVE AckInv'
  <2>1. PICK n \in Nat : n <= Len(acks[d]) /\ acks' = [acks EXCEPT ![d] = SubSeq(acks[d], 1, n)]
    <3>1. Len(acks[d]) \in Nat
      BY <1>0
    <3>2. PICK heard \in 0 .. Len(acks[d]) : \E kept : Break(d, kept, heard)
      BY <1>3, <3>1 DEF Disconnect, RestartDaemon
    <3>3. heard \in Nat /\ heard <= Len(acks[d]) /\ acks' = [acks EXCEPT ![d] = SubSeq(acks[d], 1, heard)]
      BY <3>1, <3>2 DEF Break
    <3> QED BY <3>3, Zenon
  <2>2. pipe' = [pipe EXCEPT ![d] = NoPipe] /\ UNCHANGED <<byPipe, nextPipe>>
    BY <1>3, ZenonT(30) DEF Disconnect, RestartDaemon, Break, registryVars
  <2>3. /\ SubSeq(acks[d], 1, n) \in Seq(Ack)
        /\ \A i \in DOMAIN SubSeq(acks[d], 1, n) :
             i \in DOMAIN acks[d] /\ SubSeq(acks[d], 1, n)[i] = acks[d][i]
    BY <1>0, <2>1, HeardAcks
  <2>4. AckTypeOK'
    BY <1>0, <2>1, <2>3 DEF AckTypeOK
  <2>5. \A c \in Daemon : AcksKept(c)
    BY <1>0, <2>1, <2>2, <2>3 DEF AcksKept
  <2>6. \A c \in Daemon : OkGranted(c)'
    BY <2>2, <2>5, AckAside
  <2> QED BY <2>4, <2>6 DEF AckInv
<1>4. CASE RestartRouter
  <2>1. PICK heard \in [Daemon -> 0 .. Capacity] :
          /\ \A d \in Daemon : heard[d] <= Len(acks[d])
          /\ acks' = [d \in Daemon |-> SubSeq(acks[d], 1, heard[d])]
    BY <1>4 DEF RestartRouter
  <2>2. pipe' = [d \in Daemon |-> NoPipe] /\ UNCHANGED nextPipe
    BY <1>4 DEF RestartRouter
  <2>3. ASSUME NEW d \in Daemon PROVE acks'[d] \in Seq(Ack) /\ OkGranted(d)'
    <3>1. heard[d] \in Nat /\ heard[d] <= Len(acks[d]) /\ acks[d] \in Seq(Ack)
      BY <1>0, <2>1
    <3>2. /\ acks'[d] \in Seq(Ack)
          /\ \A i \in DOMAIN acks'[d] : i \in DOMAIN acks[d] /\ acks'[d][i] = acks[d][i]
      BY <2>1, <3>1, HeardAcks
    <3>3. AcksKept(d)
      BY <2>2, <3>2 DEF AcksKept
    <3> QED BY <2>2, <3>2, <3>3, AckAside
  <2> QED BY <2>1, <2>3 DEF AckInv, AckTypeOK
<1>5. ASSUME NEW d \in Daemon, Dial(d) \/ Connect(d) PROVE AckInv'
  <2>1. /\ UNCHANGED <<acks, byPipe>> /\ pipe' = [pipe EXCEPT ![d] = nextPipe]
        /\ nextPipe' = nextPipe + 1
    BY <1>5, ZenonT(30) DEF Dial, Connect, Attach, registryVars
  <2>2. \A c \in Daemon : AcksKept(c)
    BY <1>0, <2>1 DEF AcksKept
  <2>3. \A c \in Daemon : OkGranted(c)'
    BY <2>1, <2>2, AckAside
  <2> QED BY <2>1, <2>3 DEF AckInv, AckTypeOK
<1>6. CASE UNCHANGED <<acks, byPipe, pipe, nextPipe>>
  BY <1>6 DEF AckInv, AckTypeOK, OkGranted, Granted
<1>7. ASSUME \/ \E d \in Daemon : DialFails(d) \/ Arrive(d) \/ Beat(d) \/ LoopStep(d)
             \/ \E t \in Token : Revoke(t)
             \/ Check \/ FleetTick \/ UNCHANGED fleetVars
      PROVE  UNCHANGED <<acks, byPipe, pipe, nextPipe>>
  BY <1>7, ZenonT(30) DEF DialFails, Arrive, Beat, Send, LoopStep, Revoke, Check, FleetTick, RegistryTick,
              fleetVars, registryVars, meshVars
<1> QED BY <1>1, <1>2, <1>3, <1>4, <1>5, <1>6, <1>7, ZenonT(30) DEF FleetNext

-----------------------------------------------------------------------------
(* The rest of the types of the fleet.                                     *)
OtherTypeOK ==
  /\ DaemonTypeOK /\ active \subseteq Token /\ faults \in 0 .. MaxFaults
  /\ outgoing \in [Daemon -> Nat]

(* Every step keeps them.                                                  *)
LEMMA OtherTypePreserved ==
  ASSUME AckTypeOK, OtherTypeOK, [FleetNext]_fleetVars
  PROVE  OtherTypeOK'
<1> USE FleetAssumption DEF OtherTypeOK
<1>1. ASSUME NEW d \in Daemon, Connect(d) \/ Arrive(d) \/ Disconnect(d) PROVE OtherTypeOK'
  <2>1. DaemonTypeOK'
    BY <1>1 DEF Connect, Arrive, Disconnect, DaemonTypeOK, daemonVars
  <2> QED BY <1>1, <2>1, SMTT(30) DEF Connect, Attach, Arrive, Disconnect, Break, Fault
<1>8. ASSUME NEW d \in Daemon, Dial(d) \/ DialFails(d) PROVE OtherTypeOK'
  <2>1. DaemonTypeOK'
    BY <1>8, StepType, ZenonT(30) DEF Dial, DialFails, DaemonStep
  <2> QED BY <1>8, <2>1 DEF Dial, DialFails, Attach, Fault, meshVars
<1>2. ASSUME NEW d \in Daemon, RestartDaemon(d) PROVE OtherTypeOK'
  <2>1. DaemonTypeOK'
    BY <1>2, StepType, ZenonT(30) DEF RestartDaemon, DaemonStep
  <2> QED BY <1>2, <2>1 DEF RestartDaemon, Break, Fault
<1>3. ASSUME NEW d \in Daemon, Beat(d) \/ LoopStep(d) PROVE OtherTypeOK'
  <2>1. DaemonTypeOK'
    BY <1>3, StepType, ZenonT(30) DEF Beat, LoopStep, DaemonStep
  <2> QED BY <1>3, <2>1 DEF Beat, Send, LoopStep, meshVars
<1>4. ASSUME NEW d \in Daemon, RecvAck(d) PROVE OtherTypeOK'
  <2>1. acks[d] \in Seq(Ack) /\ acks[d] # << >>
    BY <1>4 DEF RecvAck, AckTypeOK
  <2>2. Head(acks[d]) \in Ack
    BY <2>1
  <2>5. Head(acks[d]).verdict \in Verdict
    BY <2>2 DEF Ack
  <2>3. handleAck(d, TRUE, NoReason) \/ \E reason \in Reason : handleAck(d, FALSE, reason)
    BY <1>4, <2>5, ZenonT(30) DEF RecvAck, Verdict
  <2>4. DaemonTypeOK'
    BY <2>3, AckType, ZenonT(30)
  <2> QED BY <1>4, <2>4 DEF RecvAck
<1>5. CASE FleetTick
  <2>1. DaemonTypeOK'
    BY <1>5, DaemonTickType DEF FleetTick
  <2> QED BY <1>5, <2>1 DEF FleetTick, meshVars
<1>6. CASE RestartRouter
  <2>1. DaemonTypeOK'
    BY <1>6 DEF RestartRouter, DaemonTypeOK, daemonVars
  <2> QED BY <1>6, <2>1 DEF RestartRouter, Fault
<1>7. CASE Check \/ Answer \/ (\E t \in Token : Revoke(t)) \/ UNCHANGED fleetVars
  <2>1. DaemonTypeOK'
    BY <1>7, ZenonT(30) DEF Check, Answer, Revoke, DaemonTypeOK, fleetVars, daemonVars
  <2>2. outgoing' = outgoing
    BY <1>7, ZenonT(30) DEF Check, Answer, Revoke, fleetVars, meshVars
  <2>3. active' \subseteq active
    <3>1. active' = active \/ \E t \in Token : active' = active \ {t}
      BY <1>7, ZenonT(30) DEF Check, Answer, Revoke, fleetVars
    <3> QED BY <3>1, Zenon
  <2>4. faults' = faults \/ Fault
    BY <1>7 DEF Check, Answer, Revoke, fleetVars
  <2>5. faults' \in 0 .. MaxFaults
    BY <2>4 DEF Fault
  <2> QED BY <2>1, <2>2, <2>3, <2>5, SMTT(30)
<1> QED BY <1>1, <1>2, <1>3, <1>4, <1>5, <1>6, <1>7, <1>8 DEF FleetNext

(* The strengthening of AcceptedConnectionIsRoute.  The router handles the *)
(* heartbeats of a worker in the order of its connections, none of them    *)
(* newer than the present one; so once one of the present connection has   *)
(* been accepted, none of an earlier one is left to be handled.            *)
Ahead(m, n) == m.from = n.from => m.pipe <= n.pipe
PipesInOrder ==
  /\ \A i, j \in DOMAIN inbox : i < j => Ahead(inbox[i], inbox[j])
  /\ \A i \in DOMAIN handling, j \in DOMAIN inbox : Ahead(handling[i].m, inbox[j])
NoneNewer == \A m \in Held : pipe[m.from] # NoPipe => m.pipe <= pipe[m.from]
Routed(d) ==
  pipe[d] \in DOMAIN byPipe =>
    /\ Serves(d) \in DOMAIN byID /\ byID[Serves(d)].pipe = pipe[d]
    /\ \A m \in Held : m.from = d => m.pipe = pipe[d]
RouteInv == PipesInOrder /\ NoneNewer /\ \A d \in Daemon : Routed(d)

(* Every step keeps the heartbeats in the order of their connections.      *)
LEMMA OrderPreserved ==
  ASSUME MeshTypeOK, PipesInOrder, NoneNewer, [FleetNext]_fleetVars
  PROVE  PipesInOrder'
<1>1. ASSUME NEW d \in Daemon, Arrive(d) PROVE PipesInOrder'
  <2> DEFINE x == [pipe |-> pipe[d], from |-> d]
  <2>1. /\ x \in Message /\ inbox \in Seq(Message) /\ x.from = d /\ x.pipe = pipe[d]
        /\ inbox' = Append(inbox, x) /\ UNCHANGED handling /\ pipe[d] # NoPipe
    BY <1>1 DEF Arrive, Message, MeshTypeOK
  <2> HIDE DEF x
  <2>2. \A m \in Held : Ahead(m, x)
    BY <2>1 DEF NoneNewer, Ahead
  <2>3. /\ DOMAIN inbox = 1 .. Len(inbox) /\ DOMAIN inbox' = 1 .. Len(inbox) + 1 /\ Len(inbox) \in Nat
        /\ inbox'[Len(inbox) + 1] = x /\ \A i \in DOMAIN inbox : inbox'[i] = inbox[i]
    BY <2>1
  <2>4. ASSUME NEW i \in DOMAIN inbox', NEW j \in DOMAIN inbox', i < j
        PROVE  Ahead(inbox'[i], inbox'[j])
    <3>1. i \in DOMAIN inbox /\ (j \in DOMAIN inbox \/ j = Len(inbox) + 1)
      BY <2>3, <2>4
    <3>2. inbox[i] \in Held
      BY <3>1 DEF Held
    <3> QED BY <2>2, <2>3, <2>4, <3>1, <3>2 DEF PipesInOrder
  <2>5. ASSUME NEW i \in DOMAIN handling, NEW j \in DOMAIN inbox' PROVE Ahead(handling[i].m, inbox'[j])
    <3>1. j \in DOMAIN inbox \/ j = Len(inbox) + 1
      BY <2>3
    <3>2. handling[i].m \in Held
      BY DEF Held
    <3> QED BY <2>2, <2>3, <3>1, <3>2 DEF PipesInOrder
  <2> QED BY <2>1, <2>4, <2>5 DEF PipesInOrder, Ahead
<1>2. CASE Check
  <2>1. /\ inbox \in Seq(Message) /\ inbox # << >> /\ inbox' = Tail(inbox)
        /\ \E v : handling' = <<[m |-> Head(inbox), verdict |-> v]>>
    BY <1>2 DEF Check, MeshTypeOK
  <2>2. /\ 1 \in DOMAIN inbox /\ Head(inbox) = inbox[1]
        /\ \A i \in DOMAIN inbox' : i \in Nat \ {0} /\ i + 1 \in DOMAIN inbox /\ inbox'[i] = inbox[i + 1]
    BY <2>1
  <2>3. \A i \in DOMAIN handling' : handling'[i].m = inbox[1]
    BY <2>1, <2>2
  <2>4. \A i, j \in DOMAIN inbox' : i < j => Ahead(inbox'[i], inbox'[j])
    BY <2>2 DEF PipesInOrder
  <2>5. \A i \in DOMAIN handling', j \in DOMAIN inbox' : Ahead(handling'[i].m, inbox'[j])
    BY <2>2, <2>3 DEF PipesInOrder
  <2> QED BY <2>4, <2>5 DEF PipesInOrder, Ahead
<1>3. CASE Answer \/ RestartRouter
  <2>1. handling' = << >> /\ (inbox' = inbox \/ inbox' = << >>)
    BY <1>3 DEF Answer, RestartRouter
  <2>2. DOMAIN handling' = {} /\ (inbox' = inbox \/ DOMAIN inbox' = {})
    BY <2>1
  <2> QED BY <2>2 DEF PipesInOrder, Ahead
<1>4. CASE \/ \E d \in Daemon : \/ Dial(d) \/ DialFails(d) \/ Connect(d) \/ Disconnect(d) \/ RestartDaemon(d)
                                \/ Beat(d) \/ LoopStep(d) \/ RecvAck(d)
           \/ \E t \in Token : Revoke(t)
           \/ FleetTick \/ UNCHANGED fleetVars
  <2>1. UNCHANGED <<inbox, handling>>
    BY <1>4, ZenonT(30) DEF Dial, DialFails, Connect, Attach, Disconnect, RestartDaemon, Break, Beat, Send,
                LoopStep, RecvAck, Revoke, FleetTick, meshVars, fleetVars
  <2> QED BY <2>1, SMTT(30) DEF PipesInOrder, Ahead
<1> QED BY <1>1, <1>2, <1>3, <1>4, ZenonT(30) DEF FleetNext

(* Every step keeps held heartbeats from being newer than the connection.  *)
LEMMA NoneNewerPreserved ==
  ASSUME MeshTypeOK, OwnerInv, NoneNewer, [FleetNext]_fleetVars
  PROVE  NoneNewer'
<1> SUFFICES ASSUME NEW m \in Held', pipe'[m.from] # NoPipe
             PROVE  m.pipe <= pipe'[m.from]
  BY DEF NoneNewer
<1>0. Held \subseteq Message
  BY HeldType
<1> USE FleetAssumption DEF MeshTypeOK, Message
<1>1. ASSUME NEW d \in Daemon, pipe[d] # NoPipe, UNCHANGED pipe,
             Held' \subseteq Held \cup {[pipe |-> pipe[d], from |-> d]}
      PROVE  m.pipe <= pipe'[m.from]
  <2>1. CASE m \in Held
    BY <1>1, <2>1 DEF NoneNewer
  <2>2. CASE m = [pipe |-> pipe[d], from |-> d]
    <3>1. m.pipe = pipe[d] /\ m.from = d /\ pipe[d] \in Nat
      BY <1>1, <2>2, ZenonT(30)
    <3> QED BY <1>1, <3>1
  <2> QED BY <1>1, <2>1, <2>2
<1>2. CASE UNCHANGED pipe /\ Held' \subseteq Held
  BY <1>2 DEF NoneNewer
<1>3. ASSUME NEW d \in Daemon, pipe' = [pipe EXCEPT ![d] = NoPipe], Held' \subseteq Held
      PROVE  m.pipe <= pipe'[m.from]
  BY <1>0, <1>3 DEF NoneNewer
<1>4. ASSUME NEW d \in Daemon, pipe' = [pipe EXCEPT ![d] = nextPipe], Held' \subseteq Held
      PROVE  m.pipe <= pipe'[m.from]
  <2>1. m \in Message /\ Uses(m.from, m.pipe)
    BY <1>0, <1>4 DEF Uses
  <2>2. m.pipe < nextPipe /\ m.pipe \in Nat
    BY <2>1, ZenonT(30) DEF OwnerInv
  <2> QED BY <1>4, <2>1, <2>2 DEF NoneNewer
<1>5. CASE pipe' = [d \in Daemon |-> NoPipe] /\ Held' \subseteq Held
  BY <1>0, <1>5
<1> QED BY <1>1, <1>2, <1>3, <1>4, <1>5, MeshStep

(* Every step keeps a worker's accepted connection the route to its node.  *)
LEMMA RoutedPreserved ==
  ASSUME TypeOK, MeshTypeOK, OwnerInv, RouteInv, PipesInOrder', NoneNewer', [FleetNext]_fleetVars,
         \A d, e \in Daemon : Serves(d) = Serves(e) => d = e
  PROVE  \A d \in Daemon : Routed(d)'
<1> SUFFICES ASSUME NEW d \in Daemon, pipe'[d] \in DOMAIN byPipe'
             PROVE  /\ Serves(d) \in DOMAIN byID' /\ byID'[Serves(d)].pipe = pipe'[d]
                    /\ \A m \in Held' : m.from = d => m.pipe = pipe'[d]
  BY ZenonT(30) DEF Routed, Serves
<1>0. /\ Held \subseteq Message /\ DOMAIN byPipe \subseteq Pipe /\ Routed(d)
      /\ pipe \in [Daemon -> Pipe \cup {NoPipe}] /\ nextPipe \notin DOMAIN byPipe
  BY HeldType, FleetAssumption DEF TypeOK, MeshTypeOK, RouteInv, OwnerInv
<1>1. CASE Answer
  <2>0. PICK m \in Held : /\ 1 \in DOMAIN handling /\ m = handling[1].m /\ m \in Message
                          /\ Answers(m, handling[1].verdict)
    BY <1>1, AnswerRoutes
  <2>1. /\ m \in Held /\ m \in Message /\ UNCHANGED <<pipe, inbox>> /\ handling' = << >>
        /\ \/ UNCHANGED <<byID, byPipe>>
           \/ /\ byPipe' = Put(byPipe, m.pipe, Serves(m.from))
              /\ \E entry : entry.pipe = m.pipe /\ byID' = Put(byID, Serves(m.from), entry)
    BY <2>0, ZenonT(30) DEF Answers, Accepts
  <2>2. Held' \subseteq Held /\ \A n \in Held' : Ahead(m, n)
    <3>1. inbox' = inbox /\ handling' = << >>
      BY <2>1
    <3>2. Held' = {inbox[i] : i \in DOMAIN inbox}
      BY <3>1 DEF Held
    <3>4. \A j \in DOMAIN inbox : Ahead(m, inbox[j])
      BY <2>0 DEF RouteInv, PipesInOrder
    <3>5. Held' \subseteq Held
      BY <3>2, ZenonT(30) DEF Held
    <3> QED BY <3>2, <3>4, <3>5
  <2>3. CASE pipe[d] \in DOMAIN byPipe
    <3>1. /\ Serves(d) \in DOMAIN byID /\ byID[Serves(d)].pipe = pipe[d]
          /\ \A n \in Held : n.from = d => n.pipe = pipe[d]
      BY <1>0, <2>3, ZenonT(30) DEF Routed
    <3>2. CASE UNCHANGED <<byID, byPipe>>
      BY <2>1, <2>2, <3>1, <3>2, SMTT(30)
    <3>3. ASSUME NEW entry, entry.pipe = m.pipe, byID' = Put(byID, Serves(m.from), entry)
          PROVE  Serves(d) \in DOMAIN byID' /\ byID'[Serves(d)].pipe = pipe[d]
      <4>1. m.from \in Daemon
        BY <2>1 DEF Message
      <4>2. CASE m.from = d
        BY <3>1, <3>3, <4>2 DEF Put
      <4>3. CASE m.from # d
        <5>1. Serves(m.from) # Serves(d)
          BY <4>1, <4>3
        <5> QED BY <3>1, <3>3, <5>1 DEF Put
      <4> QED BY <4>2, <4>3
    <3> QED BY <2>1, <2>2, <3>1, <3>2, <3>3
  <2>4. CASE pipe[d] \notin DOMAIN byPipe
    <3>1. /\ byPipe' = Put(byPipe, m.pipe, Serves(m.from)) /\ m.pipe = pipe[d]
          /\ \E entry : entry.pipe = m.pipe /\ byID' = Put(byID, Serves(m.from), entry)
      BY <2>1, <2>4, ZenonT(30) DEF Put
    <3>2. Uses(d, m.pipe) /\ Uses(m.from, m.pipe) /\ m.from \in Daemon /\ m.pipe \in Pipe
      BY <2>1, <3>1 DEF Uses, Message
    <3>3. m.from = d
      BY <3>2, ZenonT(30) DEF OwnerInv
    <3>4. Serves(d) \in DOMAIN byID' /\ byID'[Serves(d)].pipe = pipe'[d]
      BY <2>1, <3>1, <3>3, SMTT(30) DEF Put
    <3>5. ASSUME NEW n \in Held', n.from = d PROVE n.pipe = pipe'[d]
      <4>1. m.pipe <= n.pipe
        BY <2>2, <3>3, <3>5, SMTT(30) DEF Ahead
      <4>2. n \in Held /\ pipe[d] # NoPipe
        BY <2>2, <3>1, <3>2, <3>5, FleetAssumption, ZenonT(30)
      <4>3. n.pipe <= m.pipe
        BY <3>1, <3>5, <4>2, ZenonT(30) DEF RouteInv, NoneNewer
      <4>4. n.pipe \in Nat /\ m.pipe \in Nat
        BY <1>0, <3>2, <4>2, FleetAssumption, ZenonT(30) DEF Message
      <4>5. n.pipe = m.pipe
        BY <4>1, <4>3, <4>4, SMTT(30)
      <4> QED BY <2>1, <3>1, <4>5
    <3> QED BY <3>4, <3>5
  <2> QED BY <2>3, <2>4
<1>2. CASE RestartRouter
  <2>1. byPipe' = << >>
    BY <1>2 DEF RestartRouter, RegistryRestart
  <2>2. DOMAIN byPipe' = {}
    BY <2>1
  <2> QED BY <2>2
<1> DEFINE RoutesKept == /\ UNCHANGED byPipe /\ DOMAIN byID \subseteq DOMAIN byID'
                         /\ \A id \in DOMAIN byID : byID'[id].pipe = byID[id].pipe
<1>3. ASSUME FleetTick PROVE RoutesKept
  <2>1. byID' = Aged(byID) /\ UNCHANGED byPipe
    BY <1>3 DEF FleetTick, RegistryTick
  <2> QED BY <2>1 DEF Aged, TypeOK, NodeEntry
<1>4. ASSUME ~Answer, ~RestartRouter, ~FleetTick PROVE RoutesKept
  <2>1. byID' = byID /\ byPipe' = byPipe
    BY <1>4, RegistryAlone
  <2> QED BY <2>1
<1>5. CASE RoutesKept
  <2>1. /\ pipe'[d] = pipe[d]
        /\ \A m \in Held' : m.from = d => m \in Held \/ m.pipe = pipe[d]
    BY <1>0, <1>5, MeshStep, FleetAssumption, SMTT(30)
  <2> QED BY <1>0, <1>5, <2>1, ZenonT(30) DEF Routed
<1> QED BY <1>1, <1>2, <1>3, <1>4, <1>5, Zenon

(* Where each node has one worker, all of the above holds together.        *)
LEMMA RoutesAreKept ==
  ASSUME \A d, e \in Daemon : Serves(d) = Serves(e) => d = e
  PROVE  FleetSafetySpec => [](AckInv /\ OtherTypeOK /\ RouteInv)
<1>1. FleetInit => RouteInv /\ AckInv /\ OtherTypeOK
  <2> SUFFICES ASSUME FleetInit PROVE RouteInv /\ AckInv /\ OtherTypeOK
    OBVIOUS
  <2>1. DaemonTypeOK
    BY Durations DEF FleetInit, NewDaemon, DaemonTypeOK
  <2>2. OtherTypeOK
    BY <2>1, FleetAssumption DEF FleetInit, OtherTypeOK
  <2>3. AckInv
    BY DEF FleetInit, AckInv, AckTypeOK, OkGranted
  <2>4. RouteInv
    BY DEF FleetInit, newNodeRegistry, RouteInv, PipesInOrder, NoneNewer, Routed, Held
  <2> QED BY <2>2, <2>3, <2>4
<1>2. /\ TypeOK /\ MeshTypeOK /\ OwnerInv /\ AckInv /\ OtherTypeOK /\ RouteInv
      /\ [FleetNext]_fleetVars
      => RouteInv' /\ AckInv' /\ OtherTypeOK'
  <2> SUFFICES ASSUME TypeOK, MeshTypeOK, OwnerInv, AckInv, OtherTypeOK, RouteInv, [FleetNext]_fleetVars
               PROVE  RouteInv' /\ AckInv' /\ OtherTypeOK'
    OBVIOUS
  <2>1. PipesInOrder' /\ NoneNewer'
    BY OrderPreserved, NoneNewerPreserved DEF RouteInv
  <2>2. \A d \in Daemon : Routed(d)'
    BY <2>1, RoutedPreserved
  <2>3. AckInv'
    BY AckPreserved
  <2>4. OtherTypeOK'
    BY OtherTypePreserved DEF AckInv
  <2> QED BY <2>1, <2>2, <2>3, <2>4 DEF RouteInv
<1>3. FleetSafetySpec => []TypeOK
  BY FleetImplementsRegistry, TypeCorrect, PTL
<1> QED BY <1>1, <1>2, <1>3, MeshTypeCorrect, PipesHaveOneOwner, PTL DEF FleetSafetySpec

(* Where each node has one worker, the connection a worker was last        *)
(* accepted on is where its node's jobs go, whatever late heartbeats of    *)
(* its earlier connections are still queued (recvLoop and upsert,          *)
(* server.go:139-160, nodes.go:139-156).  Two workers enrolled under one   *)
(* name take the route from one another with every heartbeat, so the       *)
(* hypothesis is needed.                                                   *)
THEOREM AcceptedIsRoute ==
  ASSUME \A d, e \in Daemon : Serves(d) = Serves(e) => d = e
  PROVE  FleetSafetySpec => []AcceptedConnectionIsRoute
<1>1. FleetSafetySpec => []TypeOK
  BY FleetImplementsRegistry, TypeCorrect, PTL
<1>2. TypeOK /\ MeshTypeOK /\ AckInv /\ OtherTypeOK /\ RouteInv => AcceptedConnectionIsRoute
  BY ZenonT(30) DEF MeshTypeOK, AckInv, AckTypeOK, OtherTypeOK, RouteInv, Routed, FleetTypeOK, AcceptedConnectionIsRoute
<1>3. FleetSafetySpec => [](AckInv /\ OtherTypeOK /\ RouteInv)
  BY RoutesAreKept
<1> QED BY <1>1, <1>2, <1>3, MeshTypeCorrect, PTL

(* Where each node has one worker, one that comes to believe it is         *)
(* registered, by an acceptance on the connection it has, is listed and    *)
(* dispatched to on that connection, although acks of broken connections   *)
(* may still be in its queue (sendAck after upsert in handleHeartbeat,     *)
(* server.go:226-242, and handleAck, daemon.go:257-266).                   *)
THEOREM RegisteredIsRouted ==
  ASSUME \A d, e \in Daemon : Serves(d) = Serves(e) => d = e
  PROVE  FleetSafetySpec => RegisteredMeansRouted
<1> DEFINE A == \A d \in Daemon :
                  state[d] # "registered" /\ state'[d] = "registered" /\ Head(acks[d]).pipe = pipe[d] =>
                    Serves(d) \in DOMAIN byID' /\ byID'[Serves(d)].pipe = pipe[d]
<1>1. AckInv /\ OtherTypeOK /\ RouteInv /\ [FleetNext]_fleetVars => [A]_fleetVars
  <2> SUFFICES ASSUME AckInv, OtherTypeOK, RouteInv, FleetNext, NEW c \in Daemon,
                      state[c] # "registered", state'[c] = "registered", Head(acks[c]).pipe = pipe[c]
               PROVE  Serves(c) \in DOMAIN byID' /\ byID'[Serves(c)].pipe = pipe[c]
    OBVIOUS
  <2>1. RecvAck(c) /\ Head(acks[c]).verdict = "ok"
    BY OnlyAcksRegister DEF OtherTypeOK
  <2>2. acks[c] # << >> /\ acks[c] \in Seq(Ack) /\ UNCHANGED byID
    BY <2>1, ZenonT(30) DEF RecvAck, registryVars, AckInv, AckTypeOK
  <2>3. 1 \in DOMAIN acks[c] /\ Head(acks[c]) = acks[c][1]
    BY <2>2
  <2>4. pipe[c] \in DOMAIN byPipe
    BY <2>1, <2>3, ZenonT(30) DEF AckInv, OkGranted, Granted
  <2> QED BY <2>2, <2>4 DEF RouteInv, Routed
<1>2. FleetSafetySpec => [](AckInv /\ OtherTypeOK /\ RouteInv)
  BY RoutesAreKept
<1> QED BY <1>1, <1>2, PTL DEF FleetSafetySpec, RegisteredMeansRouted
=============================================================================
