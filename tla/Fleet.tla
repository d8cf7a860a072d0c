------------------------------- MODULE Fleet --------------------------------
(***************************************************************************)
(* Heartbeats end to end: worker daemons, the mesh, and the router's       *)
(* recvLoop with handleHeartbeat (internal/router/server.go), composed     *)
(* from WorkerDaemon and NodeRegistry.                                     *)
(*                                                                         *)
(* recvLoop is one goroutine, so at most one heartbeat is being handled.   *)
(* It is handled in two steps, because an admin may revoke the enrollment  *)
(* between the IsActive query and the registry update.                     *)
(*                                                                         *)
(* The mesh socket (mangos) is external: a connection is a pipe id the     *)
(* router has not used before; messages on it arrive in order; when it     *)
(* breaks, messages on the wire are lost, heartbeats still in the worker's *)
(* send queue wait for the next connection, and what is in the receive     *)
(* queue of either side is handled; an ack to a pipe that is gone is       *)
(* dropped.                                                                *)
(*                                                                         *)
(* No decision on this path depends on the connection state and the load   *)
(* a heartbeat reports, so a message is the pipe and the daemon it came    *)
(* from, and the two are any value when the registry stores them.          *)
(***************************************************************************)
EXTENDS NodeRegistry, WorkerDaemon

CONSTANTS
  Token,          \* enrollment tokens
  Invalid,        \* the tokens signer.Parse refuses
  TokenOf,        \* Daemon -> Token: enrollmentToken
  NodeIDOf,       \* Daemon -> Node or NoName: hb.NodeID
  SubjectOf,      \* Token -> Node: enr.NodeName
  NoPipe,         \* not connected
  Capacity,       \* bound: heartbeats and acks of one daemon under way
  MaxFaults       \* bound: broken connections, restarts and failed queries

ASSUME FleetAssumption ==
  /\ Invalid \subseteq Token /\ NoPipe \notin Pipe /\ Pipe \subseteq Nat
  /\ TokenOf \in [Daemon -> Token] /\ NodeIDOf \in [Daemon -> Node \cup {NoName}]
  /\ SubjectOf \in [Token -> Node]
  /\ Capacity \in Nat \ {0} /\ MaxFaults \in Nat
  /\ {"auth_failed", "inactive", "internal"} \subseteq Reason

VARIABLES
  active,         \* the tokens IsActive accepts
  pipe,           \* daemon -> the pipe it is connected on
  nextPipe,       \* the next pipe id the router's socket hands out
  outgoing,       \* daemon -> heartbeats sent that have not arrived
  inbox,          \* the router's receive queue
  handling,       \* the heartbeat recvLoop is handling, as a sequence of 0 or 1
  acks,           \* daemon -> acks on their way to it, or in its receive queue
  faults          \* how many faults have happened

meshVars == <<pipe, nextPipe, outgoing, inbox, handling, acks>>
fleetVars == <<registryVars, daemonVars, meshVars, active, faults>>

Verdict == Reason \cup {"ok"}
Message == [pipe : Pipe, from : Daemon]
Ack == [pipe : Pipe, verdict : Verdict]

FleetTypeOK ==
  /\ TypeOK /\ DaemonTypeOK
  /\ active \subseteq Token /\ faults \in 0 .. MaxFaults
  /\ pipe \in [Daemon -> Pipe \cup {NoPipe}] /\ nextPipe \in Nat
  /\ outgoing \in [Daemon -> Nat] /\ inbox \in Seq(Message)
  /\ handling \in Seq([m : Message, verdict : Verdict]) /\ Len(handling) <= 1
  /\ acks \in [Daemon -> Seq(Ack)]

FleetInit ==
  /\ newNodeRegistry /\ NewDaemon
  /\ active = Token \ Invalid /\ faults = 0
  /\ pipe = [d \in Daemon |-> NoPipe] /\ nextPipe = 1
  /\ outgoing = [d \in Daemon |-> 0] /\ inbox = << >>
  /\ handling = << >> /\ acks = [d \in Daemon |-> << >>]

-----------------------------------------------------------------------------
(* The mesh as the daemon uses it.                                         *)
UnderWay(d) ==
  outgoing[d] + Len(acks[d]) + Cardinality({i \in DOMAIN inbox : inbox[i].from = d})
    + Cardinality({i \in DOMAIN handling : handling[i].m.from = d})
Blocked(d) == UnderWay(d) >= Capacity

(* mesh.Worker.Send of one heartbeat.                                      *)
Send(d) ==
  /\ ~Blocked(d)
  /\ outgoing' = [outgoing EXCEPT ![d] = @ + 1]
  /\ UNCHANGED <<pipe, nextPipe, inbox, handling, acks>>

(* The dialer connects, for the first Dial or after a break.               *)
Attach(d) ==
  /\ pipe[d] = NoPipe /\ nextPipe \in Pipe
  /\ pipe' = [pipe EXCEPT ![d] = nextPipe] /\ nextPipe' = nextPipe + 1
  /\ UNCHANGED <<registryVars, outgoing, inbox, handling, acks, active, faults>>
Dial(d) == dial(d) /\ Attach(d)
Connect(d) == Running(d) /\ Attach(d) /\ UNCHANGED daemonVars

Arrive(d) ==
  /\ pipe[d] # NoPipe /\ outgoing[d] > 0
  /\ outgoing' = [outgoing EXCEPT ![d] = @ - 1]
  /\ inbox' = Append(inbox, [pipe |-> pipe[d], from |-> d])
  /\ UNCHANGED <<registryVars, daemonVars, pipe, nextPipe, handling, acks, active, faults>>

(* The connection of d, if it has one, breaks; `kept' of its heartbeats    *)
(* were still queued, and `heard' of the acks to it had come in.           *)
Break(d, kept, heard) ==
  /\ pipe' = [pipe EXCEPT ![d] = NoPipe]
  /\ acks' = [acks EXCEPT ![d] = SubSeq(@, 1, heard)]
  /\ outgoing' = [outgoing EXCEPT ![d] = kept]
  /\ UNCHANGED <<nextPipe, inbox, handling>>

Fault == faults < MaxFaults /\ faults' = faults + 1
Disconnect(d) ==
  /\ Fault /\ pipe[d] # NoPipe
  /\ \E kept \in 0 .. outgoing[d], heard \in 0 .. Len(acks[d]) : Break(d, kept, heard)
  /\ UNCHANGED <<registryVars, daemonVars, active>>

(* The router is down or out of reach when the daemon starts.              *)
DialFails(d) ==
  /\ Fault /\ dialFails(d)
  /\ UNCHANGED <<registryVars, meshVars, active>>

-----------------------------------------------------------------------------
(* Daemon steps on the mesh.                                               *)
Beat(d) ==
  /\ announce(d) \/ sendHeartbeat(d)
  /\ Send(d)
  /\ UNCHANGED <<registryVars, active, faults>>

LoopStep(d) ==
  /\ checkDegraded(d) \/ settle(d)
  /\ UNCHANGED <<registryVars, meshVars, active, faults>>

RecvAck(d) ==
  /\ acks[d] # << >>
  /\ acks' = [acks EXCEPT ![d] = Tail(@)]
  /\ LET v == Head(acks[d]).verdict
     IN  IF v = "ok" THEN handleAck(d, TRUE, NoReason) ELSE handleAck(d, FALSE, v)
  /\ UNCHANGED <<registryVars, pipe, nextPipe, outgoing, inbox, handling, active, faults>>

(* The queues of its socket end with the process.                          *)
RestartDaemon(d) ==
  /\ Fault /\ restart(d) /\ Break(d, 0, 0)
  /\ UNCHANGED <<registryVars, active>>

-----------------------------------------------------------------------------
(* What the checks of handleHeartbeat say of a token at this moment.       *)
VerdictOf_Unchecked(t) == IF t \in Invalid THEN "auth_failed" ELSE "ok"
VerdictOf(t) ==
  IF t \in Invalid THEN "auth_failed" ELSE IF t \in active THEN "ok" ELSE "inactive"

(* recvLoop takes the next heartbeat; handleHeartbeat up to IsActive.      *)
Check ==
  /\ handling = << >> /\ inbox # << >>
  /\ inbox' = Tail(inbox)
  /\ LET t == TokenOf[Head(inbox).from]
     IN  \/ /\ handling' = <<[m |-> Head(inbox), verdict |-> VerdictOf(t)]>>
            /\ UNCHANGED faults
         \/ /\ Fault /\ t \notin Invalid
            /\ handling' = <<[m |-> Head(inbox), verdict |-> "internal"]>>
  /\ UNCHANGED <<registryVars, daemonVars, pipe, nextPipe, outgoing, acks, active>>

(* sendAck: whoever is on the pipe gets it, or nobody.                     *)
sendAck_AlwaysOK(p, verdict) ==
  acks' = [d \in Daemon |-> IF pipe[d] = p
                            THEN Append(acks[d], [pipe |-> p, verdict |-> "ok"]) ELSE acks[d]]
sendAck(p, verdict) ==
  acks' = [d \in Daemon |-> IF pipe[d] = p
                            THEN Append(acks[d], [pipe |-> p, verdict |-> verdict]) ELSE acks[d]]

(* The name a heartbeat counts for: the subject of its token, not the node *)
(* id it carries, which is believed only for the claim of a bad token.     *)
NodeName_Claimed(m) == NodeIDOf[m.from]
NodeName(m) == SubjectOf[TokenOf[m.from]]
ClaimName(m, verdict) == IF verdict = "auth_failed" THEN NodeIDOf[m.from] ELSE NodeName(m)

(* The rest of handleHeartbeat: update the registry and answer.            *)
Answer ==
  /\ handling # << >>
  /\ handling' = << >>
  /\ LET m == handling[1].m
         v == handling[1].verdict
     IN  /\ IF v = "ok"
            THEN \E s \in ConnState, n \in Load : upsert(NodeName(m), m.pipe, s, n)
            ELSE recordClaim(ClaimName(m, v), v)
         /\ sendAck(m.pipe, v)
  /\ UNCHANGED <<daemonVars, pipe, nextPipe, outgoing, inbox, active, faults>>

(* The router process dies and starts again: the registry is empty, every  *)
(* connection is gone, enrollments are in the database.  The workers keep  *)
(* what their queues hold, as in Break.                                    *)
RestartRouter ==
  /\ Fault /\ RegistryRestart
  /\ pipe' = [d \in Daemon |-> NoPipe]
  /\ inbox' = << >> /\ handling' = << >>
  /\ outgoing' \in {f \in [Daemon -> 0 .. Capacity] : \A d \in Daemon : f[d] <= outgoing[d]}
  /\ \E heard \in [Daemon -> 0 .. Capacity] :
       /\ \A d \in Daemon : heard[d] <= Len(acks[d])
       /\ acks' = [d \in Daemon |-> SubSeq(acks[d], 1, heard[d])]
  /\ UNCHANGED <<daemonVars, nextPipe, active>>

(* An admin revokes a token.  Expiry is left out.                          *)
Revoke(t) ==
  /\ t \in active
  /\ active' = active \ {t}
  /\ UNCHANGED <<registryVars, daemonVars, meshVars, faults>>

FleetTick ==
  /\ RegistryTick /\ DaemonTick({d \in Daemon : Blocked(d)})
  /\ UNCHANGED <<meshVars, active, faults>>

FleetNext ==
  \/ \E d \in Daemon : \/ Dial(d) \/ DialFails(d) \/ Connect(d) \/ Arrive(d)
                       \/ Disconnect(d) \/ RestartDaemon(d) \/ Beat(d) \/ LoopStep(d) \/ RecvAck(d)
  \/ \E t \in Token : Revoke(t)
  \/ Check \/ Answer \/ RestartRouter \/ FleetTick

(* The dialer redials, goroutines run, messages on a connection arrive and *)
(* time passes.  Faults and revocations need not happen.                   *)
FleetFairness ==
  /\ WF_fleetVars(Check) /\ WF_fleetVars(Answer) /\ WF_fleetVars(FleetTick)
  /\ \A d \in Daemon : /\ WF_fleetVars(Dial(d)) /\ WF_fleetVars(Connect(d))
                       /\ WF_fleetVars(Arrive(d)) /\ WF_fleetVars(Beat(d))
                       /\ WF_fleetVars(LoopStep(d)) /\ WF_fleetVars(RecvAck(d))

FleetSafetySpec == FleetInit /\ [][FleetNext]_fleetVars
FleetSpec == FleetSafetySpec /\ FleetFairness

-----------------------------------------------------------------------------
(* fleetView: the registered nodes, then the claims of names not among     *)
(* them as connecting.                                                     *)
fleetView_NodesOnly == [id \in DOMAIN byID |-> NodeStatus(id)]
fleetView ==
  [id \in DOMAIN byID \cup ClaimsSnapshot |->
     IF id \in DOMAIN byID THEN NodeStatus(id) ELSE "connecting"]

(* A daemon with a valid token, and the node it serves as.                 *)
Enrolled(d) == TokenOf[d] \in active
Serves(d) == SubjectOf[TokenOf[d]]

(* A job dispatched to a node over the pipe in its entry can only reach a  *)
(* worker whose token names that node, through reconnects, late heartbeats *)
(* of broken connections and restarts (server.go:225-241, nodes.go:139-157)*)
DispatchReachesNode ==
  \A id \in DOMAIN byID, d \in Daemon : byID[id].pipe = pipe[d] => Serves(d) = id

(* Once a heartbeat on a worker's present connection has been accepted,    *)
(* its node is dispatched to on that connection: a late heartbeat of an    *)
(* earlier connection never takes the route back (server.go:139-160,       *)
(* nodes.go:155-156).  The types hold too.                                 *)
AcceptedConnectionIsRoute ==
  /\ FleetTypeOK
  /\ \A d \in Daemon :
       pipe[d] \in DOMAIN byPipe =>
         Serves(d) \in DOMAIN byID /\ byID[Serves(d)].pipe = pipe[d]

(* A worker that comes to believe it is registered, by an acceptance on    *)
(* the connection it still has, is listed and dispatched to on that        *)
(* connection, whatever was queued before and whatever restarted           *)
(* (server.go:225-241, nodes.go:139-157, daemon.go:260-266).  One that was *)
(* left in its queue by a connection that broke may be believed although   *)
(* the router, restarted, does not know the worker yet.                    *)
RegisteredMeansRouted ==
  [][\A d \in Daemon :
       state[d] # "registered" /\ state'[d] = "registered" /\ Head(acks[d]).pipe = pipe[d] =>
         Serves(d) \in DOMAIN byID' /\ byID'[Serves(d)].pipe = pipe[d]]_fleetVars

(* A worker whose enrollment stays active is registered and available for  *)
(* work again and again, however connections break and processes restart,  *)
(* a belief in an outdated acceptance included; unless the first Dial of   *)
(* its process failed, after which nothing dials again (daemon.go:137-144, *)
(* cmd/worker/main.go:70-74).                                              *)
EnrolledIsServed ==
  \A d \in Daemon :
    [](Enrolled(d)) => \/ []<>(state[d] = "registered" /\ selectLeastConnections = Serves(d))
                      \/ <>[](loop[d] = "failed")

(* A worker whose enrollment is revoked ends up knowing so for good, if it *)
(* ever connected, and the router ends up never selecting its node         *)
(* (server.go:219-224, nodes.go:241-243): when, see RevokedIsDropped.      *)
RevokedIsRetired ==
  \A d \in Daemon :
    <>(~Enrolled(d)) =>
      <>[](/\ state[d] = "connecting" /\ (rejectReason[d] # NoReason \/ loop[d] = "failed")
           /\ selectLeastConnections # Serves(d))

(* Revoking a token means that "a connected worker is dropped on its next  *)
(* heartbeat" (internal/auth/enrollment.go:74-77), "within one heartbeat   *)
(* interval" (internal/admin/server.go:457-459): once a worker has been    *)
(* told so, its node is not selected.  handleHeartbeat only records a      *)
(* claim (server.go:219-224) and the entry stays until it is stale.        *)
RevokedIsDropped ==
  \A d \in Daemon : rejectReason[d] = "inactive" => selectLeastConnections # Serves(d)

(* fleetView gives operators "one table that shows every machine trying to *)
(* join" (internal/admin/server.go:256-258): a worker that keeps trying    *)
(* with a revoked token is listed again and again, and not as online, even *)
(* when a restarted router never had an entry for it.                      *)
RefusedIsShown ==
  \A d \in Daemon :
    <>(~Enrolled(d) /\ TokenOf[d] \notin Invalid) =>
      \/ []<>(Serves(d) \in DOMAIN fleetView /\ fleetView[Serves(d)] # "online")
      \/ <>[](loop[d] = "failed")
=============================================================================
