------------------------------ MODULE Listener ------------------------------
(***************************************************************************)
(* The websocket listener under the router's mesh socket, listener and     *)
(* wsPipe of internal/mesh/wstransport/ws.go.                              *)
(*                                                                         *)
(* net/http runs ServeHTTP in a goroutine for every connection; a mangos   *)
(* goroutine calls Accept again and again.  They share the listener under  *)
(* l.lock, and Accept waits on l.cv.  ServeHTTP looks at l.running and     *)
(* lets go of the lock before the upgrade, so the listener may be closed   *)
(* before the handler has queued its pipe.                                 *)
(*                                                                         *)
(* mangos is external: it closes a pipe it has accepted when the peer is   *)
(* gone, perhaps twice, and once its socket is closed it closes the        *)
(* listener and then every pipe it has.  OptionWebSocketHandler, which the *)
(* program does not use, is left out.                                      *)
(***************************************************************************)
EXTENDS Integers, Sequences, FiniteSets, Functions

CONSTANT Conn     \* connections that workers make; a redial is a new one

VARIABLES
  running, closed,\* l.running, l.closed
  pending,        \* l.pending
  acceptor,       \* the goroutine in Accept: ready, parked in cv.Wait, stopped
  stage,          \* connection -> where its ServeHTTP stands
  open,           \* the pipes with w.open
  wg,             \* connection -> count of w.wg
  inMesh,         \* the pipes Accept has returned
  late            \* the connections that were in their upgrade at the close

listenerVars == <<running, closed, pending, acceptor, stage, open, wg, inMesh, late>>

Stage == {"new", "upgrading", "serving", "returned"}
Pending == Range(pending)

ListenerTypeOK ==
  /\ running \in BOOLEAN /\ closed \in BOOLEAN /\ pending \in Seq(Conn)
  /\ acceptor \in {"none", "ready", "parked", "stopped"} /\ stage \in [Conn -> Stage]
  /\ open \subseteq Conn /\ wg \in [Conn -> {0, 1}]
  /\ inMesh \subseteq Conn /\ late \subseteq Conn

NewListener ==
  /\ running = FALSE /\ closed = FALSE /\ pending = << >> /\ acceptor = "none"
  /\ stage = [c \in Conn |-> "new"] /\ open = {} /\ wg = [c \in Conn |-> 0]
  /\ inMesh = {} /\ late = {}

Goto(c, s) == stage' = [stage EXCEPT ![c] = s]

-----------------------------------------------------------------------------
(* Listen; mangos then starts to accept.  When the port is taken, or the   *)
(* TLS configuration is missing, nothing has changed.                      *)
Listen ==
  /\ ~closed /\ ~running
  /\ pending' = << >> /\ running' = TRUE /\ acceptor' = "ready"
  /\ UNCHANGED <<closed, stage, open, wg, inMesh, late>>

(* l.cv.Broadcast.                                                         *)
Woken == IF acceptor = "parked" THEN "ready" ELSE acceptor

(* One round of the loop of Accept: the newest connection comes first.     *)
Accept ==
  /\ acceptor = "ready"
  /\ \/ ~running /\ acceptor' = "stopped" /\ UNCHANGED <<pending, inMesh>>
     \/ running /\ pending = << >> /\ acceptor' = "parked" /\ UNCHANGED <<pending, inMesh>>
     \/ /\ running /\ pending # << >>
        /\ LET n == Len(pending)
           IN  inMesh' = inMesh \cup {pending[n]} /\ pending' = SubSeq(pending, 1, n - 1)
        /\ UNCHANGED acceptor
  /\ UNCHANGED <<running, closed, stage, open, wg, late>>

(* ServeHTTP: the subprotocol matches and the listener runs; otherwise the *)
(* request is refused.  Then the upgrade, which may fail.                  *)
ServeHTTP(c) ==
  /\ stage[c] = "new" /\ acceptor # "none"
  /\ Goto(c, IF running THEN "upgrading" ELSE "returned")
  /\ UNCHANGED <<running, closed, pending, acceptor, open, wg, inMesh, late>>
Refuse(c) ==
  /\ stage[c] = "new" /\ acceptor # "none" /\ Goto(c, "returned")
  /\ UNCHANGED <<running, closed, pending, acceptor, open, wg, inMesh, late>>
UpgradeFails(c) ==
  /\ stage[c] = "upgrading" /\ Goto(c, "returned")
  /\ UNCHANGED <<running, closed, pending, acceptor, open, wg, inMesh, late>>

(* handler: queue the pipe and wake Accept, then wait for it to be closed. *)
AfterQueueing_Silent == acceptor
AfterQueueing == Woken
handler(c) ==
  /\ stage[c] = "upgrading" /\ Goto(c, "serving")
  /\ open' = open \cup {c} /\ wg' = [wg EXCEPT ![c] = @ + 1]
  /\ pending' = Append(pending, c) /\ acceptor' = AfterQueueing
  /\ UNCHANGED <<running, closed, inMesh, late>>
handlerReturns(c) ==
  /\ stage[c] = "serving" /\ wg[c] = 0 /\ Goto(c, "returned")
  /\ UNCHANGED <<running, closed, pending, acceptor, open, wg, inMesh, late>>

(* wsPipe.Close of each of a set of pipes.                                 *)
ClosePipes_Again(cs) ==
  open' = open \ cs /\ wg' = [c \in Conn |-> IF c \in cs THEN wg[c] - 1 ELSE wg[c]]
ClosePipes(cs) ==
  open' = open \ cs /\ wg' = [c \in Conn |-> IF c \in cs \cap open THEN wg[c] - 1 ELSE wg[c]]

meshClosesPipe(c) ==
  /\ c \in inMesh /\ ClosePipes({c})
  /\ UNCHANGED <<running, closed, pending, acceptor, stage, inMesh, late>>

(* Close, which returns an error and does nothing the second time.         *)
Upgrading == {c \in Conn : stage[c] = "upgrading"}
Close_LeavesPending ==
  /\ ~closed /\ closed' = TRUE /\ running' = FALSE /\ acceptor' = Woken /\ late' = Upgrading
  /\ UNCHANGED <<pending, stage, open, wg, inMesh>>
Close ==
  /\ ~closed /\ closed' = TRUE /\ running' = FALSE /\ acceptor' = Woken /\ late' = Upgrading
  /\ ClosePipes(Pending) /\ pending' = << >>
  /\ UNCHANGED <<stage, inMesh>>

ConnStep(c) ==
  ServeHTTP(c) \/ Refuse(c) \/ UpgradeFails(c) \/ handler(c) \/ handlerReturns(c) \/ meshClosesPipe(c)

ListenerNext == Listen \/ Accept \/ Close \/ \E c \in Conn : ConnStep(c)

(* Goroutines run, and a closed socket closes its pipes.                   *)
ListenerFairness ==
  /\ WF_listenerVars(Accept)
  /\ \A c \in Conn : /\ WF_listenerVars(handlerReturns(c))
                     /\ WF_listenerVars(closed /\ meshClosesPipe(c))

ListenerSpec == NewListener /\ [][ListenerNext]_listenerVars /\ ListenerFairness

-----------------------------------------------------------------------------
(* An open pipe has exactly one owner that will close it or hand it on:    *)
(* the mesh, or the pending list while the listener is open, and then      *)
(* Accept is not asleep.  The one exception is a connection that had       *)
(* passed the look at l.running and not yet queued its pipe when the       *)
(* listener was closed: that pipe stays on the list, open, with nobody to  *)
(* close it.  No other order of upgrades, Accept, Close and repeated       *)
(* closes loses a pipe, hands it out twice or lets its wait group go       *)
(* negative (ws.go:162-171, 360-435, 449-460).  The types hold too.        *)
OwnedOnce ==
  /\ ListenerTypeOK
  /\ \A i, j \in 1 .. Len(pending) : pending[i] = pending[j] => i = j
  /\ \A c \in Conn : /\ wg[c] = IF c \in open THEN 1 ELSE 0
                     /\ c \in open => (c \in Pending <=> c \notin inMesh) /\ stage[c] = "serving"
                     /\ c \in Pending => c \in open /\ ((acceptor = "ready" /\ ~closed) \/ c \in late)

(* The handlers at work when the listener is closed all return (ws.go:     *)
(* 413-435).  Not promised: that one returns whose ServeHTTP had seen      *)
(* l.running before the close and queues its pipe after it, where nobody   *)
(* looks any more.                                                         *)
CloseReleases ==
  \A c \in Conn : [](stage[c] = "serving" /\ ~closed => [](closed => <>(stage[c] = "returned")))
=============================================================================
