---------------------------- MODULE WorkerDaemon ----------------------------
(***************************************************************************)
(* A worker's view of its connection, internal/worker/daemon.go.           *)
(*                                                                         *)
(* Two goroutines share state, lastAck and rejectReason under d.mu:        *)
(* heartbeatLoop, which takes the mutex three times per tick (in           *)
(* checkDegraded, for the heartbeat it sends, and before it resets the     *)
(* ticker), and Run, which applies acks.  `loop' is where heartbeatLoop    *)
(* stands, or Run before it has started it.  A ticker is the time left     *)
(* until it next fires; it holds one tick for a loop that is late.         *)
(* warnCount only throttles log lines and is left out, as is the job side  *)
(* of Run (see RequestPath).                                               *)
(***************************************************************************)
EXTENDS Protocol

CONSTANTS
  Daemon,               \* worker processes
  RegistrationTick,     \* registrationTick
  HeartbeatInterval,    \* heartbeatInterval
  MaxSilence,           \* bound: the age of an ack is not told apart beyond it
  NoAck,                \* the zero lastAck
  NoReason              \* the empty rejectReason

degradedAfter == 3 * HeartbeatInterval

ASSUME DaemonAssumption ==
  /\ RegistrationTick \in Nat \ {0} /\ HeartbeatInterval \in Nat \ {0}
  /\ RegistrationTick <= HeartbeatInterval
  /\ MaxSilence \in Nat /\ degradedAfter + HeartbeatInterval < MaxSilence
  /\ NoAck \notin 0 .. MaxSilence /\ NoReason \notin Reason

VARIABLES
  state,                \* d.state, one of ConnState*
  lastAck,              \* d.lastAck as an age
  rejectReason,         \* d.rejectReason
  loop,                 \* Run: dial, failed; heartbeatLoop: announce, idle, send, settle
  period, wait          \* the ticker's period and the time to its next tick

daemonVars == <<state, lastAck, rejectReason, loop, period, wait>>

DaemonTypeOK ==
  /\ state \in [Daemon -> {"connecting", "registered", "degraded"}]
  /\ lastAck \in [Daemon -> (0 .. MaxSilence) \cup {NoAck}]
  /\ rejectReason \in [Daemon -> Reason \cup {NoReason}]
  /\ loop \in [Daemon -> {"dial", "failed", "announce", "idle", "send", "settle"}]
  /\ period \in [Daemon -> {RegistrationTick, HeartbeatInterval}]
  /\ wait \in [Daemon -> 0 .. HeartbeatInterval]

NewDaemon ==
  /\ state = [d \in Daemon |-> "connecting"]
  /\ lastAck = [d \in Daemon |-> NoAck]
  /\ rejectReason = [d \in Daemon |-> NoReason]
  /\ loop = [d \in Daemon |-> "dial"]
  /\ period = [d \in Daemon |-> RegistrationTick]
  /\ wait = [d \in Daemon |-> RegistrationTick]

-----------------------------------------------------------------------------
(* Run: the first Dial waits for the connection.  When it fails Run        *)
(* returns the error, which main logs; the process then only waits for the *)
(* signal to end.                                                          *)
dial(d) ==
  /\ loop[d] = "dial"
  /\ loop' = [loop EXCEPT ![d] = "announce"]
  /\ UNCHANGED <<state, lastAck, rejectReason, period, wait>>
dialFails(d) ==
  /\ loop[d] = "dial"
  /\ loop' = [loop EXCEPT ![d] = "failed"]
  /\ UNCHANGED <<state, lastAck, rejectReason, period, wait>>

(* Run has started heartbeatLoop.                                          *)
Running(d) == loop[d] \notin {"dial", "failed"}

(* heartbeatLoop before its for loop: the heartbeat is sent, then the      *)
(* ticker starts.                                                          *)
announce(d) ==
  /\ loop[d] = "announce"
  /\ loop' = [loop EXCEPT ![d] = "idle"]
  /\ wait' = [wait EXCEPT ![d] = RegistrationTick]
  /\ UNCHANGED <<state, lastAck, rejectReason, period>>

(* Ack silence beyond the degradation window.                              *)
Silent_Never(d) == FALSE
Silent(d) == lastAck[d] # NoAck /\ lastAck[d] > degradedAfter

(* A tick: checkDegraded.  The ticker starts its next period as it fires.  *)
checkDegraded(d) ==
  /\ loop[d] = "idle" /\ wait[d] = 0
  /\ loop' = [loop EXCEPT ![d] = "send"]
  /\ wait' = [wait EXCEPT ![d] = period[d]]
  /\ state' = [state EXCEPT ![d] = IF @ = "registered" /\ Silent(d) THEN "degraded" ELSE @]
  /\ UNCHANGED <<lastAck, rejectReason, period>>

(* sendHeartbeat, as the loop sees it: it may block while the mesh socket  *)
(* has no room.  What it sends is in Fleet.                                *)
sendHeartbeat(d) ==
  /\ loop[d] = "send"
  /\ loop' = [loop EXCEPT ![d] = "settle"]
  /\ UNCHANGED <<state, lastAck, rejectReason, period, wait>>

(* The rest of the tick: once registered, tick at heartbeatInterval.       *)
SettledPeriod == HeartbeatInterval
settle(d) ==
  /\ loop[d] = "settle"
  /\ loop' = [loop EXCEPT ![d] = "idle"]
  /\ IF state[d] = "registered"
     THEN /\ period' = [period EXCEPT ![d] = SettledPeriod]
          /\ wait' = [wait EXCEPT ![d] = SettledPeriod]
     ELSE UNCHANGED <<period, wait>>
  /\ UNCHANGED <<state, lastAck, rejectReason>>

(* handleAck.  An acceptance clears the reason of the last rejection, and  *)
(* ends a degraded spell.                                                  *)
StateAfter_StaysDegraded(d, ok) ==
  IF ~ok THEN "connecting" ELSE IF state[d] = "degraded" THEN "degraded" ELSE "registered"
StateAfter(d, ok) == IF ok THEN "registered" ELSE "connecting"
ReasonAfter_Sticky(d, ok, reason) == IF ok THEN rejectReason[d] ELSE reason
ReasonAfter(d, ok, reason) == IF ok THEN NoReason ELSE reason
handleAck(d, ok, reason) ==
  /\ lastAck' = [lastAck EXCEPT ![d] = 0]
  /\ rejectReason' = [rejectReason EXCEPT ![d] = ReasonAfter(d, ok, reason)]
  /\ state' = [state EXCEPT ![d] = StateAfter(d, ok)]
  /\ UNCHANGED <<loop, period, wait>>

(* The process ends and is started again (cmd/worker/main.go).             *)
restart(d) ==
  /\ state' = [state EXCEPT ![d] = "connecting"]
  /\ lastAck' = [lastAck EXCEPT ![d] = NoAck]
  /\ rejectReason' = [rejectReason EXCEPT ![d] = NoReason]
  /\ loop' = [loop EXCEPT ![d] = "dial"]
  /\ period' = [period EXCEPT ![d] = RegistrationTick]
  /\ wait' = [wait EXCEPT ![d] = RegistrationTick]

(* Time passes, also while the first Dial waits; `blocked' are the daemons *)
(* whose Send waits for room in the mesh socket.  Any other loop that has  *)
(* something to do does it before the next time unit, which is far longer  *)
(* than a goroutine waits to be scheduled.                                 *)
Prompt(d, blocked) ==
  CASE loop[d] = "idle" -> wait[d] > 0
    [] loop[d] = "settle" -> FALSE
    [] loop[d] \in {"announce", "send"} -> d \in blocked
    [] OTHER -> TRUE
Ticking(d) == Running(d) /\ loop[d] # "announce"
DaemonTick(blocked) ==
  /\ \A d \in Daemon : Prompt(d, blocked)
  /\ lastAck' = [d \in Daemon |-> IF lastAck[d] \in {NoAck, MaxSilence} THEN lastAck[d] ELSE lastAck[d] + 1]
  /\ wait' = [d \in Daemon |-> IF Ticking(d) /\ wait[d] > 0 THEN wait[d] - 1 ELSE wait[d]]
  /\ UNCHANGED <<state, rejectReason, loop, period>>

(* One daemon alone: its Send never waits, and any answer may come to any  *)
(* heartbeat it has sent, at any time, any number of times or never.       *)
DaemonStep(d) ==
  \/ dial(d) \/ dialFails(d) \/ announce(d) \/ checkDegraded(d) \/ sendHeartbeat(d)
  \/ settle(d) \/ restart(d)
  \/ /\ Ticking(d)
     /\ \/ handleAck(d, TRUE, NoReason)
        \/ \E reason \in Reason : handleAck(d, FALSE, reason)

DaemonNext == (\E d \in Daemon : DaemonStep(d)) \/ DaemonTick({})

DaemonSpec == NewDaemon /\ [][DaemonNext]_daemonVars

-----------------------------------------------------------------------------
(* What a worker reports of itself is what its acks told it: it is         *)
(* connecting exactly while it has heard nothing or the last word was a    *)
(* rejection, through every interleaving of ticks with acks                *)
(* (daemon.go:41-42, 254-298).  So a registered worker whose enrollment is *)
(* revoked goes back to connecting; heartbeat.go:12-16 keeps that state    *)
(* for a worker without any ack and calls "auth reversal" degraded.        *)
ConnStateMatchesAcks ==
  \A d \in Daemon :
    state[d] = "connecting" <=> (lastAck[d] = NoAck \/ rejectReason[d] # NoReason)

(* A worker whose Send does not block calls itself registered for at most  *)
(* one heartbeat beyond the degradation window of ack silence, whichever   *)
(* of its two tick rates it runs at (daemon.go:33-36, 207-220).            *)
SilenceNoticed ==
  \A d \in Daemon : state[d] = "registered" => lastAck[d] <= degradedAfter + HeartbeatInterval
=============================================================================
