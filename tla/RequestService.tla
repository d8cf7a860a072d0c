--------------------------- MODULE RequestService ---------------------------
(***************************************************************************)
(* What the router promises the client of a chat completion, without the   *)
(* registry, the mesh, the sessions and the workers behind it.             *)
(*                                                                         *)
(* A request is refused, or the answer of an engine is passed on to the    *)
(* client chunk by chunk, in order and none twice, until it is closed with *)
(* one outcome, 200 or 502, after which nothing more is passed on.  200    *)
(* means that the engine's answer was passed on whole, unless something of *)
(* it was lost on the way.                                                 *)
(***************************************************************************)
EXTENDS Integers, Sequences

CONSTANT Request

VARIABLES
  status,      \* request -> new, open or closed
  outcome,     \* request -> its outcomes, in order
  produced,    \* request -> how many chunks the engine has produced
  passed,      \* request -> the chunks passed on
  lossy        \* the requests something of which was lost

serviceVars == <<status, outcome, produced, passed, lossy>>

ServiceInit ==
  /\ status = [r \in Request |-> "new"] /\ outcome = [r \in Request |-> << >>]
  /\ produced = [r \in Request |-> 0] /\ passed = [r \in Request |-> << >>] /\ lossy = {}

Close(r, code) ==
  /\ status' = [status EXCEPT ![r] = "closed"] /\ outcome' = [outcome EXCEPT ![r] = <<code>>]

RefuseRequest(r) ==
  /\ status[r] = "new" /\ Close(r, 503) /\ UNCHANGED <<produced, passed, lossy>>

(* The request is on its way to an engine, or lost at once.                *)
Open(r) ==
  /\ status[r] = "new" /\ status' = [status EXCEPT ![r] = "open"]
  /\ lossy' \in {lossy, lossy \cup {r}} /\ UNCHANGED <<outcome, produced, passed>>

(* An engine may go on after the request is closed: nobody stops it.       *)
Produce(r) ==
  /\ status[r] # "new" /\ produced' = [produced EXCEPT ![r] = @ + 1]
  /\ UNCHANGED <<status, outcome, passed, lossy>>

Lose ==
  /\ lossy' \in {lossy \cup rs : rs \in SUBSET {r \in Request : status[r] # "new"}}
  /\ UNCHANGED <<status, outcome, produced, passed>>

(* The next chunk, or a later one when those between were lost.  The write *)
(* may show that the client has left, which closes the request.            *)
PassOn(r) ==
  /\ status[r] = "open"
  /\ \E n \in 1 .. produced[r] :
       /\ \A i \in 1 .. Len(passed[r]) : passed[r][i] < n
       /\ r \notin lossy => n = Len(passed[r]) + 1
       /\ passed' = [passed EXCEPT ![r] = Append(@, n)]
  /\ Close(r, 502) \/ UNCHANGED <<status, outcome>>
  /\ UNCHANGED <<produced, lossy>>

Finish(r) ==
  /\ status[r] = "open"
  /\ \/ Close(r, 502)
     \/ (r \in lossy \/ Len(passed[r]) = produced[r]) /\ Close(r, 200)
  /\ UNCHANGED <<produced, passed, lossy>>

ServiceNext ==
  Lose \/ \E r \in Request : RefuseRequest(r) \/ Open(r) \/ Produce(r) \/ PassOn(r) \/ Finish(r)

ServiceSpec == ServiceInit /\ [][ServiceNext]_serviceVars
=============================================================================
