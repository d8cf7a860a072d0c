---------------------------- MODULE NodeRegistry ----------------------------
(***************************************************************************)
(* The router's in-memory node registry, internal/router/nodes.go.         *)
(*                                                                         *)
(* Every operation runs under nodeRegistry.mu, so each is one action;      *)
(* RegistryTick is the passing of time.  upsert's second half, persist,    *)
(* runs after the mutex is released and is the subject of NodeStore.       *)
(*                                                                         *)
(* byPipe holds the id of the entry the Go map points to: id is the only   *)
(* field ever read through byPipe.  A claim keeps its reason and its age;  *)
(* its pipe and detail are never read again.                               *)
(***************************************************************************)
EXTENDS Protocol

CONSTANTS
  Node,           \* node names: enr.NodeName, or hb.NodeID in a refused claim
  NoName,         \* the empty node id
  Pipe,           \* mesh.PipeID
  StaleAfter,     \* nodeStaleAfter
  ClaimExpiry,    \* claimExpiry
  ClaimMax        \* claimMaxEntries

ASSUME RegistryAssumption ==
  /\ NoName \notin Node
  /\ StaleAfter \in Nat /\ ClaimExpiry \in Nat /\ ClaimMax \in Nat \ {0}
  /\ StaleAfter < MaxAge /\ ClaimExpiry < MaxAge

VARIABLES
  byID,           \* node id -> entry
  byPipe,         \* pipe -> id of the entry last seen on it
  order,          \* registered ids, oldest registration first
  claims          \* node id -> refused connection attempt

registryVars == <<byID, byPipe, order, claims>>

NodeEntry == [pipe : Pipe, connectionState : ConnState, activeRequests : Load, age : Age]
ClaimEntry == [reason : Reason, age : Age]

TypeOK ==
  /\ DOMAIN byID \subseteq Node /\ byID \in [DOMAIN byID -> NodeEntry]
  /\ DOMAIN byPipe \subseteq Pipe /\ byPipe \in [DOMAIN byPipe -> Node]
  /\ order \in Seq(Node)
  /\ DOMAIN claims \subseteq Node /\ claims \in [DOMAIN claims -> ClaimEntry]

newNodeRegistry ==
  /\ byID = << >> /\ byPipe = << >> /\ order = << >> /\ claims = << >>

-----------------------------------------------------------------------------
(* f with key k set to v: the assignment f[k] = v on a Go map.             *)
Put(f, k, v) == [x \in DOMAIN f \cup {k} |-> IF x = k THEN v ELSE f[x]]

(* delete(f, k) on a Go map.                                               *)
Delete(f, k) == Restrict(f, DOMAIN f \ {k})

removeString_Kept(xs, x) == xs
removeString(xs, x) ==
  IF \A i \in DOMAIN xs : xs[i] # x THEN xs
  ELSE LET i == CHOOSE i \in DOMAIN xs : xs[i] = x /\ \A j \in 1 .. i - 1 : xs[j] # x
       IN  SubSeq(xs, 1, i - 1) \o SubSeq(xs, i + 1, Len(xs))

LiveClaims == {id \in DOMAIN claims : claims[id].age <= ClaimExpiry}

(* The claims the eviction loop may end on: it keeps the first it meets of *)
(* the oldest ones, in Go's random map order.                              *)
OldestClaims_Newest ==
  {id \in LiveClaims : \A other \in LiveClaims : claims[other].age >= claims[id].age}
OldestClaims ==
  {id \in LiveClaims : \A other \in LiveClaims : claims[other].age <= claims[id].age}

(* A new name would push the table past its cap.                           *)
ClaimsFull_OffByOne(id) == id \notin LiveClaims /\ Cardinality(LiveClaims) > ClaimMax
ClaimsFull(id) == id \notin LiveClaims /\ Cardinality(LiveClaims) >= ClaimMax

(* A heartbeat that gives no node id cannot be claimed.                    *)
Nameless(id) == id = NoName

(* recordClaim: drop the expired, evict one of the oldest when the table   *)
(* is full, then insert or replace the claim of this id.                   *)
recordClaim(id, reason) ==
  /\ UNCHANGED <<byID, byPipe, order>>
  /\ IF Nameless(id)
     THEN UNCHANGED claims
     ELSE \E evicted \in IF ClaimsFull(id) THEN {{old} : old \in OldestClaims} ELSE {{}} :
            claims' = Put(Restrict(claims, LiveClaims \ evicted), id,
                          [reason |-> reason, age |-> 0])

(* The pipe was last seen carrying another node id.                        *)
Taken_Ignored(id, pipe) == FALSE
Taken(id, pipe) == pipe \in DOMAIN byPipe /\ byPipe[pipe] # id

(* A registration clears the claim of its node.                            *)
ClaimsWithout_Kept(id) == claims
ClaimsWithout(id) == Delete(claims, id)

(* The entry a heartbeat makes: it is dispatched to where it came from.    *)
NewEntry_OldPipe(id, pipe, connectionState, activeRequests) ==
  [pipe |-> IF id \in DOMAIN byID THEN byID[id].pipe ELSE pipe,
   connectionState |-> connectionState, activeRequests |-> activeRequests, age |-> 0]
NewEntry(id, pipe, connectionState, activeRequests) ==
  [pipe |-> pipe, connectionState |-> connectionState,
   activeRequests |-> activeRequests, age |-> 0]

(* upsert: retire the claim of this id and whichever other id was last     *)
(* seen on the pipe, then insert or replace the entry.                     *)
upsert(id, pipe, connectionState, activeRequests) ==
  LET keptID  == IF Taken(id, pipe) THEN Delete(byID, byPipe[pipe]) ELSE byID
      keptOrd == IF Taken(id, pipe) THEN removeString(order, byPipe[pipe]) ELSE order
  IN  /\ claims' = ClaimsWithout(id)
      /\ order' = IF id \in DOMAIN keptID THEN keptOrd ELSE Append(keptOrd, id)
      /\ byID' = Put(keptID, id, NewEntry(id, pipe, connectionState, activeRequests))
      /\ byPipe' = Put(byPipe, pipe, id)

(* Time passes for everything that holds a time.Time.                      *)
Aged(f) == [x \in DOMAIN f |-> [f[x] EXCEPT !.age = Older(@)]]
RegistryTick ==
  /\ byID' = Aged(byID) /\ claims' = Aged(claims)
  /\ UNCHANGED <<byPipe, order>>

(* The router process dies and a new one starts: nothing is read back.     *)
RegistryRestart ==
  /\ byID' = << >> /\ byPipe' = << >> /\ order' = << >> /\ claims' = << >>

-----------------------------------------------------------------------------
Stale(id) == byID[id].age > StaleAfter

(* The test the selection loop makes of one id against the best so far.    *)
Beats_OnTie(id, best) ==
  ~Stale(id) /\ (best = NoName \/ byID[id].activeRequests <= byID[best].activeRequests)
Beats(id, best) ==
  ~Stale(id) /\ (best = NoName \/ byID[id].activeRequests < byID[best].activeRequests)

(* The best id once the loop has looked at the first i ids of order.       *)
bestAfter[i \in 0 .. Len(order)] ==
  IF i = 0 THEN NoName
  ELSE IF Beats(order[i], bestAfter[i - 1]) THEN order[i] ELSE bestAfter[i - 1]

(* selectLeastConnections: the id the loop over order ends on, or NoName   *)
(* when it returns false.                                                  *)
selectLeastConnections == bestAfter[Len(order)]

(* NodesSnapshot: what the dashboard shows of each registered node.        *)
NodeStatus(id) ==
  IF Stale(id) THEN "stale"
  ELSE IF byID[id].connectionState = "degraded" THEN "degraded" ELSE "online"
NodesSnapshot == [i \in DOMAIN order |-> [id |-> order[i], status |-> NodeStatus(order[i])]]

(* ClaimsSnapshot: the refused workers the router reports to the dashboard.*)
ClaimsSnapshot == LiveClaims

-----------------------------------------------------------------------------
RegistryNext ==
  \/ \E id \in Node, pipe \in Pipe, s \in ConnState, n \in Load : upsert(id, pipe, s, n)
  \/ \E id \in Node \cup {NoName}, reason \in Reason : recordClaim(id, reason)
  \/ RegistryTick
  \/ RegistryRestart

RegistrySpec == newNodeRegistry /\ [][RegistryNext]_registryVars

-----------------------------------------------------------------------------
(* order lists exactly the registered ids, each once.  selectLeast-        *)
(* Connections and snapshot dereference byID[id] for every id in order     *)
(* without a nil check (nodes.go:240, 257); an id left behind in order     *)
(* would crash the router, one missing from it would never get work, and   *)
(* one listed twice would survive its own retirement.                      *)
OrderIndexed ==
  /\ \A i \in DOMAIN order : order[i] \in DOMAIN byID
  /\ \A id \in DOMAIN byID : \E i \in DOMAIN order : order[i] = id
  /\ \A i, j \in DOMAIN order : order[i] = order[j] => i = j

(* The pipe a registered node is dispatched on resolves back to that node, *)
(* so no two registered nodes share a pipe and a job for one is never      *)
(* handed to the machine of the other (upsert, nodes.go:143-147).          *)
PipeLinked ==
  \A id \in DOMAIN byID : byID[id].pipe \in DOMAIN byPipe /\ byPipe[byID[id].pipe] = id

(* Whatever names refused workers send, the claims table keeps to its cap  *)
(* (recordClaim, nodes.go:93-110).                                         *)
ClaimsBounded == Cardinality(DOMAIN claims) <= ClaimMax

(* A claim listed for a registered node is a refusal that came after its   *)
(* last accepted heartbeat: registering retires every earlier claim        *)
(* (upsert, nodes.go:141).                                                 *)
NoOutdatedClaim ==
  \A id \in DOMAIN claims \cap DOMAIN byID : claims[id].age <= byID[id].age

(* Within one run of the router a claim vanishes only because its node     *)
(* registered, because it expired, or because the table was full and no    *)
(* claim that stays is older                                               *)
(* (recordClaim, nodes.go:93-110): the refusals an operator still needs to *)
(* see are the ones that survive a flood.                                  *)
ClaimLossJustified ==
  [][\A id \in DOMAIN claims \ DOMAIN claims' :
       \/ RegistryRestart
       \/ id \in DOMAIN byID' /\ byID'[id].age = 0
       \/ claims[id].age > ClaimExpiry
       \/ /\ Cardinality(LiveClaims) = ClaimMax
          /\ \A other \in DOMAIN claims' : claims'[other].age <= claims[id].age]_registryVars

(* The loop returns a node that is not stale, that no other such node      *)
(* undercuts in reported load, and that registered first among equals; it  *)
(* returns none only when every node is stale (nodes.go:230-233).          *)
SelectsLeastLoaded ==
  LET fresh   == {i \in DOMAIN order : ~Stale(order[i])}
      load(i) == byID[order[i]].activeRequests
  IN  IF fresh = {} THEN selectLeastConnections = NoName
      ELSE \E i \in fresh :
             /\ selectLeastConnections = order[i]
             /\ \A j \in fresh : load(i) < load(j) \/ (load(i) = load(j) /\ i <= j)
=============================================================================
