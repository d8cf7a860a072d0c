----------------------------- MODULE NodeStore ------------------------------
(***************************************************************************)
(* What the router keeps of a node in the database: the second half of     *)
(* upsert in internal/router/nodes.go (persist and syncCatalog), with the  *)
(* fields of an entry only they use.                                       *)
(*                                                                         *)
(* recvLoop calls upsert, so one heartbeat is persisted at a time, but     *)
(* outside the mutex and in several steps; the process may end between any *)
(* two of them, and every statement may fail.  A catalog is a sequence of  *)
(* model names as the engine lists them, which may repeat one; the table   *)
(* holds each name of a node once.                                         *)
(***************************************************************************)
EXTENDS Integers, Sequences, FiniteSets, Functions

CONSTANTS
  Node, Token,    \* node names, enrollment token ids
  Catalog,        \* the catalogs an engine may list
  MaxChanges,     \* bound: changes of an engine's catalog
  MaxFailures     \* bound: failed statements and restarts

ASSUME StoreAssumption ==
  /\ << >> \in Catalog /\ \A c \in Catalog : c \in Seq(Range(c))
  /\ MaxChanges \in Nat /\ MaxFailures \in Nat

VARIABLES
  engine,         \* node -> catalog its worker reports
  byID,           \* node -> tokenID, catalog and syncedCatalog of its entry
  nodes,          \* table nodes: id -> token_id
  catalogs,       \* table node_model_catalogs: node_id -> its model names
  step, node,     \* where recvLoop stands in persist, and for which node
  failing,        \* nodes whose last persist did not go through
  leftover,       \* nodes with rows of an entry that is gone
  changes, failures

storeVars == <<engine, byID, nodes, catalogs, step, node, failing, leftover, changes, failures>>

StoreEntry == [tokenID : Token, catalog : Catalog, syncedCatalog : Catalog]

StoreTypeOK ==
  /\ engine \in [Node -> Catalog]
  /\ DOMAIN byID \subseteq Node /\ byID \in [DOMAIN byID -> StoreEntry]
  /\ DOMAIN nodes \subseteq Node /\ nodes \in [DOMAIN nodes -> Token]
  /\ catalogs \in [Node -> SUBSET UNION {Range(c) : c \in Catalog}]
  /\ \A n \in Node : catalogs[n] # {} => n \in DOMAIN nodes
  /\ step \in {"idle", "persist", "sync", "synced"}
  /\ node \in Node /\ (step # "idle" => node \in DOMAIN byID)
  /\ failing \subseteq Node /\ leftover \subseteq Node
  /\ changes \in 0 .. MaxChanges /\ failures \in 0 .. MaxFailures

StoreInit ==
  /\ engine \in [Node -> Catalog]
  /\ byID = << >> /\ nodes = << >> /\ catalogs = [n \in Node |-> {}]
  /\ step = "idle" /\ node \in Node
  /\ failing = {} /\ leftover = {} /\ changes = 0 /\ failures = 0

Failure == failures < MaxFailures /\ failures' = failures + 1

(* An assignment to a key of a map.                                        *)
Put(f, x, v) == [y \in DOMAIN f \cup {x} |-> IF y = x THEN v ELSE f[y]]

-----------------------------------------------------------------------------
(* The nodes the table has rows of.                                        *)
Rows == {n \in Node : catalogs[n] # {}}

(* upsert, under the mutex.  `retired' is the id another entry on the same *)
(* pipe had, if any.  A new entry takes over the synced catalog of the one *)
(* it replaces.                                                            *)
InheritedSync(n) == IF n \in DOMAIN byID THEN byID[n].syncedCatalog ELSE << >>
upsert(n, token, retired) ==
  /\ step = "idle"
  /\ byID' = Put(Restrict(byID, DOMAIN byID \ retired), n,
                 [tokenID |-> token, catalog |-> engine[n], syncedCatalog |-> InheritedSync(n)])
  /\ step' = "persist" /\ node' = n
  /\ leftover' = leftover \cup (retired \cap Rows)
  /\ UNCHANGED <<engine, nodes, catalogs, failing, changes, failures>>

catalogChanged_Longer(a, b) == Len(a) > Len(b)
catalogChanged(a, b) == a # b

(* persist: INSERT the row or, when the node has one, update the columns   *)
(* ON CONFLICT names; token_id is not among them.                          *)
persist ==
  /\ step = "persist"
  /\ nodes' = IF node \in DOMAIN nodes THEN nodes ELSE Put(nodes, node, byID[node].tokenID)
  /\ step' = IF catalogChanged(byID[node].catalog, byID[node].syncedCatalog) THEN "sync" ELSE "idle"
  /\ failing' = failing \ {node}
  /\ UNCHANGED <<engine, byID, catalogs, node, leftover, changes, failures>>

(* After an error persist returns.                                         *)
AfterFailedRow == "idle"
persistFails ==
  /\ Failure /\ step = "persist"
  /\ step' = AfterFailedRow /\ failing' = failing \cup {node}
  /\ UNCHANGED <<engine, byID, nodes, catalogs, node, leftover, changes>>

(* syncCatalog up to the commit: delete the rows of the node, insert the   *)
(* catalog.  A name listed twice violates the unique index.                *)
Insertable(c) == Len(c) = Cardinality(Range(c))
commitCatalog ==
  /\ step = "sync" /\ Insertable(byID[node].catalog)
  /\ catalogs' = [catalogs EXCEPT ![node] = Range(byID[node].catalog)]
  /\ step' = "synced" /\ leftover' = leftover \ {node}
  /\ UNCHANGED <<engine, byID, nodes, node, failing, changes, failures>>

(* The transaction is rolled back, and the entry keeps what it had synced. *)
SyncedAfterRollback_Assumed == byID[node].catalog
SyncedAfterRollback == byID[node].syncedCatalog
rollback ==
  /\ step = "sync"
  /\ IF Insertable(byID[node].catalog) THEN Failure ELSE UNCHANGED failures
  /\ byID' = [byID EXCEPT ![node].syncedCatalog = SyncedAfterRollback]
  /\ step' = "idle" /\ failing' = failing \cup {node}
  /\ UNCHANGED <<engine, nodes, catalogs, node, leftover, changes>>

(* The rest of syncCatalog: remember what was written.                     *)
noteSynced ==
  /\ step = "synced"
  /\ byID' = [byID EXCEPT ![node].syncedCatalog = byID[node].catalog]
  /\ step' = "idle"
  /\ UNCHANGED <<engine, nodes, catalogs, node, failing, leftover, changes, failures>>

RouterRestart ==
  /\ Failure
  /\ byID' = << >> /\ step' = "idle" /\ failing' = {} /\ leftover' = Rows
  /\ UNCHANGED <<engine, nodes, catalogs, node, changes>>

(* The engine loads, drops or reorders models, or stops answering, which   *)
(* empties the probe's catalog (internal/catalog/probe.go).                *)
EngineChanges(n) ==
  /\ changes < MaxChanges /\ changes' = changes + 1
  /\ \E c \in Catalog \ {engine[n]} : engine' = [engine EXCEPT ![n] = c]
  /\ UNCHANGED <<byID, nodes, catalogs, step, node, failing, leftover, failures>>

Heartbeat(n) ==
  \E token \in Token, retired \in {{}} \cup {{m} : m \in DOMAIN byID \ {n}} : upsert(n, token, retired)

StoreNext ==
  \/ \E n \in Node : Heartbeat(n) \/ EngineChanges(n)
  \/ persist \/ persistFails \/ commitCatalog \/ rollback \/ noteSynced \/ RouterRestart

(* recvLoop runs, and the heartbeats of every node keep coming: the loop   *)
(* is idle again and again, not for long, hence strong fairness.           *)
StoreFairness ==
  /\ \A n \in Node : SF_storeVars(Heartbeat(n))
  /\ WF_storeVars(persist) /\ WF_storeVars(commitCatalog \/ rollback) /\ WF_storeVars(noteSynced)

StoreSafetySpec == StoreInit /\ [][StoreNext]_storeVars
StoreSpec == StoreSafetySpec /\ StoreFairness

-----------------------------------------------------------------------------
(* What an entry believes to be in the catalog table is there, whichever   *)
(* statements failed and whenever the router restarted.  catalogChanged    *)
(* decides on that belief alone (nodes.go:183), so a false one would leave *)
(* the table wrong for as long as the catalog does not change.  The one    *)
(* exception is an entry that is new for a node whose former entry, of an  *)
(* earlier process or retired, left rows behind: it believes in none.  The *)
(* types hold too, the foreign key of the table among them.                *)
SyncedCatalogTruthful ==
  /\ StoreTypeOK
  /\ \A n \in DOMAIN byID :
       \/ n \in leftover /\ byID[n].syncedCatalog = << >>
       \/ step = "synced" /\ node = n
       \/ catalogs[n] = Range(byID[n].syncedCatalog)

(* Once an engine's catalog stays the same and the failures are over, the  *)
(* table ends up holding it, if it lists no name twice (nodes.go:164-228), *)
(* but for rows of an entry that is gone when the engine lists none.       *)
CatalogConverges ==
  \A n \in Node :
    <>[](\/ catalogs[n] = Range(engine[n]) \/ ~Insertable(engine[n])
         \/ engine[n] = << >> /\ n \in leftover)

(* "Kept in sync by the router on heartbeat" (design/schema.dbml:74): when *)
(* a heartbeat has been persisted without a failure, the table holds the   *)
(* catalog it reported, the empty one included (nodes.go:164-228), unless  *)
(* that is empty and the rows are of an entry that is gone: the new one    *)
(* cannot tell them from none.                                             *)
CatalogInSync ==
  \A n \in DOMAIN byID \ failing :
    \/ step # "idle" /\ node = n
    \/ byID[n].catalog = << >> /\ n \in leftover
    \/ catalogs[n] = Range(byID[n].catalog)
=============================================================================
