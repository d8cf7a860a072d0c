------------------------------ MODULE AuditLog ------------------------------
(***************************************************************************)
(* The asynchronous request audit log, internal/audit/repo.go: Record on   *)
(* the request path, the writer goroutine run, and Close.                  *)
(*                                                                         *)
(* An entry is the number of the Record call it came with.  Some entries   *)
(* cannot be inserted (their api_key_id or node_id refers to no row), and  *)
(* the database may fail at any time; either way the transaction of the    *)
(* whole batch is rolled back.                                             *)
(***************************************************************************)
EXTENDS Integers, Sequences, FiniteSets, Functions

CONSTANTS
  Buffer,         \* capacity of r.ch
  BatchSize,      \* batchSize
  MaxEntries      \* bound: calls of Record

ASSUME AuditAssumption ==
  Buffer \in Nat \ {0} /\ BatchSize \in Nat \ {0} /\ MaxEntries \in Nat

VARIABLES
  recorded,       \* how many entries were recorded
  unfit,          \* the entries whose INSERT fails
  ch,             \* r.ch
  batch,          \* the writer's batch
  rows,           \* request_audit_logs, in the order of their ids
  dropped,        \* entries Record dropped
  failed,         \* entries of batches that were rolled back
  writer,         \* run: running, draining after ctx.Done, stopped
  closing         \* Close was called: 0, or 1 + the entries recorded until then

auditVars == <<recorded, unfit, ch, batch, rows, dropped, failed, writer, closing>>

Entry == 1 .. MaxEntries

AuditTypeOK ==
  /\ recorded \in 0 .. MaxEntries /\ unfit \subseteq Entry
  /\ ch \in Seq(Entry) /\ Len(ch) <= Buffer
  /\ batch \in Seq(Entry) /\ (writer = "running" => Len(batch) < BatchSize)
  /\ rows \in Seq(Entry) /\ dropped \subseteq Entry /\ failed \subseteq Entry
  /\ writer \in {"running", "draining", "stopped"} /\ closing \in 0 .. MaxEntries + 1

NewRepo ==
  /\ recorded = 0 /\ unfit \in SUBSET Entry
  /\ ch = << >> /\ batch = << >> /\ rows = << >>
  /\ dropped = {} /\ failed = {}
  /\ writer = "running" /\ closing = 0

-----------------------------------------------------------------------------
(* Record never blocks.                                                    *)
Record ==
  /\ recorded < MaxEntries
  /\ recorded' = recorded + 1
  /\ IF Len(ch) < Buffer
     THEN ch' = Append(ch, recorded') /\ UNCHANGED dropped
     ELSE dropped' = dropped \cup {recorded'} /\ UNCHANGED ch
  /\ UNCHANGED <<unfit, batch, rows, failed, writer, closing>>

(* insertBatch: all of the batch or none of it.                            *)
insertBatch(b) ==
  \/ /\ Range(b) \cap unfit = {}
     /\ rows' = rows \o b /\ UNCHANGED failed
  \/ /\ b # << >>
     /\ failed' = failed \cup Range(b) /\ UNCHANGED rows

(* flush inserts the batch and empties it.                                 *)
Emptied_Kept(b) == b
Emptied(b) == << >>
flush(b) == insertBatch(b) /\ batch' = Emptied(b)

FlushDue(b) == Len(b) >= BatchSize

(* run receives an entry.                                                  *)
Take ==
  /\ writer = "running" /\ ch # << >>
  /\ ch' = Tail(ch)
  /\ LET b == Append(batch, Head(ch))
     IN  IF FlushDue(b) THEN flush(b) ELSE batch' = b /\ UNCHANGED <<rows, failed>>
  /\ UNCHANGED <<recorded, unfit, dropped, writer, closing>>

(* The ticker fires.                                                       *)
Flushed_Nothing == FALSE
Flushed == flush(batch)
TickerFires ==
  /\ writer = "running" /\ Flushed
  /\ UNCHANGED <<recorded, unfit, ch, dropped, writer, closing>>

(* Close cancels the context and waits for the writer to stop.             *)
Close ==
  /\ closing = 0 /\ closing' = recorded + 1
  /\ UNCHANGED <<recorded, unfit, ch, batch, rows, dropped, failed, writer>>

(* run's select may go on choosing the other cases before ctx.Done.        *)
Done ==
  /\ writer = "running" /\ closing # 0
  /\ writer' = "draining"
  /\ UNCHANGED <<recorded, unfit, ch, batch, rows, dropped, failed, closing>>

Drain ==
  /\ writer = "draining" /\ ch # << >>
  /\ ch' = Tail(ch) /\ batch' = Append(batch, Head(ch))
  /\ UNCHANGED <<recorded, unfit, rows, dropped, failed, writer, closing>>

(* The inner select takes its default only when the channel is empty.      *)
Drained_AtOnce == TRUE
Drained == ch = << >>
Stop ==
  /\ writer = "draining" /\ Drained
  /\ writer' = "stopped" /\ flush(batch)
  /\ UNCHANGED <<recorded, unfit, ch, dropped, closing>>

AuditNext == Record \/ Take \/ TickerFires \/ Close \/ Done \/ Drain \/ Stop

(* The writer goroutine runs and its ticker fires.  Its select chooses at  *)
(* random among the cases that are ready, so it notices ctx.Done.          *)
AuditFairness ==
  /\ WF_auditVars(Take) /\ WF_auditVars(TickerFires) /\ WF_auditVars(Drain)
  /\ WF_auditVars(Stop) /\ WF_auditVars(Done)

AuditSafetySpec == NewRepo /\ [][AuditNext]_auditVars
AuditSpec == AuditSafetySpec /\ AuditFairness

-----------------------------------------------------------------------------
(* Every recorded entry is in exactly one place: dropped, failed with its  *)
(* batch, or once in the table, the batch or the channel, which together   *)
(* keep the order of recording.  So nothing is inserted twice, and the     *)
(* "newest first" of Recent, by row id, is true (repo.go:53-104, 147-163). *)
(* The types hold too, the bounds of channel and batch among them.         *)
Accounted ==
  LET pending == rows \o batch \o ch
  IN  /\ AuditTypeOK
      /\ \A i, j \in DOMAIN pending : i < j => pending[i] < pending[j]
      /\ Range(pending) \cup dropped \cup failed = 1 .. recorded
      /\ Range(pending) \cap (dropped \cup failed) = {} /\ dropped \cap failed = {}

(* Close reliably flushes: once the writer has stopped, every entry        *)
(* recorded before Close is in the table, unless it had been dropped or    *)
(* its batch failed (repo.go:82-94, 140-145).                              *)
CloseFlushes ==
  writer = "stopped" => 1 .. (closing - 1) \subseteq Range(rows) \cup dropped \cup failed

(* Nothing waits for ever: an entry recorded before Close leaves memory,   *)
(* and Close returns (repo.go:66-104).                                     *)
EntrySettles ==
  /\ \A e \in Entry : (recorded >= e /\ closing = 0) ~> e \in Range(rows) \cup dropped \cup failed
  /\ closing # 0 ~> writer = "stopped"
=============================================================================
