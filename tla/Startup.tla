------------------------------ MODULE Startup -------------------------------
(***************************************************************************)
(* From nothing to a serving router, and beside it the command that issues *)
(* enrollment tokens: serve and adminCreateEnrollment of                   *)
(* cmd/linguine/main.go, Open of internal/store, and the three functions   *)
(* that load a secret from a file or make one and keep it there.           *)
(*                                                                         *)
(* The processes share the database and the files and nothing else.        *)
(* Either may be started while the other is starting, and may be killed at *)
(* any step.  os.WriteFile empties the file and then fills it, so there is *)
(* a moment at which the file is there and empty.                          *)
(*                                                                         *)
(* SQLite is external: one transaction writes at a time; another waits for *)
(* it, or gives up after busy_timeout; what is not committed is lost.      *)
(***************************************************************************)
EXTENDS Integers, Sequences, FiniteSets, Statements

CONSTANTS
  Router,     \* the processes that run serve: one
  Command,    \* the processes that run adminCreateEnrollment
  Embedded,   \* the scripts of the migrations, in the order of their names
  MaxKills    \* bound: processes killed

ASSUME StartAssumption ==
  /\ \A p, q \in Router : p = q
  /\ Router \cap Command = {} /\ Embedded \in Seq(Scripts) /\ MaxKills \in Nat

(* The statements that are executed of a migration, and those its author   *)
(* means.                                                                  *)
Migrations == Len(Embedded)
Executed == [m \in 1 .. Migrations |-> statements(Text(Embedded[m]))]
Meant == [m \in 1 .. Migrations |-> Intended(Embedded[m])]

Proc == Router \cup Command
File == {"signer", "cert", "key", "secret"}

Absent == 0
Empty == -1
Secret == 1 .. Cardinality(Proc) + MaxKills + 1   \* keys, each made once

VARIABLES
  schema,     \* the statements that have taken effect, those of one commit together
  recorded,   \* schema_migrations
  tx,         \* the transaction under way: process, statements; or none
  file,       \* file -> Absent, Empty or the secret in it
  pc,         \* process -> what it does next, and with which file
  todo,       \* process -> the migrations it has yet to apply, from its snapshot
  holds,      \* process -> file -> the secret it has in memory
  issued,     \* secrets that have signed an enrollment token
  served,     \* file -> the secrets with which a router has served
  kills,      \* processes killed so far
  torn,       \* one was killed while it was writing a file, or between cert and key
  raced       \* two processes were making the signer at the same time

startVars == <<schema, recorded, tx, file, pc, todo, holds, issued, served, kills, torn, raced>>

NoTx == [by |-> << >>, done |-> << >>]
Nothing == [f \in File |-> Absent]

StartTypeOK ==
  /\ recorded \subseteq 1 .. Migrations /\ tx.by \in {<< >>} \cup {<<p>> : p \in Proc}
  /\ file \in [File -> Secret \cup {Absent, Empty}] /\ holds \in [Proc -> [File -> Secret \cup {Absent}]]
  /\ todo \in [Proc -> SUBSET (1 .. Migrations)] /\ issued \subseteq Secret
  /\ kills \in 0 .. MaxKills /\ torn \in BOOLEAN /\ raced \in BOOLEAN

StartInit ==
  /\ schema = << >> /\ recorded = {} /\ tx = NoTx /\ file = Nothing
  /\ pc = [p \in Proc |-> <<"off">>] /\ todo = [p \in Proc |-> {}]
  /\ holds = [p \in Proc |-> Nothing] /\ issued = {} /\ served = [f \in File |-> {}]
  /\ kills = 0 /\ torn = FALSE /\ raced = FALSE

(* A process ends: its memory is gone and its transaction is rolled back.  *)
Ends(p) ==
  /\ pc' = [pc EXCEPT ![p] = <<"off">>] /\ todo' = [todo EXCEPT ![p] = {}]
  /\ holds' = [holds EXCEPT ![p] = Nothing]
  /\ tx' = IF tx.by = <<p>> THEN NoTx ELSE tx

GoesOn(p, to) == pc' = [pc EXCEPT ![p] = to]

-----------------------------------------------------------------------------
(* Open: the migrations applied so far are read once, at the start.        *)
Pending_All == 1 .. Migrations
Pending == 1 .. Migrations \ recorded
migrate(p) ==
  /\ pc[p] = <<"off">> /\ GoesOn(p, <<"open">>)
  /\ todo' = [todo EXCEPT ![p] = Pending]
  /\ UNCHANGED <<schema, recorded, tx, file, holds, issued, served, kills, torn, raced>>

(* The one whose turn it is, in the order of their names.                  *)
NextUp(p) == {m \in todo[p] : \A k \in todo[p] : m <= k}

(* A statement creates a table, an index or a column, and the name of a    *)
(* migration is a primary key: either fails when it is there already.      *)
Repeats(m) ==
  \/ m \in recorded
  \/ \E s \in DOMAIN Executed[m], i \in DOMAIN schema :
       \E t \in DOMAIN schema[i] : Executed[m][s] = schema[i][t]

(* applyMigration up to the commit.                                        *)
applyMigration_Autocommit(p) ==
  /\ pc[p] = <<"open">> /\ tx = NoTx
  /\ \E m \in NextUp(p) : ~Repeats(m) /\ schema' = Append(schema, Executed[m])
  /\ tx' = [by |-> <<p>>, done |-> << >>] /\ GoesOn(p, <<"commit">>)
  /\ UNCHANGED <<recorded, file, todo, holds, issued, served, kills, torn, raced>>
applyMigration(p) ==
  /\ pc[p] = <<"open">> /\ tx = NoTx
  /\ \E m \in NextUp(p) :
       IF Repeats(m) THEN Ends(p)
       ELSE /\ tx' = [by |-> <<p>>, done |-> Executed[m]]
            /\ GoesOn(p, <<"commit">>) /\ UNCHANGED <<todo, holds>>
  /\ UNCHANGED <<schema, recorded, file, issued, served, kills, torn, raced>>

(* The other process has held the database for busy_timeout.               *)
busy(p) ==
  /\ pc[p] = <<"open">> /\ todo[p] # {} /\ tx # NoTx /\ Ends(p)
  /\ UNCHANGED <<schema, recorded, file, issued, served, kills, torn, raced>>

(* The record of the migration and the commit.                             *)
commit(p) ==
  /\ pc[p] = <<"commit">> /\ GoesOn(p, <<"open">>)
  /\ schema' = Append(schema, tx.done) /\ recorded' = recorded \cup NextUp(p)
  /\ tx' = NoTx /\ todo' = [todo EXCEPT ![p] = @ \ NextUp(p)]
  /\ UNCHANGED <<file, holds, issued, served, kills, torn, raced>>

opened(p) ==
  /\ pc[p] = <<"open">> /\ todo[p] = {} /\ GoesOn(p, <<"read", "signer">>)
  /\ UNCHANGED <<schema, recorded, tx, file, todo, holds, issued, served, kills, torn, raced>>

-----------------------------------------------------------------------------
(* What follows once a file is loaded, or written.                         *)
Loaded(p, f) ==
  CASE f = "signer" -> IF p \in Router THEN <<"read", "cert">> ELSE <<"issue">>
    [] f = "cert"   -> <<"read", "secret">>
    [] f = "secret" -> <<"serve">>
Written_NoKey(p, f) == Loaded(p, f)
Written(p, f) ==
  CASE f = "cert" -> <<"truncate", "key">>
    [] f = "key"  -> Loaded(p, "cert")
    [] OTHER      -> Loaded(p, f)

(* A new key is one that nobody has.                                       *)
Unknown ==
  {k \in Secret \ issued :
     \A f \in File : file[f] # k /\ k \notin served[f] /\ \A p \in Proc : holds[p][f] # k}
Fresh == CHOOSE k \in Unknown : TRUE

Makes(p, fs) ==
  /\ Unknown # {}
  /\ holds' = [holds EXCEPT ![p] = [f \in File |-> IF f \in fs THEN Fresh ELSE @[f]]]
  /\ UNCHANGED <<tx, todo>>
Loads(p, f) ==
  /\ holds' = [holds EXCEPT ![p][f] = file[f]] /\ GoesOn(p, Loaded(p, f))
  /\ UNCHANGED <<tx, todo>>

(* A process that has found no signer and has not yet written its own.     *)
Making(p) == pc[p] \in {<<"truncate", "signer">>, <<"fill", "signer">>}

(* LoadOrCreateSigner and LoadOrCreateSessionSecret.                       *)
LoadOrCreate(p, f) ==
  /\ f \in {"signer", "secret"} /\ pc[p] = <<"read", f>>
  /\ \/ file[f] = Absent /\ Makes(p, {f}) /\ GoesOn(p, <<"truncate", f>>)
     \/ file[f] = Empty /\ Ends(p)
     \/ file[f] \in Secret /\ Loads(p, f)
  /\ raced' = (raced \/ (f = "signer" /\ file[f] = Absent /\ \E q \in Proc \ {p} : Making(q)))
  /\ UNCHANGED <<schema, recorded, file, issued, served, kills, torn>>

(* LoadOrCreateSelfSignedCert.                                             *)
LoadOrCreateSelfSignedCert(p) ==
  /\ pc[p] = <<"read", "cert">>
  /\ \/ file["cert"] = Absent /\ Makes(p, {"cert", "key"}) /\ GoesOn(p, <<"truncate", "cert">>)
     \/ file["cert"] # Absent /\ (file["key"] # file["cert"] \/ file["cert"] = Empty) /\ Ends(p)
     \/ file["cert"] \in Secret /\ file["key"] = file["cert"] /\ Loads(p, "cert")
  /\ UNCHANGED <<schema, recorded, file, issued, served, kills, torn, raced>>

(* os.WriteFile.                                                           *)
truncate(p, f) ==
  /\ pc[p] = <<"truncate", f>> /\ GoesOn(p, <<"fill", f>>) /\ file' = [file EXCEPT ![f] = Empty]
  /\ UNCHANGED <<schema, recorded, tx, todo, holds, issued, served, kills, torn, raced>>
Kept_InMemoryOnly(p, f) == Absent
Kept(p, f) == holds[p][f]
fill(p, f) ==
  /\ pc[p] = <<"fill", f>> /\ GoesOn(p, Written(p, f)) /\ file' = [file EXCEPT ![f] = Kept(p, f)]
  /\ UNCHANGED <<schema, recorded, tx, todo, holds, issued, served, kills, torn, raced>>

-----------------------------------------------------------------------------
(* The command signs a token, prints it and ends.                          *)
issue(p) ==
  /\ pc[p] = <<"issue">> /\ issued' = issued \cup {holds[p]["signer"]} /\ Ends(p)
  /\ UNCHANGED <<schema, recorded, file, served, kills, torn, raced>>

serve(p) ==
  /\ pc[p] = <<"serve">> /\ GoesOn(p, <<"serving">>)
  /\ served' = [f \in File |-> served[f] \cup {holds[p][f]}]
  /\ UNCHANGED <<schema, recorded, tx, file, todo, holds, issued, kills, torn, raced>>

(* The dashboard of a serving router signs tokens too.                     *)
workerKeysCreate(p) ==
  /\ pc[p] = <<"serving">> /\ issued' = issued \cup {holds[p]["signer"]}
  /\ UNCHANGED <<schema, recorded, tx, file, pc, todo, holds, served, kills, torn, raced>>

(* SIGTERM, once it serves.                                                *)
Shutdown(p) ==
  /\ pc[p] = <<"serving">> /\ Ends(p)
  /\ UNCHANGED <<schema, recorded, file, issued, served, kills, torn, raced>>

(* A crash, a kill or a failed write, at any step.                         *)
Kill(p) ==
  /\ pc[p] # <<"off">> /\ kills < MaxKills /\ Ends(p) /\ kills' = kills + 1
  /\ torn' = (torn \/ Head(pc[p]) = "fill" \/ pc[p] = <<"truncate", "key">>)
  /\ UNCHANGED <<schema, recorded, file, issued, served, raced>>

Step(p) ==
  \/ applyMigration(p) \/ busy(p) \/ commit(p) \/ opened(p)
  \/ \E f \in File : LoadOrCreate(p, f) \/ truncate(p, f) \/ fill(p, f)
  \/ LoadOrCreateSelfSignedCert(p) \/ issue(p) \/ serve(p)

StartNext == \E p \in Proc : migrate(p) \/ Step(p) \/ workerKeysCreate(p) \/ Shutdown(p) \/ Kill(p)

StartSafetySpec == StartInit /\ [][StartNext]_startVars

(* A process that runs goes on, and the service manager starts a router    *)
(* that has ended.  Nobody need run a command.                             *)
StartSpec ==
  /\ StartSafetySpec
  /\ \A p \in Proc : WF_startVars(Step(p))
  /\ \A p \in Router : WF_startVars(migrate(p))

-----------------------------------------------------------------------------
(* A process that opens the store would cut any script where its author    *)
(* means it to be cut: semicolons in comments and string literals never    *)
(* end a statement, and the ones that do always do (store.go:163-209).     *)
SplitsAtEnds == (\E p \in Proc : pc[p] = <<"open">>) => Missplit = {}

(* The schema is that of the first migrations, each applied once, whole    *)
(* and in order, and those are the ones recorded: whatever is killed, and  *)
(* though two processes migrate from snapshots of what is applied          *)
(* (store.go:77-137).  The types hold too.                                 *)
SchemaIsPrefix ==
  /\ StartTypeOK
  /\ \E n \in 0 .. Migrations : recorded = 1 .. n /\ schema = [m \in 1 .. n |-> Meant[m]]

(* What was handed out stays good: through restarts every token issued is  *)
(* signed by the signer that is in the file and in memory, and the         *)
(* certificate that workers pin and the secret that signs the sessions     *)
(* never change.  For the signer this needs that no two processes were     *)
(* making it at the same time (paseto.go:48-73, tls.go:91-146,             *)
(* secret.go:15-39).                                                       *)
CredentialsSurvive ==
  /\ ~raced => \A k \in issued : file["signer"] = k /\ \A p \in Proc : holds[p]["signer"] \in {Absent, k}
  /\ \A f \in {"cert", "secret"} : \A k \in served[f] : file[f] = k /\ served[f] = {k}

Startable ==
  /\ file["signer"] # Empty /\ file["secret"] # Empty
  /\ file["cert"] # Empty /\ (file["cert"] # Absent => file["key"] = file["cert"])

(* With nobody at work the files are such that a router can start, unless  *)
(* a process was killed while it wrote one, or had written the certificate *)
(* and not yet its key (tls.go:92-105, 135-140).                           *)
OnlyTornWedges ==
  ~torn /\ (\A p \in Proc : pc[p] \in {<<"off">>, <<"serving">>}) => Startable

(* A router that has ended serves again, whatever commands run beside it   *)
(* and make it fail to start on the way, unless a kill has left its files  *)
(* torn (main.go:90-168).                                                  *)
ServesAgain == \A p \in Router : pc[p] = <<"off">> ~> pc[p] = <<"serving">> \/ torn
=============================================================================
