# A verification of linguine in TLA+

linguine puts OpenAI-style chat completions in front of a fleet of GPU workers.
Workers dial out to a central *router* and keep a connection to it (the *mesh*).
The router learns of them from heartbeats, sends each request to one of them and
streams the answer back. State that must outlive the router is in one SQLite file.

This directory models that system in TLA+, checks the models with TLC on small
instances, and proves nearly all of its safety properties for every instance with TLAPS.
`PROJECT.json` has the details: which lines each definition stands for, what every
run checks, the hazards the work set out from, and the findings.

## The system and its parts

| part | source | module | state of the model |
|---|---|---|---|
| node registry | `internal/router/nodes.go` | `NodeRegistry`, `NodeStore` | whole |
| heartbeats end to end | `internal/router/server.go`, `internal/worker/daemon.go` | `Fleet` | all but malformed heartbeats and token expiry |
| worker daemon | `internal/worker/daemon.go`, `cmd/worker` | `WorkerDaemon` | whole (jobs are in `RequestPath`) |
| request path, shutdown | `internal/router/server.go`, `internal/worker/daemon.go` | `RequestPath`, `Frames`, `RequestService` | whole |
| audit log | `internal/audit/repo.go` | `AuditLog` | whole |
| dashboard: sessions, keys, tokens | `internal/admin/server.go`, `nonce.go`, `internal/auth` | `Dashboard` | what changes state |
| login throttle | `internal/admin/limiter.go` | `LoginLimiter` | whole |
| admin commands, `serve` | `cmd/linguine/main.go` | `Dashboard`, `Startup` | the commands on credentials; starting and stopping |
| fleet view | `internal/admin/server.go` | `Fleet` (`fleetView`) | whole |
| catalog probe | `internal/catalog` | `NodeStore` | its effect only |
| wire protocol | `internal/protocol` | `WireFormat`, `Protocol` | envelopes and frames byte by byte; JSON by what it says |
| mesh sockets | `internal/mesh/socket.go` | `MeshLink`, `Fleet`, `RequestPath` | headers byte by byte; queues and connections as the code uses the library |
| websocket transport | `internal/mesh/wstransport` | `Listener` | the listener and its pipes; not the dialer |
| secrets kept in files | `internal/mesh/tls.go`, `internal/admin/secret.go`, `internal/auth/paseto.go` | `Startup` | loading, making and keeping them |
| store and migrations | `internal/store` | `Startup`, `Statements` | whole |
| configuration, pages, engine client, scripts | | | not modelled, see below |

Six kinds of processes meet:

* a worker's *heartbeat loop* and its *receive loop* (`WorkerDaemon`), and one
  goroutine for each job (`RequestPath`);
* the router's *recvLoop*, a single goroutine that handles heartbeats (`Fleet`) and
  reply frames (`RequestPath`) one at a time, and one HTTP handler for each request;
* the audit log's background writer (`AuditLog`);
* dashboard requests and admin commands, which share only the database
  (`Dashboard`);
* the websocket listener's goroutines: one for each connection, and the one that
  accepts (`Listener`);
* router and commands as operating system processes, which share the database and the
  files, and may be killed (`Startup`).

## Modules

`Protocol` holds what router and workers share: connection states, reasons for
refusal, loads, and ages. **Time** is kept as ages that stop at `MaxAge`; a tick
makes everything older. A timestamp that the code compares with now is an age here,
and `now.Sub(t) > d` is `age > d`.

**`NodeRegistry`** is `nodeRegistry`: `byID`, `byPipe`, `order`, `claims`. Its
actions are `upsert` and `recordClaim`, each one step since the code holds `r.mu`,
and a restart that empties it. `selectLeastConnections` and the snapshots are
operators. Which of several equally old claims is evicted depends on Go's map order,
so it is a choice (`OldestClaims`).

**`WorkerDaemon`** is one daemon: `state`, `rejectReason`, `lastAck`, and the
ticker of `heartbeatLoop` with its period, since the period decides how soon silence
is noticed. A tick is handled in three steps (check, send, settle), because the
receive loop may handle an ack between any two of them. Before that `Run` dials: the
first `Dial` waits for the connection, and when it fails `Run` returns and nothing dials
again (`dialFails`).

**`Fleet`** composes both with a mesh. A heartbeat goes from the daemon's send queue
over a connection to the router's receive queue and is handled in two steps (`Check`,
`Answer`), because `IsActive` is a query and the token may be revoked before the
registry is updated. A broken connection, by itself or with the router's process, loses
what is on the wire, but neither the daemon's queues nor the router's: heartbeats of a
dead connection are handled late, and a worker may read an ack of a router that has
died since (an ack keeps the pipe it came on). The library hands out a pipe id that was not used before, which is how
mangos allocates them short of wrapping around.

**`RequestPath`** follows requests: selection, storing the session, dispatch, the
frames, the two response loops, audit, and the worker's `handleJob`. What is about one
answer alone is in **`Frames`**: its frames, those that a `Read` makes, and what a
broken connection leaves of them. Chunks are numbers. A `Read` may return data with EOF or with an error. `damaged` is a history
variable: the requests of which the mesh or a full channel lost something. SIGTERM
starts `Shutdown` and ends `recvLoop`, in either order.

**`RequestService`** is what a client is promised, without registry, mesh or worker:
a request is refused, or the chunks come in order and none twice, without gaps unless
some were lost, and it is closed with one outcome, after which nothing follows.
`RequestPath` implements it (`ImplementsService`): a request is open from its dispatch
to the return of its handler, and its outcomes are its audit rows.

**`AuditLog`** is `Repo`: the channel, the batch, the table, and Close. The `select`
of `run` chooses any ready branch; a failing batch is lost.

**`NodeStore`** is what `upsert` does after it has released the lock: the `nodes`
row, the catalog transaction, and `syncedCatalog`, the router's belief about it.
Any statement may fail and the router may restart between any two. `leftover` is a
history variable: the nodes with rows that an entry left behind when it was retired or
the router restarted. The entry that follows it knows nothing of them.

**`Dashboard`** is login, session, creation, reveal and revocation. A request passes
`requireSession` in one step and runs its handler in later ones. A creation may fail
before its event, when the token cannot be signed, or after it, when the nonce cannot
be drawn; the row stays either way. `adminCreateKey`
runs beside it and makes a client key into an admin key with a second statement.

**`LoginLimiter`** is `Allow`, with a history of how many keys were verified at
each age. `Burnt` adds them up.

**`Listener`** is the websocket listener: `pending`, `running`, `closed`, the
condition variable that `Accept` waits on, and each pipe's `open` flag and wait
group. `ServeHTTP` looks at `running` in one step and queues the pipe in a later one,
because it lets go of the lock for the upgrade; the history variable `late` has the
connections that were in between when the listener was closed. mangos is external: it accepts again
and again, and may close a pipe twice.

**`WireFormat`** has the encoders and decoders as operators on sequences of bytes:
envelope, frame, pipe id and backtrace header. **`MeshLink`** sends such bytes over
the connections of `Listener`, in both directions, and compares what the reader makes
of them with what the sender meant.

**`Statements`** is the splitter that cuts a migration into statements, next to a
reference definition on scripts given as lexemes. `Missplit` are the scripts on which
the two differ. **`Startup`** takes a router and an enrollment command from nothing:
migrations in a transaction each, from a snapshot of what is applied; then the signer, the certificate with its key, and the session
secret, each loaded or made. `os.WriteFile` is two steps, since it empties the file
before it fills it. The command signs a token, the serving router any number, for its
dashboard. Any process may be killed at any step. The scripts that are
embedded are a constant; `Executed` is what the splitter makes of them and goes into the
schema, `Meant` what the reference makes of them.

`MC*` modules give the values a `.cfg` cannot: functions and symmetry sets.
Definitions called `X_Slip` (as in `ClaimsFull_OffByOne`) are plausible slips in the
code that `X` stands for. No specification uses them. They serve to make sure that
each property fails when the code is wrong.

## What is checked

Passing runs:

| run | shows |
|---|---|
| `registry` | maps and order agree; claims are bounded, newer than the registration beside them, and lost only to expiry, registration or, when the table is full, as the oldest; selection is least loaded, first come |
| `daemon` | state and reason say what the last ack said; silence is noticed within one heartbeat of the limit |
| `fleet` | a job only reaches a worker enrolled as the node; a late heartbeat never takes a route back; a worker that comes to believe it is registered, by an ack on its present connection, is routed to there; enrolled, it is registered and selectable again and again, unless its first dial failed; revoked, it is told, in the end no longer selected, and shown to operators |
| `request_path` | sessions never leak; a request is answered unless damaged, and a 200 is whole unless damaged; the path implements `RequestService` |
| `audit_log` | every entry in exactly one place and in order; Close flushes; nothing waits for ever |
| `node_store` | what is believed synced is; a persisted heartbeat leaves the table in sync; the catalog table ends up right |
| `dashboard` | raw keys are shown once; sessions are of admin keys; revoking ends sessions; the event trail matches what happened |
| `login_limiter` | at most twice the limit in any window; a burst does not lock out for ever |
| `transport` | every open pipe has one owner that closes it or hands it on, but for those in their upgrade at the close; handlers return once the listener is closed; a message is read, and as it was sent |
| `startup` | scripts are cut where their authors mean it; the schema grows by whole migrations; credentials survive restarts; the router serves again unless a kill tore a file |

Two runs end in a counterexample to what the repository says of the program:

* `lost_stream`: a worker is lost in the middle of a stream. `streamResponse` ranges
  over a channel that nothing closes, so the stream hangs, and `Shutdown` waits for it
  when the router is told to stop. `design/vision.md:268` has "a clean SSE termination,
  not a hang", and line 264 an error event when the router restarts.
* `revocation`: a worker has been told that its enrollment is not active, and its node
  is still selected, until the entry is stale. `internal/auth/enrollment.go:74-77` has it
  dropped "on its next heartbeat", `internal/admin/server.go:457-459` "within one
  heartbeat interval". `handleHeartbeat` only records a claim.

Two passing properties say what the code does where a comment says something else:

* `ConnStateMatchesAcks`: a registered worker that is rejected becomes connecting.
  `internal/protocol/heartbeat.go:12-16` keeps that state for a worker without any ack
  and lists "auth reversal" under degraded.
* `EnrolledIsServed` excepts a worker whose first dial failed.
  `internal/worker/daemon.go:137-140` says that the dialer "establishes (and
  re-establishes) the connection asynchronously"; it does so only from the second
  connection on.

All of this is among the `findings` of `PROJECT.json`.

Some passing properties are as weak as the code makes them, and the exception is
part of the property or of its comment:

* `AnsweredUnlessDamaged` excepts a request that SIGTERM finds waiting: `recvLoop` ends
  with the signal, so no more frames come in.
* `SyncedCatalogTruthful`, `CatalogInSync` and `CatalogConverges` except the rows of an
  entry that is gone while its engine lists no model. The new entry takes the empty
  catalog for unchanged and leaves them. An entry that empties its own catalog clears
  the rows, and that is checked.
* `RegisteredMeansRouted` is about an ack on the connection the worker still has. One of
  a former connection may be read after the router restarted, and the worker then calls
  itself registered for a while, though the registry does not have it.
* `OwnedOnce` excepts the pipe of a connection that saw `l.running` before the close and
  queues its pipe after it. It stays open on a list nobody looks at.
* `PipeLinked` goes one way. `byPipe` keeps the old pipe of a node that reconnects.
* `SelectsLeastLoaded` is about reported load. Requests dispatched since the last
  heartbeat do not count.
* `CloseFlushes` is about entries recorded before Close. `Record` still accepts
  entries afterwards, and nobody writes them.
* `SilenceNoticed` allows the slow ticker. A worker refused after it was registered
  keeps it, and does not go back to one tick per second.
* `RevealedOnce` says nothing of memory. A stashed key that nobody views stays until
  another key is created.
* No property says that `nodes.token_id` is current: the upsert of a row leaves the
  token it was inserted with.
* `RevokedIsRetired` says "eventually"; see `revocation` above.
* `CloseReleases` is about handlers at work when the listener is closed. One that saw
  `l.running` before and queues its pipe after it waits where nobody looks.
* `CredentialsSurvive` needs, for the signer, that no two processes were making it at
  once. The second overwrites the file of the first, which goes on signing with a key
  that nobody will load.
* `OnlyTornWedges` and `ServesAgain` except a kill while a file was written or between
  certificate and key. An empty file, and a certificate without a key, are errors at
  every later start. The comment at `mesh/tls.go:84-90` says that a pair is made when
  either file is missing; the code makes one only when the certificate is.
* `SplitsAtEnds` compares with a reference that drops a comment with its line end, as
  the code does. SQL would read a blank there, so words right before and after a
  comment run together. None of the migrations has such a place.
* `SentIsRead` holds for finitely many connections. Accept takes the newest first.
* `AcceptedConnectionIsRoute` is about nodes with one worker. Two workers enrolled
  under one name take the route from one another with every heartbeat.
* `TrailMatches` is complete only while no event write failed. `loginSubmit` goes on
  when one does.

Each module has one type invariant. It is a conjunct of another invariant of its run,
or proved (`TypeCorrect`, `DaemonTypeCorrect`, `DashboardTypeCorrect`).

### Bounds

Every bound is a constant and a guard: `MaxAge`, `MaxSilence`, `MaxFaults`, `Capacity`,
`MaxChunks`, `MaxEntries`, `MaxChanges`, `MaxKills`, and the sizes of the sets.

* Ages reach one step past each threshold, so fresh, at the limit and past it are
  told apart.
* Three names, three pipes and a claims table of two make the table overflow, an
  owner of a pipe be retired, and ties happen.
* One worker with two faults has a late heartbeat of a broken connection, a reconnect
  and a restart in one behaviour, and names itself after another node.
  `FleetProofs` has no such bounds.
* One request with up to three chunks, a channel of two and two faults: the channel
  overflows, and a reconnect meets frames on the wire. Several requests at once share
  only the registry and the session table; the safety properties of the request path
  and its refinement are proved for any number of them.
* `LostStream` needs one fault, `Revocation` none.
* An audit buffer of two, batches of two and five entries fill the buffer, fill
  batches, and leave a rest for Close.
* Catalogs are empty, of one or two models, reordered, or with a name twice.
* Two credentials and two browsers: an admin key and one being created or revoked,
  or two admins who revoke one another.
* Two connections, with the smallest and the largest pipe id, and messages at the ends
  of the length fields: request ids of 0, 36 and 255 bytes, payloads of 0, 100, 255 and
  256, bytes with and without the high bit. `AdmissionProofs` has no such bounds.
* One router, one command and two kills: a kill in the middle of a first start and one
  of the restart, with the command at any step of its own. Two migrations, so that a
  process may find one applied that its snapshot lacks.
* Scripts of up to four lexemes, with quotes, dashes and semicolons inside and next to
  literals and comments: the splitter looks one character ahead and remembers one mode.
  `StartupProofs` has no such bound.

`CHECK_DEADLOCK FALSE` is used where the system may stop: a closed audit log, a closed
listener, and the dashboard once all credentials of the instance are used up. Symmetry
is used only in runs without liveness properties.

### Fairness

* `Fleet`: goroutines run, a first dial connects unless it fails, the dialer redials,
  messages on a connection arrive, time passes. Faults and revocations need not happen,
  and are finitely many. Time does not pass over a tick that is due unless the loop is
  blocked in a send.
* `RequestPath`: handlers and jobs run, the engine's answers end, the dialer
  redials, and frames arrive while the worker is connected. Clients, time and SIGTERM
  owe nothing.
* `AuditLog`: the writer and its ticker run.
* `NodeStore`: strong fairness for the heartbeats of each worker, since all of them
  wait for the one recvLoop, which takes turns.
* `Listener` and `MeshLink`: goroutines run, a message on a connection is read, and a
  closed socket closes its pipes. Nobody need connect, send or close.
* `Startup`: a process that runs goes on, and the service manager starts a router that
  has ended. Nobody need run a command, kill or shut down.
* `LoginLimiter`: time passes and clients keep trying; without attempts there is
  nothing to admit.

## What is proved

Every safety property that a passing run checks is proved for all values of the constants that
satisfy the named assumptions. Eight modules hold the proofs:

| module | about |
|---|---|
| `RouterProofs` | the registry's index, and how the frames of one answer move |
| `FleetProofs` | the worker daemon, and the fleet |
| `RequestPathProofs` | the request path, on top of `RouterProofs` |
| `SelectionProofs` | claims, selection, and the sessions that selection counts |
| `DatabaseProofs` | dashboard, audit log and node store |
| `AdmissionProofs` | wire format, mesh link, listener and login throttle |
| `StartupProofs` | types of the startup, the statement splitter, and the schema |
| `CredentialProofs` | the files of the startup, on top of `StartupProofs` |

A leaf names its prover and a time limit where the provers are slow, or where the one
that tlapm tries first does not find the proof. The time tlapm takes for a leaf grows
with the leaves before it, so a module has at most about a thousand obligations for the SMT
solver and begins with the heavy ones. The splitter, at the end of `StartupProofs`, is
left to Zenon for the most part.

**Registry**

* *The maps agree* (`TypeCorrect`, `OrderIsIndexed`, `PipesAreLinked`). The two are
  inductive together with the types. The step that needs work is `upsert` when a pipe
  changes hands: `RemoveStringDrops` shows that removing from a sequence without
  duplicates removes exactly the one element.
* *Claims are bounded, current, and lost for a reason* (`ClaimsAreBounded`,
  `ClaimsAreNewer`, `ClaimLossIsJustified`). The cap is inductive only together with
  finiteness.
* *Selection is least loaded, first come* (`SelectionIsLeastLoaded`). The loop is the
  recursive function `bestAfter`. `LoopRuns` shows that the recursion has a solution and
  `LoopFinds` what it has found after n ids, both by induction over n.

**Daemon and fleet**

* *The daemon reports what it was told, and notices silence* (`StateMatchesAcks`,
  `SilenceIsNoticed`). `SilenceNoticed` is not inductive: `SilenceInv` adds that the
  silence at the next tick is still within bounds, and that after the check of a tick a
  daemon that is still registered heard an ack within the limit.
* *The fleet uses the registry as specified* (`FleetImplementsRegistry`): every step of
  `Fleet` is a step of `NodeRegistry` or leaves it alone, so the theorems about the
  registry hold in the fleet.
* *Jobs reach the right worker* (`DispatchIsSafe`). `OwnerInv` says that all that carries
  a pipe id, a connection, held heartbeats and `byPipe`, belongs to one node; it rests on
  pipe ids not being used again.
* *The accepted connection is the route* (`AcceptedIsRoute`), where each node has one
  worker, which is a hypothesis. `RouteInv` says that the heartbeats of a worker are
  handled in the order of its connections, none of them newer than the present one; so
  once one of the present connection was accepted, none of an earlier one is left.
* *Who is told that it is registered is routed to* (`RegisteredIsRouted`), under the same
  hypothesis. `AckInv` says that an OK on a worker's present connection means that
  `byPipe` knows this connection, and `RouteInv` leads from there to the entry of the
  node. Acks of earlier connections survive breaks and restarts of the router, but their
  pipe is not the present one, since pipe ids are not used again.

**Request path**

* *Sessions are those of the handlers at work* (`SessionsAreHandlers`), *a 200 is whole
  unless damaged* (`AnswersAreComplete`), and *the path implements `RequestService`*
  (`PathImplementsService`). All three rest on `PathInv`: the registry's invariant, the
  types, and two predicates of `RouterProofs` about one request. `ReqOK` says that the
  chunks in the reply, in the channel and on the wire rise, those of each place after
  those of the place before, and none beyond what was read; `WholeOK` that while nothing
  was lost every frame is at its place in the answer and none is missing. `LocalStep`
  reduces a step of a handler or a job to its one request, and `RouterProofs` shows for
  each way frames move, a `Read`, a delivery, a full channel, a broken connection, that
  the predicates survive it. In the refinement each step is one of the service's or a
  stutter, which `ReqOK` before the step shows.

**Audit log and node store**

* *Every entry is in exactly one place, in order* (`EntriesAreAccounted`) and *Close
  flushes* (`CloseIsReliable`). `Accounted` is inductive once said with disjoint places
  (`AccountedApart`); `CloseInv` adds that a stopped writer has left nothing in its batch
  and in the channel only what was recorded after Close.
* *What is believed synced is* (`SyncedCatalogIsTruthful`) and *a persisted heartbeat
  leaves the table in sync* (`CatalogIsInSync`). `StoreInv` adds that a node without an
  entry has no rows but those an entry left behind, that a row of `nodes` is
  there before the catalog is written, and that the catalog is as reported between the
  commit and the note of it.

**Dashboard and login throttle**

* *Raw keys are shown once* (`RevealsAreSingle`). `RevealInv` says that a raw form which
  can still be shown has not been, and is in one place: about to be printed, about to be
  stashed, or stashed.
* *Sessions are of admin keys and end with them* (`SessionsBelongToAdmins`,
  `RevokedSessionsEnd`).
* *The trail tells what happened* (`TrailIsFaithful`). What an event says of a
  credential lasts, so a step need only be looked at for the events it adds and the
  sessions it opens (`TrailSteps`).
* *Verifications are bounded* (`VerificationsAreBounded`). `BurnInv` says that what was
  verified since the bucket was opened is within its count and the limit, and that all
  older ones that still count fell into one earlier bucket. What `Burnt` adds up to when
  time passes or a key is verified is shown by induction over the span.

**Mesh**

* *Encodings are undone by the decoders* (`EnvelopeRoundTrip`, `FrameRoundTrip`,
  `HeaderComesOff`), at every length within the limits, by taking apart the three parts
  a message is put together from.
* *Messages arrive as sent* (`MessagesArriveAsSent`). `LinkInv` says that the header a
  worker keeps of a job is the token, so that its answer starts with the token as well,
  and that what is on the wire is an encoding of what its sender meant.
* *Every open pipe has one owner* (`PipesAreOwned`). `OwnedOnce` is not inductive:
  `ListenerInv` adds that a pipe mangos has was queued before, so no handler queues it
  again, and that nothing is queued before Listen, which empties the list. `QueuedInv`
  says that whoever is in its upgrade after the close was so at the close.

**Startup**, for one router and any number of commands and kills

* *Credentials survive* (`CredentialsKept`) and *only a torn write wedges the router*
  (`OnlyATornWriteWedges`). `CredInv` says what each process holds in memory when it
  stands at a step, that a file which was served from stays, that without a race there is
  one signer, and that without a torn write a file is empty, or a certificate without a
  key, only while somebody is at work on it.
* *Scripts are cut as meant* (`ScriptsAreCutAsMeant`, and `NoProcessMissplits` for the
  property of the run), for scripts of any length. The splitter is a loop over
  characters and the reference one over lexemes. `ScanRuns`, `TextRuns` and `AddRuns`
  show that the recursions have solutions. `Between` says what the loop holds between
  two lexemes: the buffer and the statements of the reference, in plain text, or at the
  second of two quotes when one literal follows another. `LexemeScanned` takes it over
  one lexeme; in a literal (`LiteralScanned`) the induction is over the characters, and
  the mode tells whether the last one was the first of two quotes.
* *The schema grows by whole migrations* (`SchemaGrowsByMigrations`). `SchemaInv` adds
  what a transaction holds and that one process at most is about to commit. That what is
  executed is what is meant comes from the splitter.

Induction over the naturals is the lemma `SetInduction`, for a property given as a set:
the library's own theorems take an operator as a parameter, which the provers cannot
instantiate. It follows from the well-foundedness of the strict subset order on finite
sets, which the library states without one.

Assumptions on constants are named where they are declared (`ProtocolAssumption`,
`RegistryAssumption`, `DaemonAssumption`, `FleetAssumption`, `FramesAssumption`,
`PathAssumption`, `AuditAssumption`, `StoreAssumption`, `DashboardAssumption`,
`LimiterAssumption`, `LinkAssumption`, `ScriptsAssumption`, `StartAssumption`): thresholds are natural
numbers, ages reach past them, markers such as `NoPipe` are not values, messages fit
their length fields, the load of all requests is a load, one router runs at a time, and
scripts are well formed: literals are closed, comments end with their line, and a minus
right before another begins a comment.
Every run evaluates those of its modules.

Only model-checked is liveness, since the prover has no reasoning about fairness or
ENABLED: `EnrolledIsServed`, `RevokedIsRetired`, `RefusedIsShown`,
`AnsweredUnlessDamaged`, `EntrySettles`, `CatalogConverges`, `BurstEnds`, `CloseReleases`, `SentIsRead`, `ServesAgain`.

## What is not modelled

* Cryptography, HTML, configuration files, the engine's HTTP interface: no state
  that these properties could tell apart.
* The catalog probe's loop: it replaces one cached value under a lock, and `NodeStore`
  lets the reported catalog change at any time.
* The websocket dialer, one sequential call, and the options of dialer and listener.
* Token expiry, beyond being like revocation; malformed heartbeats, which change
  nothing; failed JSON decoding.
* Wrapping of pipe ids, and the internals of mangos and SQLite. SQLite is a set of
  rows on which a statement or a transaction takes effect at once or fails.
* Files that are cut off in the middle: a file is absent, empty or whole. SIGTERM
  during the start makes the migrations fail, which a kill covers, or else takes effect
  once the router serves.

## Plan

Token expiry in `Fleet`, apart from revocation.
