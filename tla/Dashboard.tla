----------------------------- MODULE Dashboard ------------------------------
(***************************************************************************)
(* The admin dashboard's credentials: keys and enrolment tokens, their     *)
(* one-time reveal, and the sessions they open (internal/admin/server.go,  *)
(* nonce.go; internal/auth/apikey.go, enrollment.go), together with the    *)
(* admin commands of cmd/linguine/main.go on the same database.            *)
(*                                                                         *)
(* Requests run concurrently.  One that needs a session passes             *)
(* requireSession first and runs its handler later, so what requireSession *)
(* saw may have changed.  SQLite has one connection: a statement is one    *)
(* step.  The throttle on logins is LoginLimiter.  API keys are created    *)
(* without an expiry, and enrolment tokens' plays no part here.            *)
(*                                                                         *)
(* A credential stands for its id, its raw form and the nonce its raw form *)
(* is stashed under: the code draws all three at random.                   *)
(***************************************************************************)
EXTENDS Integers, FiniteSets, Functions

CONSTANTS
  Cred,           \* API keys and enrolment tokens that may be created
  NoCred,
  Browser,        \* operators' browsers, with one request at a time each
  NonceTTL, SessionTTL,
  MaxAge,         \* bound: ages are not told apart beyond it
  MaxFaults       \* bound: failed event writes, ended processes

ASSUME DashboardAssumption ==
  /\ NoCred \notin Cred
  /\ NonceTTL \in Nat /\ SessionTTL \in Nat /\ MaxAge \in Nat /\ MaxFaults \in Nat
  /\ NonceTTL < MaxAge /\ SessionTTL < MaxAge

VARIABLES
  status,         \* credential -> absent, active or revoked
  role,           \* credential -> client, admin, or worker for an enrolment token
  command,        \* the key adminCreateKey has yet to make an admin key
  nonces,         \* s.nonces.entries: credential stashed -> age
  shown,          \* credential -> how often its raw form was shown
  cookie,         \* browser -> the session it holds
  busy,           \* browser -> its request past requireSession or Verify
  events,         \* rows of admin_audit_logs
  faults

dashboardVars == <<status, role, command, nonces, shown, cookie, busy, events, faults>>

Age == 0 .. MaxAge
Session == [key : Cred \cup {NoCred}, age : Age]
NoSession == [key |-> NoCred, age |-> 0]
Request == [op : {"none", "login", "create", "stash", "reveal", "revoke"},
            arg : Cred \cup {NoCred}, by : Cred \cup {NoCred}]
Idle == [op |-> "none", arg |-> NoCred, by |-> NoCred]

DashboardTypeOK ==
  /\ status \in [Cred -> {"absent", "active", "revoked"}]
  /\ role \in [Cred -> {"client", "admin", "worker"}]
  /\ command \in Cred \cup {NoCred}
  /\ DOMAIN nonces \subseteq Cred /\ nonces \in [DOMAIN nonces -> Age]
  /\ shown \in [Cred -> Nat] /\ cookie \in [Browser -> Session] /\ busy \in [Browser -> Request]
  /\ \A b \in Browser : busy[b].op \in {"login", "stash"} => busy[b].arg \in Cred
  /\ events \subseteq [event : {"login_throttled", "login_failed", "login_ok", "created", "revoked"},
                       cred : Cred \cup {NoCred}]
  /\ faults \in 0 .. MaxFaults

DashboardInit ==
  /\ status = [k \in Cred |-> "absent"] /\ role = [k \in Cred |-> "client"]
  /\ command = NoCred /\ nonces = [k \in {} |-> 0] /\ shown = [k \in Cred |-> 0]
  /\ cookie = [b \in Browser |-> NoSession] /\ busy = [b \in Browser |-> Idle]
  /\ events = {} /\ faults = 0

Fault == faults < MaxFaults /\ faults' = faults + 1
Goto(b, req) == busy' = [busy EXCEPT ![b] = req]
Show(k) == shown' = [shown EXCEPT ![k] = @ + 1]

(* Create of either repository.                                            *)
Create(k, r) ==
  /\ status[k] = "absent"
  /\ status' = [status EXCEPT ![k] = "active"] /\ role' = [role EXCEPT ![k] = r]

(* Revoke of either repository: idempotent, an error for an unknown id.    *)
Revoke(k) == status' = IF status[k] = "absent" THEN status ELSE [status EXCEPT ![k] = "revoked"]

(* RecordAdminEvent, whose error every caller discards.                    *)
RecordAdminEvent(event, k) ==
  \/ events' = events \cup {[event |-> event, cred |-> k]} /\ UNCHANGED faults
  \/ Fault /\ UNCHANGED events

-----------------------------------------------------------------------------
(* adminCreateKey: the row is inserted as a client key, then made admin,   *)
(* then printed.                                                           *)
adminCreateKey(k, wanted) ==
  /\ command = NoCred
  /\ Create(k, "client")
  /\ IF wanted = "admin" THEN command' = k /\ UNCHANGED shown ELSE Show(k) /\ UNCHANGED command
  /\ UNCHANGED <<nonces, cookie, busy, events, faults>>
setAdminRole ==
  /\ command # NoCred /\ command' = NoCred
  /\ role' = [role EXCEPT ![command] = "admin"] /\ Show(command)
  /\ UNCHANGED <<status, nonces, cookie, busy, events, faults>>
commandFails ==
  /\ Fault /\ command # NoCred /\ command' = NoCred
  /\ UNCHANGED <<status, role, nonces, shown, cookie, busy, events>>

adminCreateEnrollment(k) ==
  /\ Create(k, "worker") /\ Show(k)
  /\ UNCHANGED <<command, nonces, cookie, busy, events, faults>>

adminRevokeKey(k) ==
  /\ role[k] # "worker" /\ Revoke(k)
  /\ UNCHANGED <<role, command, nonces, shown, cookie, busy, events, faults>>

-----------------------------------------------------------------------------
(* loginSubmit: someone who has seen an API key submits it.  Verify        *)
(* accepts it while it is active; the rest of the handler runs later.  A   *)
(* refused login is recorded, with the key if it is an active one.         *)
LoginRole_Any(k) == role[k] # "worker"
LoginRole(k) == role[k] = "admin"
Verify(b, k) ==
  /\ busy[b] = Idle /\ shown[k] > 0
  /\ status[k] = "active" /\ LoginRole(k)
  /\ Goto(b, [op |-> "login", arg |-> k, by |-> NoCred])
  /\ UNCHANGED <<status, role, command, nonces, shown, cookie, events, faults>>
loginRefused(b, k) ==
  /\ busy[b] = Idle
  /\ \/ RecordAdminEvent("login_throttled", NoCred)
     \/ ~(status[k] = "active" /\ shown[k] > 0) /\ RecordAdminEvent("login_failed", NoCred)
     \/ status[k] = "active" /\ shown[k] > 0 /\ role[k] = "client" /\ RecordAdminEvent("login_failed", k)
  /\ UNCHANGED <<status, role, command, nonces, shown, cookie, busy>>
loginSubmit(b) ==
  /\ busy[b].op = "login"
  /\ RecordAdminEvent("login_ok", busy[b].arg)
  /\ cookie' = [cookie EXCEPT ![b] = [key |-> busy[b].arg, age |-> 0]]
  /\ Goto(b, Idle)
  /\ UNCHANGED <<status, role, command, nonces, shown>>

(* The browser forgets its cookie.                                         *)
logout(b) ==
  /\ busy[b] = Idle /\ cookie' = [cookie EXCEPT ![b] = NoSession]
  /\ UNCHANGED <<status, role, command, nonces, shown, busy, events, faults>>

(* requireSession: the cookie is genuine and young, its key still active.  *)
SessionAlive_CookieOnly(s) == s.key # NoCred /\ s.age <= SessionTTL
SessionAlive(s) == s.key # NoCred /\ s.age <= SessionTTL /\ status[s.key] = "active"
requireSession(b, op, k) ==
  /\ busy[b] = Idle /\ SessionAlive(cookie[b])
  /\ Goto(b, [op |-> op, arg |-> k, by |-> cookie[b].key])
  /\ UNCHANGED <<status, role, command, nonces, shown, cookie, events, faults>>

(* keysCreate and workerKeysCreate: the row and the event are written,     *)
(* then the raw form is stashed and the expired entries are purged.  The   *)
(* row and the event make one step: no step reads the events.              *)
create(b, k, r) ==
  /\ busy[b].op = "create"
  /\ Create(k, r) /\ RecordAdminEvent("created", k)
  /\ Goto(b, [op |-> "stash", arg |-> k, by |-> busy[b].by])
  /\ UNCHANGED <<command, nonces, shown, cookie>>
keysCreate(b, k) == create(b, k, "client")
workerKeysCreate(b, k) == create(b, k, "worker")
Unexpired == {k \in DOMAIN nonces : nonces[k] <= NonceTTL}
put(b) ==
  /\ busy[b].op = "stash"
  /\ nonces' = [k \in Unexpired \cup {busy[b].arg} |-> IF k = busy[b].arg THEN 0 ELSE nonces[k]]
  /\ Goto(b, Idle)
  /\ UNCHANGED <<status, role, command, shown, cookie, events, faults>>
(* Signing the enrolment token fails, before the event, or drawing the     *)
(* nonce does, after it: the row stays and its raw form is lost.           *)
issueFails(b, k) ==
  /\ Fault /\ busy[b].op = "create" /\ Create(k, "worker") /\ Goto(b, Idle)
  /\ UNCHANGED <<command, nonces, shown, cookie, events>>
createFails(b) ==
  /\ Fault /\ busy[b].op = "stash" /\ Goto(b, Idle)
  /\ UNCHANGED <<status, role, command, nonces, shown, cookie, events>>

(* keyCreatedPage and workerKeyCreatedPage: take deletes the entry, and    *)
(* the page is shown if it had not expired.  Either page shows either kind.*)
AfterTake_Kept(k) == nonces
AfterTake(k) == Restrict(nonces, DOMAIN nonces \ {k})
keyCreatedPage(b) ==
  /\ busy[b].op = "reveal"
  /\ nonces' = AfterTake(busy[b].arg)
  /\ IF busy[b].arg \in Unexpired THEN Show(busy[b].arg) ELSE UNCHANGED shown
  /\ Goto(b, Idle)
  /\ UNCHANGED <<status, role, command, cookie, events, faults>>
workerKeyCreatedPage(b) == keyCreatedPage(b)

(* keyRevoke and workerKeyRevoke: an id of the wrong kind is an unknown    *)
(* id, and one cannot revoke the key of one's own session.                 *)
revoke_RecordedFirst(b, ids) ==
  /\ busy[b].op = "revoke"
  /\ RecordAdminEvent("revoked", busy[b].arg)
  /\ IF busy[b].arg \in ids THEN Revoke(busy[b].arg) ELSE UNCHANGED status
  /\ Goto(b, Idle)
  /\ UNCHANGED <<role, command, nonces, shown, cookie>>
revoke(b, ids) ==
  /\ busy[b].op = "revoke"
  /\ IF busy[b].arg \in ids
     THEN Revoke(busy[b].arg) /\ RecordAdminEvent("revoked", busy[b].arg)
     ELSE UNCHANGED <<status, events, faults>>
  /\ Goto(b, Idle)
  /\ UNCHANGED <<role, command, nonces, shown, cookie>>
Known(kinds) == {k \in Cred : status[k] # "absent" /\ role[k] \in kinds}
keyRevoke(b) == revoke(b, Known({"client", "admin"}) \ {busy[b].by})
workerKeyRevoke(b) == revoke(b, Known({"worker"}))

-----------------------------------------------------------------------------
(* The router restarts: requests and stashed keys are gone; the session    *)
(* secret is on disk, so cookies stay valid.                               *)
Restart ==
  /\ Fault /\ nonces' = [k \in {} |-> 0] /\ busy' = [b \in Browser |-> Idle]
  /\ UNCHANGED <<status, role, command, shown, cookie, events>>

Older(age) == IF age < MaxAge THEN age + 1 ELSE age
DashboardTick ==
  /\ nonces' = [k \in DOMAIN nonces |-> Older(nonces[k])]
  /\ cookie' = [b \in Browser |-> IF cookie[b].key = NoCred THEN cookie[b]
                                  ELSE [cookie[b] EXCEPT !.age = Older(@)]]
  /\ UNCHANGED <<status, role, command, shown, busy, events, faults>>

(* The steps that finish a request under way.                              *)
Handler(b) ==
  \/ \E k \in Cred : keysCreate(b, k) \/ workerKeysCreate(b, k)
  \/ put(b) \/ loginSubmit(b) \/ keyCreatedPage(b) \/ workerKeyCreatedPage(b)
  \/ keyRevoke(b) \/ workerKeyRevoke(b)

DashboardNext ==
  \/ \E k \in Cred : \/ \E wanted \in {"client", "admin"} : adminCreateKey(k, wanted)
                     \/ adminCreateEnrollment(k) \/ adminRevokeKey(k)
  \/ setAdminRole \/ commandFails \/ Restart \/ DashboardTick
  \/ \E b \in Browser : \/ \E k \in Cred : Verify(b, k) \/ loginRefused(b, k) \/ issueFails(b, k)
                        \/ \E k \in Cred, op \in {"reveal", "revoke"} : requireSession(b, op, k)
                        \/ requireSession(b, "create", NoCred)
                        \/ createFails(b) \/ logout(b) \/ Handler(b)

DashboardSpec == DashboardInit /\ [][DashboardNext]_dashboardVars

-----------------------------------------------------------------------------
(* "exactly once" (nonce.go:14): the raw form of a credential is never     *)
(* shown a second time, to whoever follows the link, whatever is reloaded, *)
(* purged, expired or restarted meanwhile (nonce.go:49-61, server.go:364). *)
RevealedOnce == \A k \in Cred : shown[k] <= 1

(* A session belongs to an admin key, although only loginSubmit looks at   *)
(* the role and the guard of later requests does not (server.go:170-182,   *)
(* 211), and the commands change roles under way (main.go:213-221).        *)
SessionsAreAdmin ==
  \A b \in Browser : /\ cookie[b].key # NoCred => role[cookie[b].key] = "admin"
                     /\ busy[b].by # NoCred => role[busy[b].by] = "admin"

(* Once a key is revoked and the requests it had got through are done, no  *)
(* request runs on its behalf again, through any cookie, login in progress *)
(* or restart (apikey.go:228-231, server.go:166-169).                      *)
RevokedSessionsDie ==
  [][\A k \in Cred :
       status[k] = "revoked" /\ (\A b \in Browser : busy[b].by # k)
         => \A b \in Browser : busy'[b].by # k]_dashboardVars

(* The trail of admin events is sound and, while every write of an event   *)
(* went through, complete: it claims no login of a key that is not admin   *)
(* and no revocation that did not happen, and a session has its login on   *)
(* record.  RecordAdminEvent's error is discarded, so nothing else keeps   *)
(* the two in step (server.go:224, audit/repo.go:231-232).                 *)
TrailMatches ==
  /\ \A e \in events : /\ e.event = "login_ok" => role[e.cred] = "admin"
                       /\ e.event = "revoked" => status[e.cred] = "revoked"
                       /\ e.event = "created" => status[e.cred] # "absent"
  /\ faults = 0 => \A b \in Browser : cookie[b].key # NoCred =>
                     [event |-> "login_ok", cred |-> cookie[b].key] \in events
=============================================================================
