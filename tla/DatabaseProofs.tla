--------------------------- MODULE DatabaseProofs ---------------------------
(***************************************************************************)
(* What the router writes to its database while it runs: the credentials   *)
(* with the trail of what was done to them (Dashboard), for any number of  *)
(* credentials and browsers and any lifetimes of nonces and sessions; the  *)
(* request audit log (AuditLog), for any capacity of the channel, any      *)
(* batch size and any number of entries; and the catalogs of the nodes     *)
(* (NodeStore), for any nodes, tokens and catalogs and any number of       *)
(* failures and restarts.                                                  *)
(*                                                                         *)
(* Of AuditLog, table, batch and channel are taken apart: each is          *)
(* increasing and all of one lies below all of the next, so that a step is *)
(* reasoned about where it happens and not in the concatenation of the     *)
(* three.                                                                  *)
(***************************************************************************)
EXTENDS AuditLog, NodeStore, Dashboard, TLAPS

(* What RevealedOnce rests on: a raw form that can still be shown, being   *)
(* stashed, about to be stashed or about to be printed, has not been, and  *)
(* it is in only one of these places.                                      *)
Stashing(b, k) == busy[b].op = "stash" /\ busy[b].arg = k
RevealInv ==
  \A k \in Cred :
    /\ shown[k] <= 1
    /\ status[k] = "absent" => shown[k] = 0
    /\ k \in DOMAIN nonces => shown[k] = 0 /\ status[k] # "absent"
    /\ command = k => shown[k] = 0 /\ status[k] # "absent" /\ k \notin DOMAIN nonces
    /\ \A b \in Browser : Stashing(b, k) =>
         /\ shown[k] = 0 /\ status[k] # "absent" /\ k \notin DOMAIN nonces /\ command # k
         /\ \A c \in Browser : Stashing(c, k) => c = b

(* What SessionsAreAdmin rests on: a login in progress and a session are   *)
(* of a key that exists, and is an admin key.                              *)
IsAdmin(k) == status[k] # "absent" /\ role[k] = "admin"
SessionInv ==
  \A b \in Browser : /\ cookie[b].key # NoCred => IsAdmin(cookie[b].key)
                     /\ busy[b].by # NoCred => IsAdmin(busy[b].by)
                     /\ busy[b].op = "login" => IsAdmin(busy[b].arg)

(* What a step may not do by RevokedSessionsDie.                           *)
LetsRevokedThrough ==
  \E k \in Cred, c \in Browser :
    status[k] = "revoked" /\ (\A b \in Browser : busy[b].by # k) /\ busy'[c].by = k

-----------------------------------------------------------------------------
(* Every step of the dashboard and of the commands keeps the types.        *)
LEMMA TypePreserved == ASSUME DashboardTypeOK, [DashboardNext]_dashboardVars PROVE DashboardTypeOK'
<1> USE DashboardAssumption DEF DashboardTypeOK, Request, Session, NoSession, Age, Idle, Goto, Show, Fault
<1>1. ASSUME NEW k \in Cred, NEW wanted \in {"client", "admin"}, adminCreateKey(k, wanted)
      PROVE  DashboardTypeOK'
  BY <1>1 DEF adminCreateKey, Create
<1>2. ASSUME NEW k \in Cred, adminCreateEnrollment(k)
      PROVE  DashboardTypeOK'
  BY <1>2 DEF adminCreateEnrollment, Create
<1>3. ASSUME NEW k \in Cred, adminRevokeKey(k)
      PROVE  DashboardTypeOK'
  BY <1>3 DEF adminRevokeKey, Revoke
<1>4. CASE setAdminRole
  BY <1>4 DEF setAdminRole
<1>5. CASE commandFails
  BY <1>5 DEF commandFails
<1>6. CASE Restart
  BY <1>6 DEF Restart
<1>7. CASE DashboardTick
  BY <1>7 DEF DashboardTick, Older
<1>8. ASSUME NEW b \in Browser, NEW k \in Cred, Verify(b, k)
      PROVE  DashboardTypeOK'
  BY <1>8 DEF Verify, LoginRole
<1>9. ASSUME NEW b \in Browser, NEW k \in Cred, loginRefused(b, k)
      PROVE  DashboardTypeOK'
  BY <1>9 DEF loginRefused, RecordAdminEvent
<1>10. ASSUME NEW b \in Browser, NEW k \in Cred \cup {NoCred}, NEW op \in {"create", "reveal", "revoke"}, requireSession(b, op, k)
       PROVE  DashboardTypeOK'
  BY <1>10 DEF requireSession, SessionAlive
<1>11. ASSUME NEW b \in Browser, createFails(b)
       PROVE  DashboardTypeOK'
  BY <1>11 DEF createFails
<1>12. ASSUME NEW b \in Browser, NEW k \in Cred, issueFails(b, k)
       PROVE  DashboardTypeOK'
  BY <1>12 DEF issueFails, Create
<1>13. ASSUME NEW b \in Browser, logout(b)
       PROVE  DashboardTypeOK'
  BY <1>13 DEF logout
<1>14. ASSUME NEW b \in Browser, loginSubmit(b)
       PROVE  DashboardTypeOK'
  BY <1>14 DEF loginSubmit, RecordAdminEvent
<1>15. ASSUME NEW b \in Browser, NEW k \in Cred, NEW r \in {"client", "worker"}, create(b, k, r)
       PROVE  DashboardTypeOK'
  BY <1>15 DEF create, Create, RecordAdminEvent
<1>16. ASSUME NEW b \in Browser, put(b)
       PROVE  DashboardTypeOK'
  BY <1>16 DEF put, Unexpired
<1>17. ASSUME NEW b \in Browser, keyCreatedPage(b)
       PROVE  DashboardTypeOK'
  BY <1>17 DEF keyCreatedPage, AfterTake, Restrict, Unexpired
<1>18. ASSUME NEW b \in Browser, NEW ids, revoke(b, ids)
       PROVE  DashboardTypeOK'
  BY <1>18 DEF revoke, Revoke, RecordAdminEvent
<1>19. ASSUME NEW b \in Browser, keyRevoke(b) \/ workerKeyRevoke(b)
       PROVE  DashboardTypeOK'
  BY <1>19, <1>18 DEF keyRevoke, workerKeyRevoke
<1>20. CASE UNCHANGED dashboardVars
  BY <1>20 DEF dashboardVars
<1> HIDE DashboardAssumption DEF DashboardTypeOK, Request, Session, NoSession, Age, Idle, Goto, Show, Fault
<1>21. ASSUME NEW b \in Browser, Handler(b)
       PROVE  DashboardTypeOK'
  BY <1>21, <1>14, <1>15, <1>16, <1>17, <1>19
  DEF Handler, keysCreate, workerKeysCreate, workerKeyCreatedPage
<1> QED
  BY <1>1, <1>2, <1>3, <1>4, <1>5, <1>6, <1>7, <1>8, <1>9, <1>10, <1>11, <1>12, <1>13, <1>20, <1>21
  DEF DashboardNext

(* The dashboard's state keeps to its types.                               *)
THEOREM DashboardTypeCorrect == DashboardSpec => []DashboardTypeOK
<1>1. DashboardInit => DashboardTypeOK
  BY DashboardAssumption DEF DashboardInit, DashboardTypeOK, NoSession, Session, Age, Idle, Request
<1> QED BY <1>1, TypePreserved, PTL DEF DashboardSpec

-----------------------------------------------------------------------------
(* Every step keeps RevealInv: a credential is new when it is created, and *)
(* showing a stashed one takes it out of the stash.                        *)
LEMMA RevealPreserved ==
  ASSUME DashboardTypeOK, DashboardTypeOK', RevealInv, [DashboardNext]_dashboardVars
  PROVE  RevealInv'
<1> USE DashboardAssumption DEF DashboardTypeOK, RevealInv, Stashing, Request, Idle, Goto, Show
<1>1. ASSUME NEW k \in Cred, NEW wanted \in {"client", "admin"}, adminCreateKey(k, wanted)
      PROVE  RevealInv'
  BY <1>1 DEF adminCreateKey, Create
<1>2. ASSUME NEW k \in Cred, adminCreateEnrollment(k)
      PROVE  RevealInv'
  BY <1>2 DEF adminCreateEnrollment, Create
<1>3. ASSUME NEW k \in Cred, adminRevokeKey(k)
      PROVE  RevealInv'
  BY <1>3 DEF adminRevokeKey, Revoke
<1>4. CASE setAdminRole
  BY <1>4 DEF setAdminRole
<1>5. CASE commandFails
  BY <1>5 DEF commandFails
<1>6. CASE Restart
  BY <1>6 DEF Restart
<1>7. CASE DashboardTick
  BY <1>7 DEF DashboardTick
<1>8. ASSUME NEW b \in Browser, NEW k \in Cred, Verify(b, k)
      PROVE  RevealInv'
  BY <1>8 DEF Verify
<1>9. ASSUME NEW b \in Browser, NEW k \in Cred, loginRefused(b, k)
      PROVE  RevealInv'
  BY <1>9 DEF loginRefused
<1>10. ASSUME NEW b \in Browser, NEW k \in Cred \cup {NoCred}, NEW op \in {"create", "reveal", "revoke"}, requireSession(b, op, k)
       PROVE  RevealInv'
  BY <1>10 DEF requireSession
<1>11. ASSUME NEW b \in Browser, createFails(b)
       PROVE  RevealInv'
  BY <1>11 DEF createFails
<1>12. ASSUME NEW b \in Browser, NEW k \in Cred, issueFails(b, k)
       PROVE  RevealInv'
  BY <1>12 DEF issueFails, Create
<1>13. ASSUME NEW b \in Browser, logout(b)
       PROVE  RevealInv'
  BY <1>13 DEF logout
<1>14. ASSUME NEW b \in Browser, loginSubmit(b)
       PROVE  RevealInv'
  BY <1>14 DEF loginSubmit
<1>15. ASSUME NEW b \in Browser, NEW k \in Cred, NEW r \in {"client", "worker"}, create(b, k, r)
       PROVE  RevealInv'
  BY <1>15 DEF create, Create
<1>16. ASSUME NEW b \in Browser, put(b)
       PROVE  RevealInv'
  BY <1>16 DEF put, Unexpired
<1>17. ASSUME NEW b \in Browser, keyCreatedPage(b)
       PROVE  RevealInv'
  BY <1>17 DEF keyCreatedPage, AfterTake, Restrict, Unexpired
<1>18. ASSUME NEW b \in Browser, NEW ids, revoke(b, ids)
       PROVE  RevealInv'
  BY <1>18 DEF revoke, Revoke
<1>19. ASSUME NEW b \in Browser, keyRevoke(b) \/ workerKeyRevoke(b)
       PROVE  RevealInv'
  BY <1>19, <1>18 DEF keyRevoke, workerKeyRevoke
<1>20. CASE UNCHANGED dashboardVars
  BY <1>20 DEF dashboardVars
<1> HIDE DashboardAssumption DEF DashboardTypeOK, RevealInv, Stashing, Request, Idle, Goto, Show
<1>21. ASSUME NEW b \in Browser, Handler(b)
       PROVE  RevealInv'
  BY <1>21, <1>14, <1>15, <1>16, <1>17, <1>19
  DEF Handler, keysCreate, workerKeysCreate, workerKeyCreatedPage
<1> QED
  BY <1>1, <1>2, <1>3, <1>4, <1>5, <1>6, <1>7, <1>8, <1>9, <1>10, <1>11, <1>12, <1>13, <1>20, <1>21
  DEF DashboardNext

(* No raw form is shown twice.                                             *)
THEOREM RevealsAreSingle == DashboardSpec => []RevealedOnce
<1>1. DashboardInit => RevealInv
  BY DashboardAssumption DEF DashboardInit, RevealInv, Stashing, Idle
<1>2. RevealInv => RevealedOnce
  BY SMTT(30) DEF RevealInv, RevealedOnce
<1> QED BY <1>1, <1>2, RevealPreserved, DashboardTypeCorrect, PTL DEF DashboardSpec

-----------------------------------------------------------------------------
(* Every step keeps SessionInv: an admin key stays one.                    *)
LEMMA SessionPreserved ==
  ASSUME DashboardTypeOK, DashboardTypeOK', SessionInv, [DashboardNext]_dashboardVars
  PROVE  SessionInv'
<1> USE DashboardAssumption DEF DashboardTypeOK, SessionInv, IsAdmin, Request, Session, NoSession, Idle, Goto
<1>1. ASSUME NEW k \in Cred, NEW wanted \in {"client", "admin"}, adminCreateKey(k, wanted)
      PROVE  SessionInv'
  BY <1>1 DEF adminCreateKey, Create
<1>2. ASSUME NEW k \in Cred, adminCreateEnrollment(k)
      PROVE  SessionInv'
  BY <1>2 DEF adminCreateEnrollment, Create
<1>3. ASSUME NEW k \in Cred, adminRevokeKey(k)
      PROVE  SessionInv'
  BY <1>3 DEF adminRevokeKey, Revoke
<1>4. CASE setAdminRole
  BY <1>4 DEF setAdminRole
<1>5. CASE commandFails
  BY <1>5 DEF commandFails
<1>6. CASE Restart
  BY <1>6 DEF Restart
<1>7. CASE DashboardTick
  BY <1>7 DEF DashboardTick
<1>8. ASSUME NEW b \in Browser, NEW k \in Cred, Verify(b, k)
      PROVE  SessionInv'
  BY <1>8 DEF Verify, LoginRole
<1>9. ASSUME NEW b \in Browser, NEW k \in Cred, loginRefused(b, k)
      PROVE  SessionInv'
  BY <1>9 DEF loginRefused
<1>10. ASSUME NEW b \in Browser, NEW k \in Cred \cup {NoCred}, NEW op \in {"create", "reveal", "revoke"}, requireSession(b, op, k)
       PROVE  SessionInv'
  BY <1>10 DEF requireSession, SessionAlive
<1>11. ASSUME NEW b \in Browser, createFails(b)
       PROVE  SessionInv'
  BY <1>11 DEF createFails
<1>12. ASSUME NEW b \in Browser, NEW k \in Cred, issueFails(b, k)
       PROVE  SessionInv'
  BY <1>12 DEF issueFails, Create
<1>13. ASSUME NEW b \in Browser, logout(b)
       PROVE  SessionInv'
  BY <1>13 DEF logout
<1>14. ASSUME NEW b \in Browser, loginSubmit(b)
       PROVE  SessionInv'
  BY <1>14 DEF loginSubmit
<1>15. ASSUME NEW b \in Browser, NEW k \in Cred, NEW r \in {"client", "worker"}, create(b, k, r)
       PROVE  SessionInv'
  BY <1>15 DEF create, Create
<1>16. ASSUME NEW b \in Browser, put(b)
       PROVE  SessionInv'
  BY <1>16 DEF put
<1>17. ASSUME NEW b \in Browser, keyCreatedPage(b)
       PROVE  SessionInv'
  BY <1>17 DEF keyCreatedPage
<1>18. ASSUME NEW b \in Browser, NEW ids, revoke(b, ids)
       PROVE  SessionInv'
  BY <1>18 DEF revoke, Revoke
<1>19. ASSUME NEW b \in Browser, keyRevoke(b) \/ workerKeyRevoke(b)
       PROVE  SessionInv'
  BY <1>19, <1>18 DEF keyRevoke, workerKeyRevoke
<1>20. CASE UNCHANGED dashboardVars
  BY <1>20 DEF dashboardVars
<1> HIDE DashboardAssumption DEF DashboardTypeOK, SessionInv, IsAdmin, Request, Session, NoSession, Idle, Goto
<1>21. ASSUME NEW b \in Browser, Handler(b)
       PROVE  SessionInv'
  BY <1>21, <1>14, <1>15, <1>16, <1>17, <1>19
  DEF Handler, keysCreate, workerKeysCreate, workerKeyCreatedPage
<1> QED
  BY <1>1, <1>2, <1>3, <1>4, <1>5, <1>6, <1>7, <1>8, <1>9, <1>10, <1>11, <1>12, <1>13, <1>20, <1>21
  DEF DashboardNext

(* Every session is an admin key's.                                        *)
THEOREM SessionsBelongToAdmins == DashboardSpec => []SessionsAreAdmin
<1>1. DashboardInit => SessionInv
  BY DEF DashboardInit, SessionInv, Idle, NoSession
<1>2. SessionInv => SessionsAreAdmin
  BY DEF SessionInv, SessionsAreAdmin, IsAdmin
<1> QED BY <1>1, <1>2, SessionPreserved, DashboardTypeCorrect, PTL DEF DashboardSpec

-----------------------------------------------------------------------------
(* What TrailMatches rests on: an event is of a credential for which it is *)
(* true, and what makes it true lasts.                                     *)
Truthful(e) ==
  /\ e.event \in {"login_ok", "revoked", "created"} => e.cred \in Cred
  /\ e.event = "login_ok" => IsAdmin(e.cred)
  /\ e.event = "revoked" => status[e.cred] = "revoked"
  /\ e.event = "created" => status[e.cred] # "absent"
LoginOf(k) == [event |-> "login_ok", cred |-> k]
TrailInv ==
  /\ \A e \in events : Truthful(e)
  /\ faults = 0 => \A b \in Browser : cookie[b].key # NoCred => LoginOf(cookie[b].key) \in events

(* What a step does to the trail: what is true of a credential lasts, the  *)
(* events that are added are true, and a new session is added with its     *)
(* login unless that could not be written.                                 *)
Lasts ==
  \A k \in Cred : /\ IsAdmin(k) => IsAdmin(k)'
                  /\ status[k] # "absent" => status'[k] # "absent"
                  /\ status[k] = "revoked" => status'[k] = "revoked"
Grows == events \subseteq events' /\ \A e \in events' : e \in events \/ Truthful(e)'
Signs ==
  faults' = 0 => /\ faults = 0
                 /\ \A b \in Browser : cookie'[b].key \in {NoCred, cookie[b].key} \/ LoginOf(cookie'[b].key) \in events'
TrailStep == Lasts /\ Grows /\ Signs

(* Every step is of this kind.                                             *)
LEMMA TrailSteps ==
  ASSUME DashboardTypeOK, DashboardTypeOK', SessionInv, [DashboardNext]_dashboardVars
  PROVE  TrailStep
<1> USE DashboardAssumption DEF DashboardTypeOK, SessionInv, IsAdmin, TrailStep, Lasts, Grows, Signs, Truthful, LoginOf,
           Request, Session, NoSession, Idle, Goto, Fault
<1>1. ASSUME NEW k \in Cred, NEW wanted \in {"client", "admin"}, adminCreateKey(k, wanted)
      PROVE  TrailStep
  BY <1>1, SMTT(30) DEF adminCreateKey, Create
<1>2. ASSUME NEW k \in Cred, adminCreateEnrollment(k)
      PROVE  TrailStep
  BY <1>2 DEF adminCreateEnrollment, Create
<1>3. ASSUME NEW k \in Cred, adminRevokeKey(k)
      PROVE  TrailStep
  BY <1>3 DEF adminRevokeKey, Revoke
<1>4. CASE setAdminRole
  BY <1>4 DEF setAdminRole
<1>5. CASE commandFails
  BY <1>5, SMTT(30) DEF commandFails
<1>6. CASE Restart
  BY <1>6 DEF Restart
<1>7. CASE DashboardTick
  BY <1>7 DEF DashboardTick
<1>8. ASSUME NEW b \in Browser, NEW k \in Cred, Verify(b, k)
      PROVE  TrailStep
  BY <1>8 DEF Verify, LoginRole
<1>9. ASSUME NEW b \in Browser, NEW k \in Cred, loginRefused(b, k)
      PROVE  TrailStep
  BY <1>9, SMTT(30) DEF loginRefused, RecordAdminEvent
<1>10. ASSUME NEW b \in Browser, NEW k \in Cred \cup {NoCred}, NEW op \in {"create", "reveal", "revoke"}, requireSession(b, op, k)
       PROVE  TrailStep
  BY <1>10 DEF requireSession, SessionAlive
<1>11. ASSUME NEW b \in Browser, createFails(b)
       PROVE  TrailStep
  BY <1>11 DEF createFails
<1>12. ASSUME NEW b \in Browser, NEW k \in Cred, issueFails(b, k)
       PROVE  TrailStep
  BY <1>12 DEF issueFails, Create
<1>13. ASSUME NEW b \in Browser, logout(b)
       PROVE  TrailStep
  BY <1>13 DEF logout
<1>14. ASSUME NEW b \in Browser, loginSubmit(b)
       PROVE  TrailStep
  BY <1>14, SMTT(30) DEF loginSubmit, RecordAdminEvent
<1>15. ASSUME NEW b \in Browser, NEW k \in Cred, NEW r \in {"client", "worker"}, create(b, k, r)
       PROVE  TrailStep
  BY <1>15 DEF create, Create, RecordAdminEvent
<1>16. ASSUME NEW b \in Browser, put(b)
       PROVE  TrailStep
  BY <1>16, SMTT(30) DEF put
<1>17. ASSUME NEW b \in Browser, keyCreatedPage(b)
       PROVE  TrailStep
  BY <1>17, SMTT(30) DEF keyCreatedPage
<1>18. ASSUME NEW b \in Browser, NEW ids \in SUBSET Known({"client", "admin", "worker"}), revoke(b, ids)
       PROVE  TrailStep
  BY <1>18, SMTT(30) DEF revoke, Revoke, Known, RecordAdminEvent
<1>19. ASSUME NEW b \in Browser, keyRevoke(b) \/ workerKeyRevoke(b)
       PROVE  TrailStep
  BY <1>19, <1>18 DEF keyRevoke, workerKeyRevoke, Known
<1>20. CASE UNCHANGED dashboardVars
  BY <1>20 DEF dashboardVars
<1> HIDE DashboardAssumption DEF DashboardTypeOK, SessionInv, IsAdmin, TrailStep, Lasts, Grows, Signs, Truthful, LoginOf,
           Request, Session, NoSession, Idle, Goto, Fault
<1>21. ASSUME NEW b \in Browser, Handler(b)
       PROVE  TrailStep
  BY <1>21, <1>14, <1>15, <1>16, <1>17, <1>19
  DEF Handler, keysCreate, workerKeysCreate, workerKeyCreatedPage
<1> QED
  BY <1>1, <1>2, <1>3, <1>4, <1>5, <1>6, <1>7, <1>8, <1>9, <1>10, <1>11, <1>12, <1>13, <1>20, <1>21, SMTT(30)
  DEF DashboardNext

(* Such a step keeps the invariant.                                        *)
LEMMA TrailPreserved ==
  ASSUME DashboardTypeOK, TrailInv, TrailStep
  PROVE  TrailInv'
<1>1. \A e \in events : Truthful(e)'
  BY DEF TrailInv, TrailStep, Lasts, Truthful
<1>2. ASSUME faults' = 0, NEW b \in Browser, cookie'[b].key # NoCred
      PROVE  LoginOf(cookie'[b].key) \in events'
  BY <1>2 DEF TrailInv, TrailStep, Signs, Grows
<1> QED BY <1>1, <1>2 DEF TrailInv, TrailStep, Grows

(* The trail of admin events is sound and, while every write of an event   *)
(* went through, complete.                                                 *)
THEOREM TrailIsFaithful == DashboardSpec => []TrailMatches
<1>1. DashboardInit => TrailInv /\ SessionInv
  BY DEF DashboardInit, TrailInv, SessionInv, Idle, NoSession
<1>2. TrailInv => TrailMatches
  BY DEF TrailInv, TrailMatches, Truthful, IsAdmin, LoginOf
<1> QED BY <1>1, <1>2, SessionPreserved, TrailSteps, TrailPreserved, DashboardTypeCorrect, PTL DEF DashboardSpec

-----------------------------------------------------------------------------
(* A request gets through only in requireSession, for an active key.       *)
LEMMA RevokedKeptOut ==
  ASSUME DashboardTypeOK, [DashboardNext]_dashboardVars PROVE ~LetsRevokedThrough
<1> USE DashboardAssumption DEF DashboardTypeOK, LetsRevokedThrough, Request, Idle, Goto
<1>1. ASSUME NEW k \in Cred, NEW wanted \in {"client", "admin"}, adminCreateKey(k, wanted)
      PROVE  ~LetsRevokedThrough
  BY <1>1 DEF adminCreateKey
<1>2. ASSUME NEW k \in Cred, adminCreateEnrollment(k)
      PROVE  ~LetsRevokedThrough
  BY <1>2 DEF adminCreateEnrollment
<1>3. ASSUME NEW k \in Cred, adminRevokeKey(k)
      PROVE  ~LetsRevokedThrough
  BY <1>3 DEF adminRevokeKey
<1>4. CASE setAdminRole
  BY <1>4 DEF setAdminRole
<1>5. CASE commandFails
  BY <1>5 DEF commandFails
<1>6. CASE Restart
  BY <1>6 DEF Restart
<1>7. CASE DashboardTick
  BY <1>7 DEF DashboardTick
<1>8. ASSUME NEW b \in Browser, NEW k \in Cred, Verify(b, k)
      PROVE  ~LetsRevokedThrough
  BY <1>8 DEF Verify, LoginRole
<1>9. ASSUME NEW b \in Browser, NEW k \in Cred, loginRefused(b, k)
      PROVE  ~LetsRevokedThrough
  BY <1>9 DEF loginRefused
<1>10. ASSUME NEW b \in Browser, NEW k \in Cred \cup {NoCred}, NEW op \in {"create", "reveal", "revoke"}, requireSession(b, op, k)
       PROVE  ~LetsRevokedThrough
  BY <1>10 DEF requireSession, SessionAlive
<1>11. ASSUME NEW b \in Browser, createFails(b)
       PROVE  ~LetsRevokedThrough
  BY <1>11 DEF createFails
<1>12. ASSUME NEW b \in Browser, NEW k \in Cred, issueFails(b, k)
       PROVE  ~LetsRevokedThrough
  BY <1>12 DEF issueFails
<1>13. ASSUME NEW b \in Browser, logout(b)
       PROVE  ~LetsRevokedThrough
  BY <1>13 DEF logout
<1>14. ASSUME NEW b \in Browser, loginSubmit(b)
       PROVE  ~LetsRevokedThrough
  BY <1>14 DEF loginSubmit
<1>15. ASSUME NEW b \in Browser, NEW k \in Cred, NEW r \in {"client", "worker"}, create(b, k, r)
       PROVE  ~LetsRevokedThrough
  BY <1>15 DEF create
<1>16. ASSUME NEW b \in Browser, put(b)
       PROVE  ~LetsRevokedThrough
  BY <1>16 DEF put
<1>17. ASSUME NEW b \in Browser, keyCreatedPage(b)
       PROVE  ~LetsRevokedThrough
  BY <1>17 DEF keyCreatedPage
<1>18. ASSUME NEW b \in Browser, NEW ids, revoke(b, ids)
       PROVE  ~LetsRevokedThrough
  BY <1>18 DEF revoke
<1>19. ASSUME NEW b \in Browser, keyRevoke(b) \/ workerKeyRevoke(b)
       PROVE  ~LetsRevokedThrough
  BY <1>19, <1>18 DEF keyRevoke, workerKeyRevoke
<1>20. CASE UNCHANGED dashboardVars
  BY <1>20 DEF dashboardVars
<1> HIDE DashboardAssumption DEF DashboardTypeOK, LetsRevokedThrough, Request, Idle, Goto
<1>21. ASSUME NEW b \in Browser, Handler(b)
       PROVE  ~LetsRevokedThrough
  BY <1>21, <1>14, <1>15, <1>16, <1>17, <1>19
  DEF Handler, keysCreate, workerKeysCreate, workerKeyCreatedPage
<1> QED
  BY <1>1, <1>2, <1>3, <1>4, <1>5, <1>6, <1>7, <1>8, <1>9, <1>10, <1>11, <1>12, <1>13, <1>20, <1>21
  DEF DashboardNext

(* No request is let through for a key that is revoked.                    *)
THEOREM RevokedSessionsEnd == DashboardSpec => RevokedSessionsDie
<1>1. DashboardTypeOK /\ [DashboardNext]_dashboardVars =>
        [\A k \in Cred : status[k] = "revoked" /\ (\A b \in Browser : busy[b].by # k)
           => \A b \in Browser : busy'[b].by # k]_dashboardVars
  BY RevokedKeptOut DEF LetsRevokedThrough
<1> QED BY <1>1, DashboardTypeCorrect, PTL DEF DashboardSpec, RevokedSessionsDie

-----------------------------------------------------------------------------
Increasing(s) == \A i, j \in DOMAIN s : i < j => s[i] < s[j]
Below(s, t) == \A x \in Range(s), y \in Range(t) : x < y

(* Accounted for table r, batch b and channel c apart, with the entries d  *)
(* dropped, f failed and n recorded.                                       *)
Apart(r, b, c, d, f, n) ==
  /\ Increasing(r) /\ Increasing(b) /\ Increasing(c)
  /\ Below(r, b) /\ Below(r, c) /\ Below(b, c)
  /\ Range(r) \cup Range(b) \cup Range(c) \cup d \cup f = 1 .. n
  /\ (Range(r) \cup Range(b) \cup Range(c)) \cap (d \cup f) = {} /\ d \cap f = {}
AccountedApart == AuditTypeOK /\ Apart(rows, batch, ch, dropped, failed, recorded)

(* What CloseFlushes rests on besides: the writer leaves its loop only     *)
(* once Close was called, and stops with nothing in hand; what the channel *)
(* holds from then on was recorded after Close.                            *)
CloseInv ==
  /\ closing <= recorded + 1 /\ (writer # "running" => closing # 0)
  /\ writer = "stopped" => batch = << >> /\ \A e \in Range(ch) : e >= closing

-----------------------------------------------------------------------------
(* The elements of an empty, a concatenated, an extended and a shortened   *)
(* sequence.                                                               *)
LEMMA ElementsOf ==
  ASSUME NEW S, NEW s \in Seq(S), NEW t \in Seq(S)
  PROVE  /\ Range(<< >>) = {} /\ Range(s) \subseteq S
         /\ Range(s \o t) = Range(s) \cup Range(t)
         /\ \A x \in S : Range(Append(s, x)) = Range(s) \cup {x}
         /\ s # << >> => /\ Head(s) \in Range(s)
                         /\ Range(s) = {Head(s)} \cup Range(Tail(s))
<1>1. Range(<< >>) = {} /\ Range(s) \subseteq S
  BY DEF Range
<1>2. Range(s \o t) = Range(s) \cup Range(t)
  <2>1. Range(s \o t) \subseteq Range(s) \cup Range(t)
    BY DEF Range
  <2>2. Range(s) \subseteq Range(s \o t)
    BY DEF Range
  <2>3. ASSUME NEW i \in DOMAIN t PROVE t[i] \in Range(s \o t)
    <3>1. Len(s) + i \in DOMAIN (s \o t) /\ (s \o t)[Len(s) + i] = t[i]
      OBVIOUS
    <3> QED BY <3>1 DEF Range
  <2> QED BY <2>1, <2>2, <2>3, SMTT(30) DEF Range
<1>3. ASSUME NEW x \in S PROVE Range(Append(s, x)) = Range(s) \cup {x}
  <2>1. Append(s, x)[Len(s) + 1] = x /\ Len(s) + 1 \in DOMAIN Append(s, x)
    OBVIOUS
  <2>2. \A i \in DOMAIN s : i \in DOMAIN Append(s, x) /\ Append(s, x)[i] = s[i]
    OBVIOUS
  <2>3. \A i \in DOMAIN Append(s, x) : i = Len(s) + 1 \/ i \in DOMAIN s
    OBVIOUS
  <2> QED BY <2>1, <2>2, <2>3 DEF Range
<1>4. ASSUME s # << >>
      PROVE  Head(s) \in Range(s) /\ Range(s) = {Head(s)} \cup Range(Tail(s))
  <2>1. 1 \in DOMAIN s /\ Head(s) = s[1]
    BY <1>4
  <2>2. \A i \in DOMAIN Tail(s) : i + 1 \in DOMAIN s /\ Tail(s)[i] = s[i + 1]
    BY <1>4
  <2>3. \A i \in DOMAIN s : i = 1 \/ (i - 1 \in DOMAIN Tail(s) /\ s[i] = Tail(s)[i - 1])
    BY <1>4
  <2>4. {Head(s)} \cup Range(Tail(s)) \subseteq Range(s)
    BY <2>1, <2>2 DEF Range
  <2>5. Range(s) \subseteq {Head(s)} \cup Range(Tail(s))
    BY <2>1, <2>3, ZenonT(30) DEF Range
  <2> QED BY <2>4, <2>5
<1> QED BY <1>1, <1>2, <1>3, <1>4

(* When the same sequences are increasing.                                 *)
LEMMA IncreasingOf ==
  ASSUME NEW S, S \subseteq Nat, NEW s \in Seq(S), NEW t \in Seq(S)
  PROVE  /\ Increasing(<< >>)
         /\ Increasing(s \o t) <=> Increasing(s) /\ Increasing(t) /\ Below(s, t)
         /\ \A x \in S : Increasing(s) /\ (\A y \in Range(s) : y < x) => Increasing(Append(s, x))
         /\ s # << >> /\ Increasing(s) => /\ Increasing(Tail(s))
                                          /\ \A y \in Range(Tail(s)) : Head(s) < y
<1>1. Increasing(<< >>)
  BY DEF Increasing
<1>2. ASSUME Increasing(s \o t) PROVE Increasing(s) /\ Increasing(t) /\ Below(s, t)
  <2>1. \A i \in DOMAIN s : i \in DOMAIN (s \o t) /\ (s \o t)[i] = s[i]
    OBVIOUS
  <2>2. \A i \in DOMAIN t : Len(s) + i \in DOMAIN (s \o t) /\ (s \o t)[Len(s) + i] = t[i]
    OBVIOUS
  <2>3. Increasing(s)
    BY <1>2, <2>1 DEF Increasing
  <2>5. ASSUME NEW i \in DOMAIN t, NEW j \in DOMAIN t, i < j PROVE t[i] < t[j]
    <3>1. Len(s) + i < Len(s) + j
      BY <2>5
    <3> QED BY <1>2, <2>2, <3>1 DEF Increasing
  <2>4. ASSUME NEW i \in DOMAIN s, NEW j \in DOMAIN t PROVE s[i] < t[j]
    <3>1. i < Len(s) + j
      OBVIOUS
    <3> QED BY <1>2, <2>1, <2>2, <3>1 DEF Increasing
  <2> QED BY <2>3, <2>4, <2>5 DEF Below, Range, Increasing
<1>3. ASSUME Increasing(s), Increasing(t), Below(s, t) PROVE Increasing(s \o t)
  <2>1. ASSUME NEW i \in DOMAIN (s \o t), NEW j \in DOMAIN (s \o t), i < j
        PROVE  (s \o t)[i] < (s \o t)[j]
    <3>1. CASE j \in DOMAIN s
      BY <1>3, <2>1, <3>1 DEF Increasing
    <3>2. CASE i \notin DOMAIN s
      <4>1. i - Len(s) \in DOMAIN t /\ j - Len(s) \in DOMAIN t /\ i - Len(s) < j - Len(s)
        BY <2>1, <3>2
      <4>2. (s \o t)[i] = t[i - Len(s)] /\ (s \o t)[j] = t[j - Len(s)]
        BY <2>1, <3>2
      <4> QED BY <1>3, <4>1, <4>2 DEF Increasing
    <3>3. CASE i \in DOMAIN s /\ j \notin DOMAIN s
      <4>1. (s \o t)[i] = s[i] /\ j - Len(s) \in DOMAIN t /\ (s \o t)[j] = t[j - Len(s)]
        BY <3>3
      <4> QED BY <1>3, <3>3, <4>1 DEF Below, Range
    <3> QED BY <3>1, <3>2, <3>3
  <2> QED BY <2>1 DEF Increasing
<1>4. ASSUME NEW x \in S, Increasing(s), \A y \in Range(s) : y < x PROVE Increasing(Append(s, x))
  <2>1. \A i \in DOMAIN Append(s, x) : IF i \in DOMAIN s THEN Append(s, x)[i] = s[i]
                                      ELSE i = Len(s) + 1 /\ Append(s, x)[i] = x
    OBVIOUS
  <2>2. \A i \in DOMAIN s : s[i] < x
    BY <1>4 DEF Range
  <2> QED BY <1>4, <2>1, <2>2 DEF Increasing
<1>5. ASSUME s # << >>, Increasing(s)
      PROVE  Increasing(Tail(s)) /\ \A y \in Range(Tail(s)) : Head(s) < y
  <2>1. \A i \in DOMAIN Tail(s) : i + 1 \in DOMAIN s /\ Tail(s)[i] = s[i + 1]
    BY <1>5
  <2>2. 1 \in DOMAIN s /\ Head(s) = s[1] /\ \A i \in DOMAIN Tail(s) : 1 < i + 1
    BY <1>5
  <2> QED BY <1>5, <2>1, <2>2 DEF Increasing, Range
<1> QED BY <1>1, <1>2, <1>3, <1>4, <1>5

(* An entry is recorded: it goes to the end of the channel or is dropped.  *)
LEMMA RecordApart ==
  ASSUME NEW r \in Seq(Entry), NEW b \in Seq(Entry), NEW c \in Seq(Entry), NEW d, NEW f,
         NEW n \in Nat, n + 1 \in Entry, Apart(r, b, c, d, f, n)
  PROVE  /\ Apart(r, b, Append(c, n + 1), d, f, n + 1)
         /\ Apart(r, b, c, d \cup {n + 1}, f, n + 1)
<1> DEFINE x == n + 1
<1>1. 1 .. x = 1 .. n \cup {x} /\ x \notin 1 .. n /\ Entry \subseteq Nat /\ x \in Entry
  BY AuditAssumption DEF Entry
<1>2. \A y \in 1 .. n : y < x
  OBVIOUS
<1> HIDE DEF x
<1>3. Range(Append(c, x)) = Range(c) \cup {x}
  BY <1>1, ElementsOf
<1>4. \A y \in Range(r) \cup Range(b) \cup Range(c) : y < x
  BY <1>2 DEF Apart
<1>5. Increasing(Append(c, x))
  BY <1>1, <1>4, IncreasingOf, ZenonT(30) DEF Apart
<1>6. Below(r, Append(c, x)) /\ Below(b, Append(c, x))
  BY <1>3, <1>4 DEF Apart, Below
<1>7. x \notin d \cup f \cup Range(r) \cup Range(b) \cup Range(c)
  BY <1>1 DEF Apart
<1>8. Apart(r, b, Append(c, x), d, f, x)
  BY <1>1, <1>3, <1>5, <1>6, <1>7 DEF Apart
<1>9. Apart(r, b, c, d \cup {x}, f, x)
  BY <1>1, <1>7 DEF Apart
<1> QED BY <1>8, <1>9 DEF x

(* The writer moves an entry from the channel to its batch.                *)
LEMMA TakeApart ==
  ASSUME NEW r \in Seq(Entry), NEW b \in Seq(Entry), NEW c \in Seq(Entry), NEW d, NEW f, NEW n,
         c # << >>, Apart(r, b, c, d, f, n)
  PROVE  Apart(r, Append(b, Head(c)), Tail(c), d, f, n)
<1> DEFINE x == Head(c)
<1>1. x \in Entry /\ Entry \subseteq Nat
  BY AuditAssumption DEF Entry
<1>2. x \in Range(c) /\ Range(c) = {x} \cup Range(Tail(c))
  BY ElementsOf
<1>3. Increasing(Tail(c)) /\ \A y \in Range(Tail(c)) : x < y
  BY <1>1, IncreasingOf, ZenonT(30) DEF Apart
<1> HIDE DEF x
<1>4. Range(Append(b, x)) = Range(b) \cup {x}
  BY <1>1, ElementsOf
<1>5. Increasing(Append(b, x))
  BY <1>1, <1>2, IncreasingOf, ZenonT(30) DEF Apart, Below
<1>6. Below(r, Append(b, x)) /\ Below(r, Tail(c)) /\ Below(Append(b, x), Tail(c))
  BY <1>2, <1>3, <1>4 DEF Apart, Below
<1>7. Apart(r, Append(b, x), Tail(c), d, f, n)
  BY <1>2, <1>3, <1>4, <1>5, <1>6 DEF Apart
<1> QED BY <1>7 DEF x

(* The writer inserts its batch, or the batch fails.                       *)
LEMMA FlushApart ==
  ASSUME NEW r \in Seq(Entry), NEW b \in Seq(Entry), NEW c \in Seq(Entry), NEW d, NEW f, NEW n,
         Apart(r, b, c, d, f, n)
  PROVE  /\ Apart(r \o b, << >>, c, d, f, n)
         /\ Apart(r, << >>, c, d, f \cup Range(b), n)
<1>1. Entry \subseteq Nat
  BY AuditAssumption DEF Entry
<1>2. Range(<< >>) = {} /\ Range(r \o b) = Range(r) \cup Range(b)
  BY ElementsOf
<1>3. Increasing(<< >>) /\ Increasing(r \o b)
  BY <1>1, IncreasingOf, ZenonT(30) DEF Apart
<1>4. Below(r \o b, << >>) /\ Below(r \o b, c) /\ Below(<< >>, c) /\ Below(r, << >>)
  BY <1>2 DEF Apart, Below
<1>5. \A x \in Range(b) : x \in Nat /\ x \notin Range(r) \cup Range(c)
  <2>1. Range(b) \subseteq Nat
    BY <1>1, ElementsOf, ZenonT(30)
  <2>2. \A x \in Nat : ~(x < x)
    OBVIOUS
  <2> QED BY <2>1, <2>2 DEF Apart, Below
<1>6. Apart(r \o b, << >>, c, d, f, n)
  BY <1>2, <1>3, <1>4 DEF Apart
<1>7. Apart(r, << >>, c, d, f \cup Range(b), n)
  <2>1. Range(b) \cap d = {}
    BY DEF Apart
  <2> QED BY <1>2, <1>3, <1>4, <1>5, <2>1 DEF Apart
<1> QED BY <1>6, <1>7

(* The two ways of stating it agree.                                       *)
LEMMA ApartIsAccounted == AuditTypeOK => (AccountedApart <=> Accounted)
<1> SUFFICES ASSUME AuditTypeOK PROVE AccountedApart <=> Accounted
  OBVIOUS
<1>1. Entry \subseteq Nat
  BY AuditAssumption DEF Entry
<1>2. /\ rows \in Seq(Entry) /\ batch \in Seq(Entry) /\ ch \in Seq(Entry)
      /\ rows \o batch \in Seq(Entry)
  BY DEF AuditTypeOK
<1>3. Range(rows \o batch \o ch) = Range(rows \o batch) \cup Range(ch)
  <2> DEFINE q == rows \o batch
  <2>1. q \in Seq(Entry)
    BY <1>2
  <2> HIDE DEF q
  <2>2. Range(q \o ch) = Range(q) \cup Range(ch)
    BY <1>2, <2>1, ElementsOf
  <2> QED BY <2>2 DEF q
<1>7. Range(rows \o batch) = Range(rows) \cup Range(batch)
  BY <1>2, ElementsOf
<1>4. /\ Increasing(rows \o batch \o ch) <=>
           Increasing(rows \o batch) /\ Increasing(ch) /\ Below(rows \o batch, ch)
      /\ Increasing(rows \o batch) <=> Increasing(rows) /\ Increasing(batch) /\ Below(rows, batch)
  BY <1>1, <1>2, IncreasingOf, ZenonT(30)
<1>5. Below(rows \o batch, ch) <=> Below(rows, ch) /\ Below(batch, ch)
  BY <1>7 DEF Below
<1> DEFINE p == rows \o batch \o ch
<1>6. Accounted <=> /\ AuditTypeOK /\ Increasing(p)
                    /\ Range(p) \cup dropped \cup failed = 1 .. recorded
                    /\ Range(p) \cap (dropped \cup failed) = {} /\ dropped \cap failed = {}
  BY DEF Accounted, Increasing
<1> HIDE DEF p
<1>8. Range(p) = Range(rows) \cup Range(batch) \cup Range(ch)
  BY <1>3, <1>7 DEF p
<1>9. Increasing(p) <=> /\ Increasing(rows) /\ Increasing(batch) /\ Increasing(ch)
                        /\ Below(rows, batch) /\ Below(rows, ch) /\ Below(batch, ch)
  BY <1>4, <1>5 DEF p
<1> QED BY <1>6, <1>8, <1>9 DEF AccountedApart, Apart

-----------------------------------------------------------------------------
(* A flush of batch b, of what the writer holds.                         *)
LEMMA FlushKeeps ==
  ASSUME AuditTypeOK, NEW b \in Seq(Entry), ch' \in Seq(Entry), Len(ch') <= Buffer,
         Apart(rows, b, ch', dropped, failed, recorded), insertBatch(b), batch' = << >>,
         UNCHANGED <<recorded, unfit, dropped, closing>>, writer' \in {writer, "stopped"}
  PROVE  AccountedApart'
<1> USE AuditAssumption
<1>1. \/ rows' = rows \o b /\ failed' = failed
      \/ rows' = rows /\ failed' = failed \cup Range(b)
  BY DEF insertBatch
<1>2. Range(b) \subseteq Entry /\ rows \in Seq(Entry)
  BY ElementsOf DEF AuditTypeOK
<1>3. rows' \in Seq(Entry) /\ failed' \subseteq Entry
  <2>1. rows \o b \in Seq(Entry)
    BY <1>2
  <2> QED BY <1>1, <1>2, <2>1, ZenonT(30) DEF AuditTypeOK
<1>4. batch' \in Seq(Entry) /\ (writer' = "running" => Len(batch') < BatchSize)
  BY DEF AuditTypeOK
<1>5. AuditTypeOK'
  BY <1>3, <1>4 DEF AuditTypeOK
<1>6. Apart(rows', << >>, ch', dropped, failed', recorded)
  <2>1. /\ Apart(rows \o b, << >>, ch', dropped, failed, recorded)
        /\ Apart(rows, << >>, ch', dropped, failed \cup Range(b), recorded)
    BY <1>2, FlushApart
  <2> QED BY <1>1, <2>1, ZenonT(30)
<1> QED BY <1>5, <1>6 DEF AccountedApart

(* Every step of Record, of the writer and of Close keeps it.              *)
LEMMA AccountedStep == AccountedApart /\ [AuditNext]_auditVars => AccountedApart'
<1> SUFFICES ASSUME AccountedApart, [AuditNext]_auditVars PROVE AccountedApart'
  OBVIOUS
<1> USE AuditAssumption DEF AccountedApart
<1>1. CASE Record
  <2>1. recorded \in Nat /\ recorded + 1 \in Entry
    BY <1>1 DEF Record, AuditTypeOK, Entry
  <2>2. CASE Len(ch) < Buffer
    <3> DEFINE x == recorded + 1
    <3> HIDE DEF x
    <3>3. ch \in Seq(Entry) /\ x \in Entry /\ ch' = Append(ch, x)
      BY <1>1, <2>1, <2>2 DEF Record, AuditTypeOK, x
    <3>1. ch' \in Seq(Entry) /\ Len(ch') <= Buffer
      BY <2>2, <3>3
    <3>4. /\ recorded' = recorded + 1 /\ recorded' \in 0 .. MaxEntries
          /\ UNCHANGED <<unfit, batch, rows, dropped, failed, writer, closing>>
      BY <1>1, <2>1, <2>2 DEF Record, AuditTypeOK
    <3>2. AuditTypeOK'
      BY <3>1, <3>4 DEF AuditTypeOK
    <3>5. Apart(rows, batch, Append(ch, recorded + 1), dropped, failed, recorded + 1)
      BY <2>1, RecordApart, ZenonT(30) DEF AuditTypeOK
    <3> QED BY <3>2, <3>3, <3>4, <3>5 DEF x
  <2>3. CASE ~(Len(ch) < Buffer)
    <3>1. AuditTypeOK'
      BY <1>1, <2>1, <2>3 DEF Record, AuditTypeOK
    <3> QED BY <1>1, <2>1, <2>3, <3>1, RecordApart DEF Record, AuditTypeOK
  <2> QED BY <2>2, <2>3
<1>2. CASE Take
  <2> DEFINE b == Append(batch, Head(ch))
  <2>1. /\ ch' = Tail(ch) /\ ch # << >> /\ UNCHANGED <<recorded, unfit, dropped, writer, closing>>
        /\ writer = "running"
        /\ \/ FlushDue(b) /\ insertBatch(b) /\ batch' = << >>
           \/ ~FlushDue(b) /\ batch' = b /\ UNCHANGED <<rows, failed>>
    BY <1>2 DEF Take, flush, Emptied
  <2>2. b \in Seq(Entry) /\ Tail(ch) \in Seq(Entry) /\ Len(Tail(ch)) <= Buffer
    BY <2>1 DEF AuditTypeOK
  <2>3. Apart(rows, b, ch', dropped, failed, recorded)
    BY <2>1, TakeApart DEF AuditTypeOK
  <2> HIDE DEF b
  <2>4. CASE FlushDue(b) /\ insertBatch(b) /\ batch' = << >>
    BY <2>1, <2>2, <2>3, <2>4, FlushKeeps
  <2>5. CASE ~FlushDue(b) /\ batch' = b /\ UNCHANGED <<rows, failed>>
    <3>1. AuditTypeOK'
      BY <2>1, <2>2, <2>5 DEF AuditTypeOK, FlushDue
    <3> QED BY <2>1, <2>3, <2>5, <3>1
  <2> QED BY <2>1, <2>4, <2>5
<1>3. ASSUME insertBatch(batch), batch' = << >>, UNCHANGED <<recorded, unfit, ch, dropped, closing>>,
             writer' \in {writer, "stopped"}
      PROVE  AccountedApart'
  BY <1>3, FlushKeeps DEF AuditTypeOK
<1>4. CASE TickerFires
  BY <1>3, <1>4 DEF TickerFires, Flushed, flush, Emptied
<1>5. CASE Close
  BY <1>5 DEF Close, AuditTypeOK
<1>6. CASE Done
  BY <1>6 DEF Done, AuditTypeOK
<1>7. CASE Drain
  <2>1. AuditTypeOK'
    BY <1>7 DEF Drain, AuditTypeOK
  <2> QED BY <1>7, <2>1, TakeApart DEF Drain, AuditTypeOK
<1>8. CASE Stop
  BY <1>3, <1>8 DEF Stop, flush, Emptied
<1>9. CASE UNCHANGED auditVars
  BY <1>9 DEF auditVars, AuditTypeOK
<1> QED BY <1>1, <1>2, <1>4, <1>5, <1>6, <1>7, <1>8, <1>9 DEF AuditNext

(* A new repository has nothing to account for.                            *)
LEMMA AccountedInit == NewRepo => AccountedApart
<1> SUFFICES ASSUME NewRepo PROVE AccountedApart
  OBVIOUS
<1>1. AuditTypeOK
  BY AuditAssumption DEF NewRepo, AuditTypeOK, Entry
<1>2. Range(<< >>) = {} /\ Increasing(<< >>) /\ Below(<< >>, << >>) /\ 1 .. 0 = {}
  BY DEF Range, Increasing, Below
<1> QED BY <1>1, <1>2 DEF NewRepo, AccountedApart, Apart

(* Every entry of Record is in exactly one place, in the order of          *)
(* recording (repo.go:53-104, 147-163).                                    *)
THEOREM EntriesAreAccounted == AuditSafetySpec => []Accounted
<1>2. AccountedApart => Accounted
  BY ApartIsAccounted DEF AccountedApart
<1> QED BY <1>2, AccountedInit, AccountedStep, PTL DEF AuditSafetySpec

-----------------------------------------------------------------------------
(* The steps keep what Close relies on.                                    *)
LEMMA CloseStep == AccountedApart /\ CloseInv /\ [AuditNext]_auditVars => CloseInv'
<1> SUFFICES ASSUME AccountedApart, CloseInv, [AuditNext]_auditVars PROVE CloseInv'
  OBVIOUS
<1> USE AuditAssumption DEF CloseInv
<1>0. recorded \in Nat /\ closing \in Nat /\ ch \in Seq(Entry) /\ Range(<< >>) = {}
  BY DEF AccountedApart, AuditTypeOK, Range
<1>1. CASE Record
  <2>1. recorded + 1 \in Entry
    BY <1>0, <1>1 DEF Record, Entry
  <2>2. Range(ch') \subseteq Range(ch) \cup {recorded + 1}
    <3>1. Range(Append(ch, recorded + 1)) = Range(ch) \cup {recorded + 1}
      BY <1>0, <2>1, ElementsOf
    <3> QED BY <1>1, <3>1, ZenonT(30) DEF Record
  <2> QED BY <1>0, <1>1, <2>2 DEF Record
<1>2. CASE Take
  BY <1>0, <1>2 DEF Take
<1>3. CASE TickerFires
  BY <1>0, <1>3 DEF TickerFires
<1>4. CASE Close
  BY <1>0, <1>4 DEF Close
<1>5. CASE Done
  BY <1>0, <1>5 DEF Done
<1>6. CASE Drain
  BY <1>0, <1>6 DEF Drain
<1>7. CASE Stop
  BY <1>0, <1>7 DEF Stop, Drained, flush, Emptied
<1>8. CASE UNCHANGED auditVars
  BY <1>0, <1>8 DEF auditVars
<1> QED BY <1>1, <1>2, <1>3, <1>4, <1>5, <1>6, <1>7, <1>8 DEF AuditNext

(* Once the writer has stopped, what was recorded before Close is in the   *)
(* table, dropped or failed (repo.go:82-94, 140-145).                      *)
THEOREM CloseIsReliable == AuditSafetySpec => []CloseFlushes
<1>2. NewRepo => CloseInv
  BY DEF NewRepo, CloseInv
<1>3. AccountedApart /\ CloseInv => CloseFlushes
  <2> SUFFICES ASSUME AccountedApart, CloseInv, writer = "stopped", NEW e \in 1 .. (closing - 1)
               PROVE  e \in Range(rows) \cup dropped \cup failed
    BY DEF CloseFlushes
  <2>1. recorded \in Nat /\ closing \in Nat /\ closing <= recorded + 1
    BY DEF AccountedApart, AuditTypeOK, CloseInv
  <2>2. e \in 1 .. recorded /\ ~(e >= closing)
    BY <2>1
  <2>3. e \notin Range(ch) /\ Range(batch) = {}
    BY <2>2 DEF CloseInv, Range
  <2> QED BY <2>2, <2>3 DEF AccountedApart, Apart
<1> QED BY <1>2, <1>3, AccountedInit, AccountedStep, CloseStep, PTL DEF AuditSafetySpec

-----------------------------------------------------------------------------
(* The two properties hold together or not at all: catalogChanged decides  *)
(* by what the entry believes.  Between the commit and its note the table  *)
(* is ahead of that belief; it then holds the catalog of the heartbeat,    *)
(* and from the row on the foreign key of the catalog is there.  A node    *)
(* without an entry has no rows but those an entry left behind.            *)
Orphans == \A n \in Node \ DOMAIN byID : n \in leftover \/ catalogs[n] = {}
StoreInv ==
  /\ SyncedCatalogTruthful /\ CatalogInSync
  /\ step \in {"sync", "synced"} => node \in DOMAIN nodes
  /\ step = "synced" => catalogs[node] = Range(byID[node].catalog)
  /\ Orphans

(* A catalog that is listed is a set of names the table may hold.          *)
LEMMA Names == \A c \in Catalog : Range(c) \in SUBSET UNION {Range(d) : d \in Catalog}
OBVIOUS

LEMMA NoNames == Range(<< >>) = {}
BY DEF Range

(* upsert under the mutex writes nothing to the tables.                    *)
LEMMA UpsertOK ==
  ASSUME StoreInv, NEW n \in Node, Heartbeat(n)
  PROVE  StoreInv'
<1> USE DEF StoreInv, Orphans, SyncedCatalogTruthful, CatalogInSync, StoreTypeOK, StoreEntry
<1>1. PICK token \in Token, retired \in {{}} \cup {{m} : m \in DOMAIN byID \ {n}} : upsert(n, token, retired)
  BY DEF Heartbeat
<1>2. InheritedSync(n) \in Catalog /\ engine[n] \in Catalog
  BY StoreAssumption DEF InheritedSync
<1>3. DOMAIN byID' = (DOMAIN byID \ retired) \cup {n}
  BY <1>1 DEF upsert, Put, Restrict
<1>4. /\ byID'[n] = [tokenID |-> token, catalog |-> engine[n], syncedCatalog |-> InheritedSync(n)]
      /\ \A m \in DOMAIN byID \ retired : m # n => byID'[m] = byID[m]
  BY <1>1 DEF upsert, Put, Restrict
<1>5. byID' \in [DOMAIN byID' -> StoreEntry]
  BY <1>1, <1>2, <1>3, <1>4, ZenonT(30) DEF upsert, Put
<1>6. StoreTypeOK'
  BY <1>1, <1>3, <1>5, ZenonT(30) DEF upsert
<1>7. SyncedCatalogTruthful'
  <2> SUFFICES ASSUME NEW m \in DOMAIN byID'
               PROVE  \/ m \in leftover' /\ byID'[m].syncedCatalog = << >>
                      \/ step' = "synced" /\ node' = m
                      \/ catalogs'[m] = Range(byID'[m].syncedCatalog)
    BY <1>6
  <2>1. step = "idle" /\ catalogs' = catalogs /\ leftover \subseteq leftover'
    BY <1>1 DEF upsert
  <2>2. CASE m = n
    <3>1. byID'[n].syncedCatalog = InheritedSync(n)
      BY <1>4
    <3>2. CASE n \in DOMAIN byID
      BY <2>1, <2>2, <3>1, <3>2 DEF InheritedSync
    <3>3. CASE n \notin DOMAIN byID
      BY <2>1, <2>2, <3>1, <3>3, NoNames DEF InheritedSync
    <3> QED BY <3>2, <3>3
  <2>3. CASE m # n
    BY <1>3, <1>4, <2>1, <2>3
  <2> QED BY <2>2, <2>3
<1>8. CatalogInSync'
  BY <1>1, <1>3, <1>4, ZenonT(30) DEF upsert
<1>9. Orphans'
  <2> SUFFICES ASSUME NEW m \in Node, m \notin DOMAIN byID' PROVE m \in leftover' \/ catalogs[m] = {}
    BY <1>1 DEF upsert
  <2>1. leftover' = leftover \cup (retired \cap Rows)
    BY <1>1 DEF upsert
  <2>2. m \notin DOMAIN byID \/ m \in retired
    BY <1>3, ZenonT(30)
  <2> QED BY <2>1, <2>2 DEF Rows
<1> QED BY <1>1, <1>7, <1>8, <1>9, ZenonT(30) DEF upsert

(* The row of the node: what follows depends on what the entry believes.   *)
LEMMA PersistOK ==
  ASSUME StoreInv, persist \/ persistFails
  PROVE  StoreInv'
<1> USE DEF StoreInv, Orphans, SyncedCatalogTruthful, CatalogInSync, StoreTypeOK, StoreEntry
<1>1. CASE persist
  <2>1. DOMAIN nodes' = DOMAIN nodes \cup {node} /\ nodes' \in [DOMAIN nodes' -> Token]
    BY <1>1 DEF persist, Put
  <2>2. StoreTypeOK'
    BY <1>1, <2>1 DEF persist
  <2>3. SyncedCatalogTruthful'
    BY <1>1, <2>2 DEF persist
  <2>4. CatalogInSync'
    BY <1>1 DEF persist, catalogChanged
  <2> QED BY <1>1, <2>1, <2>3, <2>4 DEF persist
<1>2. CASE persistFails
  <2>1. failures' \in 0 .. MaxFailures
    BY <1>2, StoreAssumption DEF persistFails, Failure
  <2> QED BY <1>2, <2>1, ZenonT(30) DEF persistFails, AfterFailedRow
<1> HIDE DEF StoreInv, Orphans, SyncedCatalogTruthful, CatalogInSync, StoreTypeOK, StoreEntry
<1> QED BY <1>1, <1>2, ZenonT(30)

(* The transaction on the catalog, and the note of its success.            *)
LEMMA SyncOK ==
  ASSUME StoreInv, commitCatalog \/ rollback \/ noteSynced
  PROVE  StoreInv'
<1> USE StoreAssumption, Names
        DEF StoreInv, Orphans, SyncedCatalogTruthful, CatalogInSync, StoreTypeOK, StoreEntry
<1>1. CASE commitCatalog
  <2>1. byID[node].catalog \in Catalog /\ node \in DOMAIN byID
    BY <1>1 DEF commitCatalog
  <2>2. StoreTypeOK'
    BY <1>1, <2>1 DEF commitCatalog
  <2>3. SyncedCatalogTruthful'
    BY <1>1, <2>2 DEF commitCatalog
  <2>4. CatalogInSync'
    BY <1>1 DEF commitCatalog
  <2> QED BY <1>1, <2>3, <2>4 DEF commitCatalog
<1>2. CASE rollback
  <2>1. byID' = byID
    BY <1>2 DEF rollback, SyncedAfterRollback
  <2>2. failures' \in 0 .. MaxFailures
    BY <1>2 DEF rollback, Failure
  <2> QED BY <1>2, <2>1, <2>2, ZenonT(30) DEF rollback
<1>3. CASE noteSynced
  <2>1. /\ node \in DOMAIN byID /\ byID[node].catalog \in Catalog
        /\ DOMAIN byID' = DOMAIN byID /\ byID' \in [DOMAIN byID' -> StoreEntry]
        /\ byID'[node].syncedCatalog = byID[node].catalog /\ byID'[node].catalog = byID[node].catalog
        /\ \A m \in DOMAIN byID : m # node => byID'[m] = byID[m]
    BY <1>3, ZenonT(30) DEF noteSynced
  <2>2. StoreTypeOK'
    BY <1>3, <2>1 DEF noteSynced
  <2>3. SyncedCatalogTruthful'
    BY <1>3, <2>1, <2>2, ZenonT(30) DEF noteSynced
  <2>4. CatalogInSync'
    BY <1>3, <2>1 DEF noteSynced
  <2> QED BY <1>3, <2>3, <2>4 DEF noteSynced
<1> HIDE StoreAssumption, Names
         DEF StoreInv, Orphans, SyncedCatalogTruthful, CatalogInSync, StoreTypeOK, StoreEntry
<1> QED BY <1>1, <1>2, <1>3, ZenonT(30)

(* StoreInv is inductive.                                                  *)
LEMMA StoreStep == StoreInv /\ [StoreNext]_storeVars => StoreInv'
<1> SUFFICES ASSUME StoreInv, [StoreNext]_storeVars PROVE StoreInv'
  OBVIOUS
<1>1. CASE RouterRestart
  BY <1>1, StoreAssumption
  DEF RouterRestart, Rows, Failure, StoreInv, Orphans, SyncedCatalogTruthful, CatalogInSync, StoreTypeOK
<1>2. ASSUME NEW n \in Node, EngineChanges(n) PROVE StoreInv'
  BY <1>2, StoreAssumption
  DEF EngineChanges, StoreInv, Orphans, SyncedCatalogTruthful, CatalogInSync, StoreTypeOK
<1>3. CASE UNCHANGED storeVars
  BY <1>3 DEF storeVars, StoreInv, Orphans, SyncedCatalogTruthful, CatalogInSync, StoreTypeOK
<1> QED BY <1>1, <1>2, <1>3, UpsertOK, PersistOK, SyncOK DEF StoreNext

(* At the start there are no entries and no rows.                          *)
LEMMA StoreInitially == StoreInit => StoreInv
<1> SUFFICES ASSUME StoreInit PROVE StoreInv
  OBVIOUS
<1>1. DOMAIN byID = {} /\ step = "idle" /\ \A n \in Node : catalogs[n] = {}
  BY DEF StoreInit
<1>2. StoreTypeOK
  BY StoreAssumption DEF StoreInit, StoreTypeOK
<1> QED BY <1>1, <1>2 DEF StoreInv, Orphans, SyncedCatalogTruthful, CatalogInSync

(* What an entry believes to be in the catalog table is there (syncCatalog *)
(* notes a catalog only after its commit, nodes.go:202-228).               *)
THEOREM SyncedCatalogIsTruthful == StoreSafetySpec => []SyncedCatalogTruthful
<1>1. StoreInv => SyncedCatalogTruthful
  BY DEF StoreInv
<1> QED BY <1>1, StoreInitially, StoreStep, PTL DEF StoreSafetySpec

(* A heartbeat persisted without a failure leaves the table holding the    *)
(* catalog it reported, but for the empty one (persist, nodes.go:164-186). *)
THEOREM CatalogIsInSync == StoreSafetySpec => []CatalogInSync
<1>1. StoreInv => CatalogInSync
  BY DEF StoreInv
<1> QED BY <1>1, StoreInitially, StoreStep, PTL DEF StoreSafetySpec

=============================================================================
