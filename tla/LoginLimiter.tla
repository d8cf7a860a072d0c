---------------------------- MODULE LoginLimiter ----------------------------
(***************************************************************************)
(* The throttle on dashboard logins, internal/admin/limiter.go, with the   *)
(* part of loginSubmit it guards (internal/admin/server.go): an argon2id   *)
(* verification of the submitted key, which is what it has to bound.       *)
(*                                                                         *)
(* Allow runs under l.mu, so an attempt is one action.  A bucket's resetAt *)
(* is l.window after it was opened, so it is kept as the bucket's age.     *)
(***************************************************************************)
EXTENDS Integers

CONSTANTS
  IP,             \* client addresses
  Limit,          \* loginLimit
  Window          \* loginWindow

ASSUME LimiterAssumption == Limit \in Nat \ {0} /\ Window \in Nat \ {0}

VARIABLES
  hits,           \* ip -> its bucket; count stops at Limit + 1, age at Window + 1
  verified        \* ip -> how many keys were verified for it at each age

limiterVars == <<hits, verified>>

AtMost(top, n) == IF n > top THEN top ELSE n

Bucket == [count : 1 .. Limit + 1, age : 0 .. Window + 1]

LimiterTypeOK ==
  /\ DOMAIN hits \subseteq IP /\ hits \in [DOMAIN hits -> Bucket]
  /\ verified \in [IP -> [0 .. Window -> 0 .. Limit]]

newLoginLimiter ==
  /\ hits = [ip \in {} |-> 0]
  /\ verified = [ip \in IP |-> [age \in 0 .. Window |-> 0]]

-----------------------------------------------------------------------------
(* The bucket an attempt counts in: a new one once the old one's resetAt   *)
(* has passed.                                                             *)
Expired_AtOnce(ip) == ip \notin DOMAIN hits \/ hits[ip].age > 0
Expired(ip) == ip \notin DOMAIN hits \/ hits[ip].age > Window

(* A refused attempt counts too, and leaves resetAt alone.                 *)
Counted_Extends(ip) ==
  IF Expired(ip) THEN [count |-> 1, age |-> 0]
  ELSE [count |-> AtMost(Limit + 1, hits[ip].count + 1), age |-> 0]
Counted(ip) ==
  IF Expired(ip) THEN [count |-> 1, age |-> 0]
  ELSE [hits[ip] EXCEPT !.count = AtMost(Limit + 1, @ + 1)]

Admitted(bucket) == bucket.count <= Limit

(* loginSubmit up to the verification.                                     *)
Allow(ip) ==
  /\ hits' = [x \in DOMAIN hits \cup {ip} |-> IF x = ip THEN Counted(ip) ELSE hits[x]]
  /\ verified' = IF Admitted(Counted(ip)) THEN [verified EXCEPT ![ip][0] = @ + 1] ELSE verified

LimiterTick ==
  /\ hits' = [ip \in DOMAIN hits |-> [hits[ip] EXCEPT !.age = AtMost(Window + 1, @ + 1)]]
  /\ verified' = [ip \in IP |-> [age \in 0 .. Window |-> IF age = 0 THEN 0 ELSE verified[ip][age - 1]]]

LimiterNext == (\E ip \in IP : Allow(ip)) \/ LimiterTick

LimiterSafetySpec == newLoginLimiter /\ [][LimiterNext]_limiterVars

(* Time passes, and clients keep trying.                                   *)
LimiterSpec ==
  LimiterSafetySpec /\ WF_limiterVars(LimiterTick) /\ \A ip \in IP : WF_limiterVars(Allow(ip))

-----------------------------------------------------------------------------
(* How many of the keys in such a history were verified within the last n  *)
(* units of time.                                                          *)
Burnt(history) ==
  LET within[n \in 0 .. Window] == IF n = 0 THEN history[0] ELSE within[n - 1] + history[n]
  IN  within

(* However attempts are spread over the fixed windows, no span of the      *)
(* window's length sees more than twice the limit verified for one address *)
(* (limiter.go:8-10, 31-45).  The types hold too.                          *)
BurnBounded == LimiterTypeOK /\ \A ip \in IP : Burnt(verified[ip])[Window] <= 2 * Limit

(* "a burst of attempts does not reset the clock" (limiter.go:33): someone *)
(* who keeps hammering is not locked out for ever.                         *)
BurstEnds == \A ip \in IP : []<>(verified[ip][0] > 0)
=============================================================================
