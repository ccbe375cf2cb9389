---------------------------- MODULE TenantSignup ----------------------------
(***************************************************************************)
(* Self-service signup of a tenant, POST /tenants: the sliding windows of  *)
(* the limiter (internal/middleware/rate_limit.go), the risk scorer        *)
(* (internal/service/risk.go) and the handler that creates the tenant      *)
(* (internal/api/tenant_handler.go).  What becomes of a tenant is in       *)
(* module TenantAuth.                                                      *)
(*                                                                         *)
(*   requests  requests[k]: the times the limiter keeps for key k          *)
(*   velocity  velocity[ip]: the times of tenantVelocity, each with        *)
(*             history, the tick at which the limiter let that signup pass *)
(*   now       the clock                                                   *)
(*   signup    signup[r]: the signup slot r is serving, with the time the  *)
(*             limiter let it pass and the outcome of its assessment       *)
(*   passed    history: passed[k]: all the times at which k was allowed    *)
(*   refused   history: the key that the last step refused                 *)
(*                                                                         *)
(* A tick is the unit of the clock, a nanosecond: no two readings differ   *)
(* by less, several may be equal, and each step that reads the clock reads *)
(* it anew.  The lists of times are only ever filtered and counted, so     *)
(* they are sets here, of ticks with the place at which each was appended. *)
(*                                                                         *)
(* The limiter and the scorer live in the memory of a process; this is     *)
(* one process and its restarts.  No code fills ipReputationCache, so two  *)
(* signals are left, and a signup is put under review only with both.      *)
(***************************************************************************)
EXTENDS Integers, FiniteSets

CONSTANTS
  IPs, Signups,
  Limit,     \* TenantSignupRateLimit, 5
  Velocity,  \* the threshold in AssessSignup, 5
  Window,    \* one hour in both, in ticks
  MaxNow,    \* bound: the last tick
  NoIP       \* the address of no signup

Email == "tenant_signup:email:extracted"
Keys == IPs \cup {Email}

ASSUME SignupParameters ==
  /\ Email \notin IPs /\ NoIP \notin Keys
  /\ Limit \in Nat \ {0} /\ Window \in Nat \ {0} /\ MaxNow \in Nat
  /\ Velocity \in Nat /\ Velocity >= Limit

VARIABLES requests, velocity, now, signup, passed, refused

history == <<passed, refused>>
signupVars == <<requests, velocity, now, signup, history>>

Ticks == 0..MaxNow
Times == Ticks \X Nat
Creations == Ticks \X Nat \X Ticks

NoSignup == [step |-> "idle", ip |-> NoIP, at |-> 0,
             disposable |-> FALSE, velocity |-> FALSE]

NoTimes(S) == [k \in S |-> {}]

SignupInit ==
  /\ requests = NoTimes(Keys) /\ velocity = NoTimes(IPs)
  /\ now = 0
  /\ signup = [r \in Signups |-> NoSignup]
  /\ passed = NoTimes(Keys) /\ refused = {}

-----------------------------------------------------------------------------
FaultyWithin(times) == times                                  \* nothing dropped
(* The times after the cutoff. *)
Within(times) == {t \in times : t[1] + Window > now}

Kept(k) == Within(requests[k])

FaultyAllowed(k) == Cardinality(Kept(k)) <= Limit             \* one too many
Allowed(k) == Cardinality(Kept(k)) < Limit

(* The present, as it is appended to a list. *)
Now(times) == <<now, Cardinality(times)>>

Pass(k) ==
  /\ Allowed(k)
  /\ requests' = [requests EXCEPT ![k] = Kept(k) \cup {Now(Kept(k))}]
  /\ passed' = [passed EXCEPT ![k] = @ \cup {Now(Kept(k))}]
  /\ refused' = {}

Refuse(k) ==
  /\ ~Allowed(k)
  /\ requests' = [requests EXCEPT ![k] = Kept(k)]
  /\ refused' = {k}
  /\ UNCHANGED passed

End(r) == signup' = [signup EXCEPT ![r] = NoSignup]

(* The key of the address.  seen: the body holds the text of the second     *)
(* check; one that does not goes to the handler without that check.         *)
LimitByIP(r, ip, seen) ==
  /\ signup[r].step = "idle"
  /\ \/ /\ Pass(ip)
        /\ signup' = [signup EXCEPT ![r] = [NoSignup EXCEPT
             !.step = IF seen THEN "email" ELSE "assess", !.ip = ip, !.at = now]]
     \/ Refuse(ip) /\ UNCHANGED signup
  /\ UNCHANGED <<velocity, now>>

(* One key for every email.  A signup refused here has used up one of its   *)
(* address.                                                                 *)
LimitByEmail(r) ==
  /\ signup[r].step = "email"
  /\ \/ Pass(Email) /\ signup' = [signup EXCEPT ![r].step = "assess"]
     \/ Refuse(Email) /\ End(r)
  /\ UNCHANGED <<velocity, now>>

FaultyAssessSignup(r, disposable) ==                   \* the times of all hours
  /\ signup[r].step = "assess"
  /\ signup' = [signup EXCEPT ![r].step = "create", ![r].disposable = disposable,
               ![r].velocity = Cardinality(velocity[signup[r].ip]) >= Velocity]
  /\ refused' = {}
  /\ UNCHANGED <<requests, velocity, now, passed>>
(* The domain of the email is looked up in a list, and the times of the     *)
(* last hour are counted; none is dropped.                                  *)
AssessSignup(r, disposable) ==
  /\ signup[r].step = "assess"
  /\ signup' = [signup EXCEPT ![r].step = "create", ![r].disposable = disposable,
               ![r].velocity = Cardinality(Within(velocity[signup[r].ip])) >= Velocity]
  /\ refused' = {}
  /\ UNCHANGED <<requests, velocity, now, passed>>

(* The score against 50: 40 for the domain and 25 for the velocity. *)
RequiresReview(r) ==
  (IF signup[r].disposable THEN 40 ELSE 0) + (IF signup[r].velocity THEN 25 ELSE 0) >= 50

(* After Create of the service has answered with the tenant. *)
RecordTenantCreation(r) ==
  /\ signup[r].step = "create"
  /\ velocity' = [velocity EXCEPT ![signup[r].ip] =
       @ \cup {<<now, Cardinality(@), signup[r].at>>}]
  /\ refused' = {}
  /\ End(r)
  /\ UNCHANGED <<requests, now, passed>>

(* A body that does not bind, a slug that is taken, an error of the store. *)
Fail(r) ==
  /\ signup[r].step \in {"assess", "create"}
  /\ End(r) /\ refused' = {}
  /\ UNCHANGED <<requests, velocity, now, passed>>

Tick ==
  /\ now < MaxNow /\ now' = now + 1
  /\ refused' = {}
  /\ UNCHANGED <<requests, velocity, signup, passed>>

(* The process starts again with empty maps, and so does the history. *)
Restart ==
  /\ requests' = NoTimes(Keys) /\ velocity' = NoTimes(IPs)
  /\ signup' = [r \in Signups |-> NoSignup]
  /\ passed' = NoTimes(Keys) /\ refused' = {}
  /\ UNCHANGED now

SignupNext ==
  \/ \E r \in Signups :
       \/ \E ip \in IPs, seen \in BOOLEAN : LimitByIP(r, ip, seen)
       \/ \E d \in BOOLEAN : AssessSignup(r, d)
       \/ LimitByEmail(r) \/ RecordTenantCreation(r) \/ Fail(r)
  \/ Tick \/ Restart

SignupSpec == SignupInit /\ [][SignupNext]_signupVars

-----------------------------------------------------------------------------
(* Properties. *)

(* Every variable has its type, and the limiter keeps no list beyond the    *)
(* limit.                                                                   *)
SignupTypeOK ==
  /\ requests \in [Keys -> SUBSET Times]
  /\ \A k \in Keys : Cardinality(requests[k]) <= Limit
  /\ velocity \in [IPs -> SUBSET Creations]
  /\ now \in Ticks
  /\ signup \in [Signups ->
       [step : {"idle", "email", "assess", "create"}, ip : IPs \cup {NoIP}, at : Ticks,
        disposable : BOOLEAN, velocity : BOOLEAN]]
  /\ passed \in [Keys -> SUBSET Times]
  /\ refused \subseteq Keys

(* What key k was allowed in the window that ends with tick t. *)
InWindow(k, t) == {s \in passed[k] : s[1] <= t /\ s[1] + Window > t}

(* The limiter decides by a list of at most Limit times as it would by all  *)
(* it ever let pass, in whatever order requests come: no window of an hour, *)
(* wherever it begins, lets a key pass more often than the limit, and a key *)
(* is refused only when that many passed in the hour before, refused        *)
(* attempts not counted.                                                    *)
LimiterExact ==
  /\ \A k \in Keys, t \in Ticks : Cardinality(InWindow(k, t)) <= Limit
  /\ \A k \in refused : Cardinality(InWindow(k, now)) >= Limit

Flagged(r) == signup[r].velocity \/ RequiresReview(r)

(* Tick t is more than a window ago: the limiter no longer counts it. *)
Forgotten(t) == t + Window <= now

(* The threshold of the code is no lower than the limit, and a creation is   *)
(* recorded later than its signup was let pass.  So an address is flagged,  *)
(* or put under review, only on the strength of one that the limiter has     *)
(* forgotten by then: a creation of this hour whose signup was let pass      *)
(* before it, or the very signup, let pass more than an hour ago.            *)
FlaggedOnlyIfForgotten ==
  [][\A r \in Signups : Flagged(r)' /\ ~Flagged(r) =>
       \/ Forgotten(signup[r].at)
       \/ \E c \in Within(velocity[signup[r].ip]) : Forgotten(c[3])]_signupVars
=============================================================================
