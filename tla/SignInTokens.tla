---------------------------- MODULE SignInTokens ----------------------------
(***************************************************************************)
(* The two tokens that stand for one sign-in: the magic link that is sent  *)
(* by mail (internal/service/passwordless.go) and the state that an OAuth2 *)
(* provider hands back (oauth2.go), with the table of providers.  Whom     *)
(* they sign in, and with which roles, is in module TenantAuth.            *)
(*                                                                         *)
(*   row        row[k]: "none" before the row of k is created, then        *)
(*              "live", and "used" (links) or "deleted" (states)           *)
(*   source     source[k]: the tenant of the row of a link, or the         *)
(*              provider of the row of a state                             *)
(*   expires    expires[k]: the column expires_at, in ticks                *)
(*   providers  the providers with a row                                   *)
(*   req        req[r]: the request slot r is serving                      *)
(*   uses       history: uses[k] counts the sign-ins with k                *)
(*   tenants    history: the pairs of a token and the tenant it signed in  *)
(*   excused    history: the tokens that two requests presented at the     *)
(*              same time, and the states whose deletion failed            *)
(***************************************************************************)
EXTENDS Naturals

CONSTANTS
  Links, States, Tenants, Providers, Requests,
  Owner,     \* Owner[p]: the tenant that registered provider p
  LinkLife,  \* 15 minutes, in ticks
  StateLife, \* 10 minutes, in ticks
  MaxNow,    \* bound: the last tick
  None

Tokens == Links \cup States
Sources == Tenants \cup Providers

ASSUME TokenParameters ==
  /\ Links \cap States = {} /\ None \notin Tokens \cup Sources
  /\ Owner \in [Providers -> Tenants]
  /\ LinkLife \in Nat /\ StateLife \in Nat /\ MaxNow \in Nat

VARIABLES row, source, expires, providers, now, req, uses, tenants, excused

table == <<row, source, expires>>
history == <<uses, tenants, excused>>
vars == <<table, providers, now, req, history>>

Idle == [step |-> "idle", token |-> None, tenant |-> None]

Init ==
  /\ row = [k \in Tokens |-> "none"]
  /\ source = [k \in Tokens |-> None]
  /\ expires = [k \in Tokens |-> 0]
  /\ providers = {}
  /\ now = 0
  /\ req = [r \in Requests |-> Idle]
  /\ uses = [k \in Tokens |-> 0]
  /\ tenants = {}
  /\ excused = {}

-----------------------------------------------------------------------------
After(k) == now > expires[k]

Goto(r, step) == req' = [req EXCEPT ![r].step = step]
End(r) == req' = [req EXCEPT ![r] = Idle]

Create(k, from, life) ==
  /\ row[k] = "none"
  /\ row' = [row EXCEPT ![k] = "live"]
  /\ source' = [source EXCEPT ![k] = from]
  /\ expires' = [expires EXCEPT ![k] = now + life]
  /\ UNCHANGED <<providers, now, req, history>>

(* SendMagicLink: earlier links of the user stay as they are. *)
SendMagicLink(k, t) == k \in Links /\ Create(k, t, LinkLife)

(* GetAuthURL with a provider of the tenant; none is ever disabled. *)
GetAuthURL(k, p) == k \in States /\ p \in providers /\ Create(k, p, StateLife)

RegisterProvider(p) ==
  /\ p \notin providers
  /\ providers' = providers \cup {p}
  /\ UNCHANGED <<table, now, req, history>>

DeleteProvider(p) ==
  /\ p \in providers
  /\ providers' = providers \ {p}
  /\ UNCHANGED <<table, now, req, history>>

(* Request r goes on with token k.  History: others may be on their way. *)
Present(r, k, t, step) ==
  /\ req' = [req EXCEPT ![r] = [step |-> step, token |-> k, tenant |-> t]]
  /\ excused' = excused \cup {j \in {k} : \E q \in Requests \ {r} : req[q].token = k}
  /\ UNCHANGED <<table, providers, now, uses, tenants>>

-----------------------------------------------------------------------------
FaultyFindByToken(k) == k \in Links /\ row[k] # "none" /\ ~After(k) \* used_at ignored
FindByToken(k) == k \in Links /\ row[k] = "live" /\ ~After(k)

FaultyVerifyMagicLink(r, k, t) ==          \* the tenants not compared
  /\ req[r].step = "idle"
  /\ FindByToken(k)
  /\ Present(r, k, t, "mark")
(* VerifyMagicLink as far as the comparison of the tenants. *)
VerifyMagicLink(r, k, t) ==
  /\ req[r].step = "idle"
  /\ FindByToken(k) /\ source[k] = t
  /\ Present(r, k, t, "mark")

FaultyMarkUsed(r) ==                       \* the error of MarkUsed not looked at
  /\ req[r].step = "mark"
  /\ \/ row' = [row EXCEPT ![req[r].token] = "used"]
     \/ UNCHANGED row
  /\ Goto(r, "sign")
  /\ UNCHANGED <<source, expires, providers, now, history>>
(* MarkUsed does not ask whether the link was used in the meantime. *)
MarkUsed(r) ==
  /\ req[r].step = "mark"
  /\ row' = [row EXCEPT ![req[r].token] = "used"]
  /\ Goto(r, "sign")
  /\ UNCHANGED <<source, expires, providers, now, history>>

(* FindByState and FindByID of the two repositories. *)
StateStored(k) == k \in States /\ row[k] = "live"
ProviderStored(p) == p \in providers

(* HandleCallback finds the state; an expired one it deletes, if it can. *)
FindByState(r, k) ==
  /\ req[r].step = "idle"
  /\ StateStored(k)
  /\ \/ ~After(k) /\ Present(r, k, None, "provider")
     \/ /\ After(k)
        /\ row' = [row EXCEPT ![k] = "deleted"]
        /\ UNCHANGED <<source, expires, providers, now, req, history>>

(* The provider, with its tenant, is read once. *)
FindProvider(r) ==
  /\ req[r].step = "provider"
  /\ ProviderStored(source[req[r].token])
  /\ req' = [req EXCEPT ![r].step = "clean", ![r].tenant = Owner[source[req[r].token]]]
  /\ UNCHANGED <<table, providers, now, history>>

(* After the exchange with the provider and the mint: "clean up state", with *)
(* the result of the deletion ignored.                                       *)
DeleteState(r) ==
  LET k == req[r].token
  IN
  /\ req[r].step = "clean"
  /\ \/ row' = [row EXCEPT ![k] = "deleted"] /\ UNCHANGED excused
     \/ excused' = excused \cup {k} /\ UNCHANGED row
  /\ Goto(r, "sign")
  /\ UNCHANGED <<source, expires, providers, now, uses, tenants>>

(* The response with the tokens.  The count is bounded by two. *)
SignIn(r) ==
  LET k == req[r].token
  IN
  /\ req[r].step = "sign"
  /\ uses' = [uses EXCEPT ![k] = IF @ < 2 THEN @ + 1 ELSE @]
  /\ tenants' = tenants \cup {<<k, req[r].tenant>>}
  /\ End(r)
  /\ UNCHANGED <<table, providers, now, excused>>

(* Any error on the way, of the database, of the provider, or because the   *)
(* user is gone; or the end of the process.                                 *)
Fail(r) ==
  /\ req[r].step # "idle"
  /\ End(r)
  /\ UNCHANGED <<table, providers, now, history>>

Tick ==
  /\ now' = IF now < MaxNow THEN now + 1 ELSE now
  /\ UNCHANGED <<table, providers, req, history>>

Next ==
  \/ \E k \in Tokens :
       \/ \E t \in Tenants : SendMagicLink(k, t)
       \/ \E p \in Providers : GetAuthURL(k, p)
  \/ \E p \in Providers : RegisterProvider(p) \/ DeleteProvider(p)
  \/ \E r \in Requests, k \in Tokens :
       FindByState(r, k) \/ \E t \in Tenants : VerifyMagicLink(r, k, t)
  \/ \E r \in Requests :
       MarkUsed(r) \/ FindProvider(r) \/ DeleteState(r) \/ SignIn(r) \/ Fail(r)
  \/ Tick

Spec == Init /\ [][Next]_vars

-----------------------------------------------------------------------------
(* Properties. *)

(* Every variable has its type. *)
TypeOK ==
  /\ row \in [Tokens -> {"none", "live", "used", "deleted"}]
  /\ source \in [Tokens -> Sources \cup {None}]
  /\ expires \in [Tokens -> 0..(MaxNow + LinkLife + StateLife)]
  /\ providers \in SUBSET Providers
  /\ now \in 0..MaxNow
  /\ req \in [Requests -> [step : {"idle", "mark", "provider", "clean", "sign"},
                           token : Tokens \cup {None}, tenant : Tenants \cup {None}]]
  /\ uses \in [Tokens -> 0..2]
  /\ tenants \in SUBSET (Tokens \X Tenants)
  /\ excused \in SUBSET Tokens

(* MarkUsed and "clean up state": a token signs in once, unless two requests *)
(* presented it at the same time or, for a state, its deletion failed.       *)
OnceUnlessRaced == \A k \in Tokens : uses[k] > 1 => k \in excused

(* A sign-in is into the tenant the link was sent for, or into the tenant of *)
(* the provider that the state was made for.  A provider belongs to the      *)
(* tenant that registered it for good, since nothing calls UpdateProvider.   *)
SignInTenant ==
  \A use \in tenants :
    LET k == use[1]
    IN use[2] = IF k \in Links THEN source[k] ELSE Owner[source[k]]

(* The component as a supply of one-time tokens; links are strict. *)
Fresh == {k \in Tokens : row[k] = "live" /\ ~After(k)}

OneTime == INSTANCE OneTimeToken WITH
  Strict  <- Links,
  fresh   <- Fresh,
  spent   <- {k \in Tokens : row[k] # "none"} \ Fresh,
  attempt <- [r \in Requests |-> req[r].token],
  signed  <- {k \in Tokens : uses[k] > 0}

(* FindByToken, FindByState, MarkUsed and Delete, under any interleaving and *)
(* any failure, keep the promise of module OneTimeToken.                     *)
KeepsPromise == OneTime!Spec
=============================================================================
