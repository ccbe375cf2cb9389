-------------------------- MODULE IdentityProvider --------------------------
(***************************************************************************)
(* Hoviyat as an identity provider (internal/api/idp_handler.go,           *)
(* internal/service/idp.go, internal/repository/idp_repository.go): the    *)
(* client applications, the consents of their users, the authorization     *)
(* codes and the three grants of the token endpoint.                       *)
(*                                                                         *)
(*   client    client[c]: the row of client c, [row, tenant, scopes,       *)
(*             machine]; machine tells "client_credentials" \in GrantTypes *)
(*   consent   consent[i]: the row with id i, [pair, scopes, expires],     *)
(*             or None                                                     *)
(*   code      code[k]: the row of code k, [row, claims, expires]          *)
(*   tokens    the bearer tokens given out, [claims, login]; login tells   *)
(*             a sign-in from the grants of the token endpoint             *)
(*   req       req[r]: the request slot r is serving                       *)
(*   uses      history: uses[k] counts the exchanges of code k             *)
(*   approved  history: the claims the holder of a token approved          *)
(*   excused   history: the codes presented twice at the same time, or     *)
(*             whose deletion failed                                       *)
(*   crossed   history: the pairs <<subject, client>> whose consent two    *)
(*             requests granted at the same time                           *)
(*                                                                         *)
(* Claims are [sub, tenant, roles].  A list of scopes is one value.        *)
(* Authorize changes no state: its route has no RequireAuth, so it always  *)
(* redirects to the login page.                                            *)
(***************************************************************************)
EXTENDS Naturals, FiniteSets

CONSTANTS
  Users, Tenants, Clients, Codes, Scopes, Requests,
  Rows,         \* bound: the ids of consent rows, in the order of the index
  CodeLife,     \* 10 minutes, in ticks
  ConsentLife,  \* 30 days, in ticks
  MaxNow,       \* bound: the last tick
  MaxTokens,    \* bound: the different tokens given out
  MaxApproved,  \* bound: the different claims approved
  Member,       \* the roles of a token from a sign-in
  None

Subjects == Users \cup Clients
Never == MaxNow + ConsentLife + 1          \* the column expires_at is NULL
Consents == [pair : Subjects \X Clients, scopes : Scopes, expires : 0..Never]

ASSUME ProviderParameters ==
  /\ Users \cap Clients = {} /\ Member \notin Scopes
  /\ None \notin Subjects \cup Tenants \cup Scopes \cup Codes /\ None \notin Consents
  /\ Rows \subseteq Nat \ {0}
  /\ CodeLife \in Nat /\ ConsentLife \in Nat /\ MaxNow \in Nat
  /\ MaxTokens \in Nat /\ MaxApproved \in Nat

VARIABLES client, consent, code, tokens, now, req, uses, approved, excused, crossed

history == <<uses, approved, excused, crossed>>
vars == <<client, consent, code, tokens, now, req, history>>

Claims == [sub : Subjects, tenant : Tenants, roles : Scopes \cup {Member}]

Idle == [step |-> "idle", claims |-> None, client |-> None,
         remember |-> FALSE, found |-> 0, code |-> None]

Init ==
  /\ client = [c \in Clients |-> [row |-> "none", tenant |-> None, scopes |-> None,
                                  machine |-> FALSE]]
  /\ consent = [i \in Rows |-> None]
  /\ code = [k \in Codes |-> [row |-> "none", claims |-> None, expires |-> 0]]
  /\ tokens = {}
  /\ now = 0
  /\ req = [r \in Requests |-> Idle]
  /\ uses = [k \in Codes |-> 0]
  /\ approved = {} /\ excused = {} /\ crossed = {}

After(t) == now > t
End(r) == req' = [req EXCEPT ![r] = Idle]
Give(claims, login) ==
  /\ tokens' = tokens \cup {[claims |-> claims, login |-> login]}
  /\ Cardinality(tokens') <= MaxTokens

Approve(claims) ==
  /\ approved' = approved \cup {claims}
  /\ Cardinality(approved') <= MaxApproved

-----------------------------------------------------------------------------
(* Clients.  Every client is enabled, and stays so: Updates of UpdateClient *)
(* skips a false value.                                                     *)
ClientRow(t, S, machine) ==
  [row |-> "live", tenant |-> t, scopes |-> S, machine |-> machine]

(* Ids and secrets are fresh. *)
RegisterClient(c, t, S, machine) ==
  /\ client[c].row = "none"
  /\ client' = [client EXCEPT ![c] = ClientRow(t, S, machine)]
  /\ UNCHANGED <<consent, code, tokens, now, req, history>>

(* Consents, codes and tokens of the client stay. *)
DeleteClient(c) ==
  /\ client[c].row = "live"
  /\ client' = [client EXCEPT ![c].row = "deleted"]
  /\ UNCHANGED <<consent, code, tokens, now, req, history>>

FindByClientID(c) == client[c].row = "live"

(* The secret that only the holder of a live client knows. *)
ValidateClient(c) == FindByClientID(c)

(* TokenService.Parse: a signature proves a token, and nothing is looked up; *)
(* the middleware of the routes that need a sign-in takes any such token.   *)
Parse(x) == x \in tokens
RequireAuth(x) == Parse(x)

(* Any sign-in of a user, as in modules TenantAuth and SignInTokens. *)
Login(u, t) ==
  /\ Give([sub |-> u, tenant |-> t, roles |-> Member], TRUE)
  /\ UNCHANGED <<client, consent, code, now, req, history>>

-----------------------------------------------------------------------------
(* Consent. *)

RowsOf(pair) == {i \in Rows : consent[i] # None /\ consent[i].pair = pair}

FaultyFindByUserAndClient(pair) == 0       \* the row of the pair missed
(* The first row by id, unless it has expired; 0 for nil. *)
FindByUserAndClient(pair) ==
  IF RowsOf(pair) = {} THEN 0
  ELSE LET first == CHOOSE i \in RowsOf(pair) : \A j \in RowsOf(pair) : i <= j
       IN  IF After(consent[first].expires) THEN 0 ELSE first

FaultyConsent(r, x, c, S, remember) ==     \* the tenant of the client taken
  LET pair == <<x.claims.sub, c>>
  IN
  /\ req[r].step = "idle" /\ client[c].row # "none"
  /\ req' = [req EXCEPT ![r] = [Idle EXCEPT
               !.step = "grant", !.client = c, !.remember = remember,
               !.claims = [x.claims EXCEPT !.tenant = client[c].tenant, !.roles = S],
               !.found = FindByUserAndClient(pair)]]
  /\ Approve([x.claims EXCEPT !.roles = S])
  /\ crossed' = crossed \cup {p \in {pair} : \E q \in Requests \ {r} :
       req[q].step = "grant" /\ <<req[q].claims.sub, req[q].client>> = p}
  /\ UNCHANGED <<client, consent, code, tokens, now, uses, excused>>
(* The holder of token x approves scopes S for client c, as far as          *)
(* FindByUserAndClient.  The scopes and the client are not checked yet; a   *)
(* request that does not approve only redirects.                            *)
Consent(r, x, c, S, remember) ==
  LET pair == <<x.claims.sub, c>>
      claims == [x.claims EXCEPT !.roles = S]
  IN
  /\ req[r].step = "idle" /\ RequireAuth(x)
  /\ req' = [req EXCEPT ![r] = [Idle EXCEPT
               !.step = "grant", !.claims = claims, !.client = c,
               !.remember = remember, !.found = FindByUserAndClient(pair)]]
  /\ Approve(claims)
  /\ crossed' = crossed \cup {p \in {pair} : \E q \in Requests \ {r} :
       req[q].step = "grant" /\ <<req[q].claims.sub, req[q].client>> = p}
  /\ UNCHANGED <<client, consent, code, tokens, now, uses, excused>>

ConsentRow(r, expires) ==
  [pair |-> <<req[r].claims.sub, req[r].client>>, scopes |-> req[r].claims.roles,
   expires |-> expires]

Granted(r, i, expires) ==
  /\ consent' = [consent EXCEPT ![i] = ConsentRow(r, expires)]
  /\ req' = [req EXCEPT ![r].step = "issue"]
  /\ UNCHANGED <<client, code, tokens, now, history>>

(* A row with a random id. *)
CreateConsent(r, i) ==
  /\ req[r].step = "grant" /\ req[r].found = 0
  /\ consent[i] = None
  /\ Granted(r, i, IF req[r].remember THEN Never ELSE now + ConsentLife)

(* Updates skips a nil ExpiresAt: a remembered consent keeps the date it had. *)
UpdateConsent(r) ==
  /\ req[r].step = "grant" /\ req[r].found # 0
  /\ Granted(r, req[r].found, IF req[r].remember THEN consent[req[r].found].expires
                              ELSE now + ConsentLife)

CodeRow(claims) == [row |-> "live", claims |-> claims, expires |-> now + CodeLife]

(* GetClientByClientID and CreateAuthCode.  The insertion may fail (Fail): *)
(* with the uuid column of oauth2AuthCodeModel Postgres refuses every id   *)
(* of generateAuthCode.                                                    *)
IssueAuthCode(r, k) ==
  /\ req[r].step = "issue"
  /\ FindByClientID(req[r].client)
  /\ code[k].row = "none"
  /\ code' = [code EXCEPT ![k] = CodeRow(req[r].claims)]
  /\ End(r)
  /\ UNCHANGED <<client, consent, tokens, now, history>>

-----------------------------------------------------------------------------
(* The token endpoint. *)

FaultyFindByCode(r, c, k) ==               \* the expiry not looked at
  /\ req[r].step = "idle" /\ ValidateClient(c) /\ code[k].row = "live"
  /\ req' = [req EXCEPT ![r] = [Idle EXCEPT !.step = "delete", !.code = k, !.client = c,
                                            !.claims = code[k].claims]]
  /\ excused' = excused \cup {j \in {k} : \E q \in Requests \ {r} : req[q].code = k}
  /\ UNCHANGED <<client, consent, code, tokens, now, uses, approved, crossed>>
(* ConsumeAuthCode as far as the deletion; an expired code is deleted.  The *)
(* client the code was issued to is not compared.                           *)
FindByCode(r, c, k) ==
  /\ req[r].step = "idle" /\ ValidateClient(c) /\ code[k].row = "live"
  /\ \/ /\ ~After(code[k].expires)
        /\ req' = [req EXCEPT ![r] = [Idle EXCEPT !.step = "delete", !.code = k,
                                        !.client = c, !.claims = code[k].claims]]
        /\ excused' = excused \cup {j \in {k} : \E q \in Requests \ {r} : req[q].code = k}
        /\ UNCHANGED code
     \/ /\ After(code[k].expires)
        /\ code' = [code EXCEPT ![k].row = "deleted"]
        /\ UNCHANGED <<req, excused>>
  /\ UNCHANGED <<client, consent, tokens, now, uses, approved, crossed>>

FaultyDeleteCode(r) ==                     \* the code kept
  /\ req[r].step = "delete"
  /\ req' = [req EXCEPT ![r].step = "mint"]
  /\ UNCHANGED <<client, consent, code, tokens, now, history>>
(* "Delete after use (one-time use)", with the result of Delete ignored. *)
DeleteCode(r) ==
  /\ req[r].step = "delete"
  /\ \/ /\ code' = [code EXCEPT ![req[r].code].row = "deleted"]
        /\ UNCHANGED excused
     \/ /\ excused' = excused \cup {req[r].code}
        /\ UNCHANGED code
  /\ req' = [req EXCEPT ![r].step = "mint"]
  /\ UNCHANGED <<client, consent, tokens, now, uses, approved, crossed>>

FaultyAuthorizationCodeGrant(r) ==         \* the scopes of the client taken
  /\ req[r].step = "mint"
  /\ Give([req[r].claims EXCEPT !.roles = client[req[r].client].scopes], FALSE)
  /\ uses' = [uses EXCEPT ![req[r].code] = IF @ < 2 THEN @ + 1 ELSE @]
  /\ End(r)
  /\ UNCHANGED <<client, consent, code, now, approved, excused, crossed>>
(* The redirect URI is that of the code; one that differs ends in Fail.     *)
(* "roles := authCode.Scopes".  The count is bounded by two.                *)
AuthorizationCodeGrant(r) ==
  /\ req[r].step = "mint"
  /\ Give(req[r].claims, FALSE)
  /\ uses' = [uses EXCEPT ![req[r].code] = IF @ < 2 THEN @ + 1 ELSE @]
  /\ End(r)
  /\ UNCHANGED <<client, consent, code, now, approved, excused, crossed>>

(* Any valid token, access or refresh, with its claims. *)
RefreshTokenGrant(c, x) ==
  /\ ValidateClient(c) /\ Parse(x)
  /\ Give(x.claims, FALSE)
  /\ UNCHANGED <<client, consent, code, now, req, history>>

ClientCredentialsGrant(c) ==
  /\ ValidateClient(c) /\ client[c].machine
  /\ Give([sub |-> c, tenant |-> client[c].tenant, roles |-> client[c].scopes], FALSE)
  /\ UNCHANGED <<client, consent, code, now, req, history>>

(* An error of the database, a client that is gone, a redirect URI that     *)
(* differs, or the end of the process.                                      *)
Fail(r) ==
  /\ req[r].step # "idle"
  /\ End(r)
  /\ UNCHANGED <<client, consent, code, tokens, now, history>>

Tick ==
  /\ now < MaxNow
  /\ now' = now + 1
  /\ UNCHANGED <<client, consent, code, tokens, req, history>>

Next ==
  \/ \E c \in Clients :
       \/ \E t \in Tenants, S \in Scopes, m \in BOOLEAN : RegisterClient(c, t, S, m)
       \/ DeleteClient(c) \/ ClientCredentialsGrant(c)
       \/ \E x \in tokens : RefreshTokenGrant(c, x)
       \/ \E r \in Requests, k \in Codes : FindByCode(r, c, k)
       \/ \E r \in Requests, x \in tokens, S \in Scopes, m \in BOOLEAN : Consent(r, x, c, S, m)
  \/ \E u \in Users, t \in Tenants : Login(u, t)
  \/ \E r \in Requests :
       \/ \E i \in Rows : CreateConsent(r, i)
       \/ \E k \in Codes : IssueAuthCode(r, k)
       \/ UpdateConsent(r) \/ DeleteCode(r) \/ AuthorizationCodeGrant(r) \/ Fail(r)
  \/ Tick

Spec == Init /\ [][Next]_vars

-----------------------------------------------------------------------------
(* Properties. *)

(* Every variable has its type. *)
TypeOK ==
  /\ client \in [Clients -> [row : {"none", "live", "deleted"}, tenant : Tenants \cup {None},
                             scopes : Scopes \cup {None}, machine : BOOLEAN]]
  /\ consent \in [Rows -> Consents \cup {None}]
  /\ code \in [Codes -> [row : {"none", "live", "deleted"}, claims : Claims \cup {None},
                         expires : 0..(MaxNow + CodeLife)]]
  /\ tokens \subseteq [claims : Claims, login : BOOLEAN]
  /\ now \in 0..MaxNow
  /\ req \in [Requests ->
       [step : {"idle", "grant", "issue", "delete", "mint"}, claims : Claims \cup {None},
        client : Clients \cup {None}, remember : BOOLEAN, found : Rows \cup {0},
        code : Codes \cup {None}]]
  /\ uses \in [Codes -> 0..2]
  /\ approved \subseteq Claims /\ excused \subseteq Codes
  /\ crossed \subseteq Subjects \X Clients

(* "Delete after use (one-time use)": a code is exchanged once, unless two  *)
(* requests presented it at the same time or its deletion failed.           *)
CodeOnceUnlessRaced == \A k \in Codes : uses[k] > 1 => k \in excused

(* Tenant isolation over consents, codes and refreshes: a token reaches a   *)
(* tenant only where its user has signed in or its client is registered.    *)
TenantReached ==
  \A x \in tokens :
    IF x.claims.sub \in Users
    THEN \E y \in tokens : y.login /\ y.claims.sub = x.claims.sub
                                 /\ y.claims.tenant = x.claims.tenant
    ELSE x.claims.tenant = client[x.claims.sub].tenant

(* Scopes that become roles are those of a sign-in, those its subject       *)
(* approved for that tenant, or those of the client that is the subject.    *)
ScopesApproved ==
  \A x \in tokens :
    \/ x.claims \in approved
    \/ IF x.claims.sub \in Users THEN x.claims.roles = Member
       ELSE x.claims.roles = client[x.claims.sub].scopes

(* GrantConsent: a user and a client have two consents only when grants     *)
(* overlapped or when one of the two has expired.                           *)
OneConsent ==
  \A i, j \in Rows :
    (i # j /\ consent[i] # None /\ consent[j] # None /\ consent[i].pair = consent[j].pair)
    => \/ consent[i].pair \in crossed
       \/ \E h \in RowsOf(consent[i].pair) : After(consent[h].expires)

(* Codes as a supply of one-time tokens; none is strict. *)
Fresh == {k \in Codes : code[k].row = "live" /\ ~After(code[k].expires)}

OneTime == INSTANCE OneTimeToken WITH
  Tokens  <- Codes,
  Strict  <- {},
  fresh   <- Fresh,
  spent   <- {k \in Codes : code[k].row # "none"} \ Fresh,
  attempt <- [r \in Requests |-> req[r].code],
  signed  <- {k \in Codes : uses[k] > 0}

(* FindByCode and Delete keep the promise of module OneTimeToken: a code is *)
(* admitted while it is fresh, and an admitted attempt is exchanged once.   *)
KeepsPromise == OneTime!Spec
=============================================================================
