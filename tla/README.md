# Hoviyat: TLA+ models, checks and proofs

Hoviyat is a multi-tenant identity and access server in Go (`src/backend`): one process type
over PostgreSQL (through GORM) and Redis. Every HTTP request runs on its own goroutine. **No
request is wrapped in a transaction**, so a request is a sequence of store calls with the calls
of other requests, of other processes and of the rotation goroutine in between; any call may
fail, and the process may end between two calls. That is what the modules model: one action per
store call of an operation that makes several, one action for an operation that makes one.

## 1. Inventory

| Component | State | Operations that change it | What makes it correct | Module |
|---|---|---|---|---|
| Accounts, tenants, memberships, teams, token issue (`service/auth.go`, `tenant.go`, `team.go`, `oauth2.go`, `passwordless.go`) | rows of users, tenants, memberships, teams, team memberships | Register, Login, SwitchTenant, OAuth2 callback, magic link verification, LeaveTenant, tenant status, team administration | the claims of a token are what its user held, in that tenant, while the request ran; a membership is written once, and an admin's by the registration of the account | `TenantAuth` |
| SCIM provisioning (`scim.go`) | the same rows of users and memberships | CreateUser, DeleteUser | a directory makes nobody admin and overwrites no membership | `TenantAuth` |
| Authorization decisions (`authorization.go`, `authz_cache.go`, `abac.go`, `acl.go`, `policy.go`) | memberships, ACL entries, policies, prepared queries in memory, decisions in Redis | Check, DryRun, grants and revocations, policy life cycle, cache expiry | a decision rests on rows of its own tenant; layers in order; a revoked grant is forgotten in bounded time, and by an invalidation unless a check was late | `Authz`, `AuthzDecision`, `AuthzStaleness` |
| Signing keys, JWKS (`jwks.go`) | `signing_keys`, `currentKey` and its mutex in each process | Initialize, RotateKey, SignToken, the rotation goroutine, restart | issued tokens verify; an expired key does not sign; one rotation at a time; a signing request is answered | `SigningKeys` |
| Multi-factor methods (`mfa.go`) | rows of methods with their backup codes | EnrollTOTP, VerifyTOTP, VerifyBackupCode, RemoveMethod, SetPrimaryMethod | whole-row writes bring nothing back and take nothing of others away | `MFAMethods` |
| Magic links and OAuth2 states (`passwordless.go`, `oauth2.go`) | rows of links and states, providers | send, verify, authorization URL, callback, provider registration and deletion | one sign-in per token, into the right tenant | `SignInTokens`, `OneTimeToken` |
| Identity provider (`idp.go`, `idp_handler.go`) | rows of clients, consents, authorization codes | client registration and deletion, consent, the three grants | one exchange per code; one consent; claims never leave their tenant or what was approved | `IdentityProvider`, `OneTimeToken` |
| Tenant signup (`rate_limit.go`, `risk.go`, `tenant_handler.go`) | two in-memory tables of times | POST /tenants | the window is exact; the velocity signal means something | `TenantSignup` |
| Audit log and GDPR (`audit.go`, `audit_repository.go`, `gdpr.go`, `export_repository.go`) | the hash chain of each tenant; rows of export and erasure requests | append, request, read, execute | the chain of a tenant does not fork and stays in the tenant; one pending erasure, carried out once | `Compliance` |
| Webhooks (`webhook.go`) | rows of webhooks; deliveries, on goroutines | Register, Update, Delete, DispatchEvent, deliver, restart | updates do not undo each other; a receiver gets what its webhook asked for; a delivery ends | `Webhooks` |
| SAML, SOC 2, observability, tokens and passwords, wiring | | | | not modelled |

Interaction: every sign-in path ends in the mint of `TenantAuth`; the middleware hands the claims
of a token to `Authz`, MFA and the identity provider; the identity provider signs ID tokens with
`SigningKeys`; signup creates the tenants whose life is in `TenantAuth`. The parts share rows
(memberships, team memberships) and no memory, except the two in-process caches (the prepared
policies and the current key), which are in their own modules.

**What is hard to test here**: two requests that read before either writes (find-then-create,
read-modify-write of whole rows), GORM's `Updates(struct)`, which skips FALSE, nil and empty
columns, ignored results of deletions, loops that skip rows they cannot read, decisions cached
after the rows they rest on are gone, a lock taken twice, and long chains of grants whose claims are
handed over and never looked up again. `PROJECT.json` lists each with its line.

**Facts about the stores** that all modules use: `First` orders by the primary key, a random uuid
(ids are numbers in that order, or the model picks any); a unique index is the only thing that
makes an insert fail for a reason of the data; a deletion of nothing succeeds unless
`RowsAffected` is looked at; `DeleteExpired` functions are never called.

## 2. Modules

Proofs are in modules of their own; an `MC...` module holds parameter values, symmetry sets and
bounds for TLC. In each module a definition `FaultyX` right before `X` is a plausible bug
in the same code; `PROJECT.json` says which property finds it, and nothing else uses it.

**TenantAuth.** A slot of `Requests` is a goroutine; `req[r].step` is the next repository call of
`Register`, `Login`, `SwitchTenant`, `HandleCallback` or `VerifyMagicLink`. `status`,
`memberships`, `teams`, `teamMemberships` are the tables; role sets are sets, because order and
repetition of roles change nothing. Administrative operations are one write each. The history
`seen[r]` collects what held for the request's user and tenant at some moment, and at every
moment, of the request: the properties compare a token with it. SCIM's `CreateUser` is two more steps of
a slot, the insertion of the user and of its membership, and `DeleteUser` deletes only the
membership of its tenant: the directory races registrations and logins of the same address.
`Decisions` is module `Authz` over the same rows: `RowsAsDecided` says that what happens to them here is
what the checks of `Authz` expect to happen between their reads.

**Authz** is `POST /authz/check` and the dry run: cache, membership, team roles, user ACL, team
ACL, role ACL, policies, store, one action per read. All checks are about one resource and one
action, since cache keys of different ones never meet. A policy is one that allows, denies or
does not compile; a verdict does not depend on the input, because the input reaches OPA as
bytes that no policy of this version can take apart. **AuthzDecision** adds the history of a
check. **AuthzStaleness** adds the age of what a cached decision rests on and the invalidation functions
of `authz_cache.go`: a sweep lists the keys of a pattern and deletes them in a second call, with checks
in between. The pattern of `InvalidateBySubject` has the subject's type where the keys have the user's
id, so it matches none. Nothing in the program calls these functions; the model lets a
sweep start at any time, as an operator would.

**SigningKeys.** Processes that share the table; in each a rotation goroutine and signing requests
under `keyMutex`, with `pc` as the program counter and `late` telling whether a tick passed. Keys are
numbers in the order of their random ids, so a restart may pick up any active one.

**MFAMethods.** Every operation reads rows into `req[r].seen` and writes whole rows from it, one
`UPDATE` per row left in `req[r].todo`. `Updates` is GORM's: a column that becomes FALSE is kept.

**OneTimeToken** is the abstract promise of a supply of one-time tokens under overlapping
requests: issued once, spent once, admitted only while fresh, signed in only with what was
admitted, and, for strict tokens, only after the token was spent. **SignInTokens** (links are
strict, states are not) and **IdentityProvider** (codes, none strict) are shown to
implement it (`KeepsPromise`) under the mappings at their ends.

**IdentityProvider.** A consent is three steps (find, create or update, issue the code), an exchange
three (find, delete, mint). A list of scopes is one value; the redirect URI is abstracted to "the
same or another one", where another one ends in `Fail`. `Authorize` has no action: its route
carries no authentication, so it always redirects to the login. PATCH of a client is left out:
the JSON lists never have the Go type it asks for and `enabled: false` is skipped by `Updates`, so
it changes the display name only. Postgres refuses to store a code in the uuid column
that AutoMigrate makes; the model lets the insertion succeed or fail, so the runs also cover
a schema with a text column.

**TenantSignup.** `requests` and `velocity` are the two tables of times, pruned as in the code; the code only filters
and counts their lists, so they are sets, of a tick and the place at which the time was appended. A tick is the unit of the
clock, a nanosecond: each step that reads the clock reads it anew, several may read the same, and no window is rounded. The
history `passed` is the full log that the pruned lists are compared with, and each time in `velocity` carries, as history, the tick at
which the limiter let that signup pass. The names start with `signup` where `TenantAuth` has the same, because the proofs about both are in one module.

**Webhooks.** `updates[w]` is an `Update` between its read and its write of the whole row; `intended`
is the row as the updates were meant. An event starts a delivery per webhook that wants it,
on a goroutine that keeps the context of the request that dispatched it; when that request ends first, the
delivery fails. The repository is an interface without an implementation in this version; it is taken to
read one row and write one whole row per call. A GORM `Updates` of the struct, as the repositories beside it do, would skip `enabled: false`, which
no run here covers, and the panic of a failed delivery without a retry policy is left out. A retry that is due is only printed, and a restart forgets every delivery.

**Compliance.** A request is its store calls in the order of the code: an export stores its row and
then appends to the log, an erasure looks for a pending one, appends and stores its row. Appending is
two steps, the lookup of the newest entry and the insertion, and the timestamp is taken in between,
so `AppendEntry` picks any free one that is later than what the lookup saw. A hash is represented by the
entry it belongs to. A lookup that fails starts an unlinked entry, as one that finds nothing does, and `failed` keeps them apart. Reading a row that is out of date rewrites its row; since every row is out of date
some day and nothing else depends on time, the module has no clock. `seen`, `together`, `blind`
and `closed` hold history. As in the identity provider, the uuid columns of AutoMigrate refuse
the ids that this version writes; insertions may succeed or fail here, so the run is about the schema in which they fit.

## 3. Runs

| Run | Instance | Question |
|---|---|---|
| `tenant` | 1 user, 2 tenants, 1 team, 2 requests (two race while there is one tenant and no team; with more rows they run one after the other) | Are the roles of a token exactly those held in its own tenant, over an active tenant and a membership, against every administrative change, racing registration, login, provisioning and departure? And are the rows only written as `Authz` takes them to be? |
| `authz_decision` | 2 tenants with a team each, 1 check, tables of three shapes: every layer of one tenant (at most 4 rows), rows of both tenants with entries of the user (3) or of anyone and a policy that does not compile (2); one row changes during a check | Which layer decides, on which rows, and do rows of one tenant decide a check about another? |
| `authz_stale` | 1 tenant, role and ACL grants, TTL 2, checks of 1 tick, sweeps of every pattern | How old can an allow in the cache get, is it forgotten in the end, and what does a sweep leave behind? |
| `authz_invalidation` | the same | The violation of `HonoursRevocation` described in 6. |
| `keys_safe` | 1 process, 2 requests, 3 keys, failing stores, 1 restart, keys that expire | Are issued tokens verifiable, is an expired key never used, does one goroutine hold the mutex, is each request answered until `GetActiveKey` calls `RotateKey`? |
| `keys_stuck` | a key expires while its process was down | The violation described in 6. |
| `mfa` | 2 users, 2 methods, 2 requests | What can interleaved whole-row writes do to codes, to the primary method, to removed methods and to those of another user? |
| `sign_in_tokens` | 1 link, 1 state, 2 providers of 2 tenants, 2 requests, 4 instants | Is a token spent once, for the right tenant, as `OneTimeToken` promises? |
| `identity_provider` | 1 user, 2 tenants, 1 client, 1 code, 2 consent rows, 2 requests | Do codes keep their promise, do consents stay single, do claims stay in their tenant and scopes approved? |
| `tenant_signup` | 2 addresses, 2 requests, limit and threshold 2, window of 2 ticks, ticks 0 to 2 | Does the pruned list decide like the full log, and which signups must the limiter have forgotten for the velocity signal to fire? |
| `compliance` | 1 data subject, 2 tenants, 2 request ids, 2 requests, 3 log entries | When can a chain fork or start again, can an entry follow one of another tenant, when are two erasures pending, is an erasure executed twice? |
| `webhooks` | 1 webhook, 2 updates at a time, 1 event, 1 restart | What can two updates do to each other, does a receiver get only what was wanted, does every delivery end? |

**Why the bounds are enough.** Each property is about one request, token, row or check and at most
one competitor of each kind; the instances have two of whatever races (requests, tenants, rows of
a pair) and one of what only multiplies cases. Users never share rows, except through tenant and
team, hence one user. The lives of tokens, keys and consents are one or two ticks and the last tick lies beyond
them, so that everything expires with requests under way. Bounds named in the modules: `MaxNow`
(last tick), `MaxRestarts`, `Keys` and `Rows` (ids), `MaxTokens` and `MaxApproved` (different
tokens and approvals of the identity provider: a sign-in, a code and a refresh or client token
meet), `MaxEntries` (log entries: a third follows, or fails to follow, two that raced), `MaxRows` (rows in the tables of an authorization check). Counters of uses stop at two. The
limit and the velocity threshold of signups are 5 in the code; 2 keeps their equality, and with ticks 0 to 2 and a window of 2 the first time
leaves the window while the second, and a creation recorded after the first, are still in it.

**Deadlock** is checked in every run except `keys_safe` and `keys_stuck`, where a process whose
mutex is taken twice, at the last instant and with its restarts used up, really stops, and
`compliance` and `webhooks`, which end when the ids, timestamps or events of the instance are used up.

**Fairness.** Only the two runs of `AuthzStaleness`, the two of the keys and `webhooks` assume any. `keys_*`: a goroutine that can take
its next step takes it (weak fairness: Go's scheduler preempts), and the mutex goes in the end
to each goroutine that waits for it (strong fairness on `Lock`: Go's `sync.Mutex` has a starvation
mode). No fairness is put on failures, restarts or ticks. `authz_stale`: time goes on and the
stores answer a check that runs; without the second a check could hang with a decision in
its hands for ever. `webhooks`: the goroutine of a delivery takes its next step (weak fairness of
`Deliver`): the HTTP client has a timeout of thirty seconds. No fairness is put on requests, updates or restarts.

## 4. Proofs

`tlapm` checks every theorem, for every value of the constants that satisfies the modules'
assumptions.

**TenantAuthProofs**, about `TenantAuth` (assumption: `None` is no user, tenant or role; tenants are no teams). `TypeCorrect` is
inductive alone, with one lemma per family of actions. The role properties are not: nothing in
a request that has read the membership says that those roles were in the history. `MintInv(r)`
adds, step by step, what the request has so far: the roles collected are among the roles seen; before
the mint the member has been seen; past the status check an active tenant has been seen; a
callback's early steps carry nothing. The lemma that carries it is that `Observe` only adds to
`some`, and puts in what the tables say after the step (`ObserveGrows`). From it
follow `RolesHeld`, `TenantActive` and `UserMember`; `NeverRewritten` is an action property and
needs the types only. `AdminsCameByRegistration` rests on: whoever is registering has a password, and no step takes one away (`RegisteringHolds`); an email is
registered once, so no two requests register one user (`SoleRegistration`); and until that registration writes its membership its account is
admin nowhere, because the account is new and everyone else who adds a membership adds a plain one (`NotYetAdmin`). `UserMember` is about the
paths of this module; the code exchange and the refresh of `IdentityProvider` mint without a look at memberships, as `TenantReached` takes into account.

`RolesComplete`, that no token lacks what its user held all along, needs the other side of the history: `seen[r].all` only shrinks, and
holds nothing that the tables do not say now (`ObserveShrinks`). Each lookup therefore settles one source for good (`CompleteInv`):
when the membership has been read, what is left of its grants is in `roles`, and when the last team has, so is the
rest, unless a team could not be read. A registration has nothing to miss, because the account is new; that takes
`AccountInvariant`: rows belong to accounts, and so does a request that is about to write one.

`RowsWrittenAsDecided` joins this module to `Authz`, whose theorems hold of any sequence of single-row writes in teams that never change
their tenant: every step of a request or of the administration that changes the rows is such a write (`StepWritesOneRow`), and
the tenant of a team with rows stays what it is. The invariant it takes is that only teams that exist have rows (`RowsInvariantHolds`).

The last two parts are about `TenantSignup` (assumption: the address of no signup is none, limit and window are positive, and the
velocity threshold is no lower than the limit). The limiter decides by the pruned list, and `LimiterExact` speaks of the whole log. `KeyInv`
says that whatever the window still holds is in the list, and that a time is appended at a place its tick has not used (`Fresh`),
so counting the one is counting the other; a window that ended earlier is not touched, and one that ends later holds no more than
the list. `FlaggedOnlyIfForgotten` compares the times of `velocity` with what the limiter let pass, which no variable ties together. `ShareInv` does, for *every* set
of ticks at once: the recorded creations of an address that were let pass in it, and its signups under way that were, are no
more than the times it was let pass in it. For the ticks that the limiter has not forgotten, with the signup being assessed as one of
them, this leaves fewer than the limit, so a flag takes a creation from before (`FlagRaised`).

**SigningKeysProofs** (assumptions: times and keys are naturals, the processes are distinct from
`None`). `KeyInvariant` is the types, `KeysKnown` (whatever a process or a request holds is stored,
as is the key of each token), `HoldersHold` (a goroutine past `Lock` is the one in `mutex`) and
`FreshSigner`. It gives `AlwaysVerifiable`, `AlwaysFresh` and `AlwaysOneHolder`. `KeysKnown` is
needed because `TokensVerifiable` alone says nothing of the key a request is about to sign with.

**WebhooksProofs** (assumption: retry counts are naturals). `UpdatesKept` is not inductive, because an update writes
back what it read. The invariant adds that what an update of an unraced webhook has read is still the row
(`UpdatesFresh`), that two updates of a webhook make it raced (`OverlapsRaced`), and that a deleted
id is never used again (`MadeOnly`).

**SignInTokensProofs** (assumptions: links and states are distinct, lives are naturals). Whoever holds a
token together with another request has it excused (`HoldersExcused`); a token that is not excused is
spent before its request signs in, and a spent token is found by nobody (`SpentFirst`). Beside
`AlwaysOnceUnlessRaced` and `AlwaysSignInTenant` it gives the refinement `PromiseKept`: under the invariant,
each step is one of `OneTimeToken` or invisible to it, time being a step that spends every token it lets expire.

**ComplianceProofs** (assumptions: ids, times, rows and `None` are distinct). Each property of rows and entries follows from
what the invariant says of the requests on the way to them: what a lookup found is the last of what it saw, nothing only
if it saw nothing or failed (`ChainOK`), an id belongs to the request that made it until its row is stored (`IdsReserved`), an
erasure counts as open from its lookup on (`OpenOnce`), and one that was carried out is in no other
request's hands (`ClosedOnce`).

**MFAMethodsProofs** (assumption: methods are naturals, `None` is no user, there are backup codes). A copy in a request's hands is
of a row of the request's own user (`CopiesOwned`) and of an id never given out again (`Known`), which gives `AlwaysOwn` and
`AlwaysRemoved`. `AlwaysPrimary` holds for a reason the code does not state: `Updates` skips a mark that becomes FALSE, so
every method stays primary (`AllPrimary`); that one of them is the least comes from the library's well-foundedness of the naturals.

**IdentityProviderProofs** (assumptions: users, clients, rows and `None` are distinct, row ids are positive). The invariant has three
parts, and each step disturbs one. What a request, a code or a token carries lies in sets of claims that only grow (`Carried`,
`Entitled`), because a client keeps its tenant: from this `AlwaysReached` and `AlwaysApproved`. Codes are as links and states
are (`AlwaysCodeOnce`, and `CodesKeepPromise` for the refinement). `OneConsent` is not inductive: the invariant says what the lookup of a grant
means until its row is written (`FoundOK`, `AloneOrExpired`), unless another grant of the pair came in between (`GrantsCrossed`).

**AuthzProofs**, for both modules on top of `Authz` (assumptions: tenants are no subjects, the tags of facts are neither, and a role is not called "allow" or
"deny", so that a fact shows the table it comes from). Each slot has two sides. `Justified` says that the roles, teams and
policies in a check's hands were seen in the tables at some time; it grows with `seen[c].some`. `Ordered` says that, unless an error hid a
row, each layer left behind has nothing to say by what held all the time, and that what the current one may still find is on the
list of what its loop has left; it is about `seen[c].all`, which only shrinks. One lemma per store call moves both (`AlwaysJustified`,
`AlwaysOrdered`), for checks of any number at once and with every write between their steps. For the cache, neither property
of `AuthzStaleness` says anything of a check that is about to store its decision. `Becomes` says that each step of a check leaves it
with a membership and with something to allow by only if it had them or the tables have them now; so what it has in its hands
is no older than its request (`Fresh`), and an entry counts from there (`Kept`). For the sweeps both also say that a check that
still carries something no longer in the tables began before the keys were listed, and that an allow a running sweep will miss is a
late one (`AlwaysBounded`, `AlwaysSwept`).

The types of `TenantAuth`, `Authz`, `SigningKeys`, `Webhooks`, `SignInTokens`, `Compliance`, `MFAMethods` and `IdentityProvider` are conjuncts of these invariants; no run
repeats them. `SignupTypeOK` is checked by its run too, since it bounds the lists.

**Only model-checked.** Liveness (`SignerAnswers`, `AnswersUnlessStuck`, `RevocationHonoured`, `EveryDeliveryEnds`)
and ENABLED are out of the prover's reach and stay with TLC. Every other property of a passing run is stated by a theorem.
No module declares a RECURSIVE operator. Sizes of sets are compared through the library's facts on finite sets.

## 5. Not modelled

- *Audit log*: queries and `VerifyChain` (see 6). *GDPR*: what an export contains. `ExecuteErasure` is modelled though it has no caller.
- *SAML* answers 501; *WebAuthn* and e-mail verification are stubs.
- *SCIM*: `UpdateUser`, which reads the user and echoes the request without a write, listing, the schema, and groups, which are stubs.
- *Webhooks*: the payload and its signature; Get and List only read. Neither SCIM nor webhooks are wired into `main.go`.
- *SOC 2*, *observability*: no state that anything depends on. *Tokens and passwords*: JWT and bcrypt.
- Listing and reading endpoints; `RevokeConsent` and other code without a caller. `PushInvalidation` is started by `main.go` with handlers that only
  log, and nothing calls its `Publish`.

## 6. Where code and documents differ

Runs show two:

- `keys_stuck`: `GetActiveKey` holds `keyMutex` (jwks.go:105) and, when the key has expired, calls
  `RotateKey` (:123, under the comment "Rotate if no valid key"), which locks it again. Every later signing request of the process waits for ever. `keys_safe`
  shows (`AnswersUnlessStuck`) that nothing else keeps a request waiting.
- `authz_invalidation`: a cached allow is answered after the last grant is gone; no write calls an
  invalidation. docs/PRD.md:188 asks that "every ACL/role/policy change immediately invalidates" the entries "rather
  than relying on a TTL". `authz_stale` says how long it lasts (`StalenessBounded`: the TTL and the time of one
  check), and that even a sweep would leave the allow of a check that was under way (`SweptUnlessLate`).

Others were met while modelling and are built into the actions, without a run of their own:

- `Register` makes every registrant an admin of the tenant; the comment (auth.go:37) speaks of the first member.
- `DryRun` stores its decision in the cache; its comment (authorization.go:224) says it does not.
- `Activate` and `RotateKey` are meant to leave one active row (policy.go:55, jwks.go:57); `Updates` skips the FALSE.
- A role that grants is not overruled by a deny entry; PRD 6 calls ACL entries exceptions.
- A remembered consent keeps the expiry of the row it renews (idp.go:279): `Updates` skips the nil.
- One key stands for all emails in the signup limiter, whose message (rate_limit.go:80) speaks of "this email".
- `Create` of the audit log hashes the timestamp it was given and then replaces it (audit_repository.go:60), and
  hashes nil maps as "{}" while it stores "null"; `VerifyChain` hashes what is stored, so it cannot confirm the entries that
  domain/audit.go:70 calls tamper-evident.
- `GetExport` marks erasures as "expired" too (gdpr.go:150), after which `ExecuteErasure` refuses them.
- The pattern of `InvalidateBySubject` (authz_cache.go:71) has the subject's type where the keys have a user's id, and matches none.
- A failed webhook is not tried again (webhook.go:344 prints the time of the next attempt); docs/PRD.md:104 asks for retries.
- The velocity signal fires at 5, the limit itself; its comment (risk.go:98) says it flags at 3, below the limit. What the code's threshold leaves of the signal is
  `FlaggedOnlyIfForgotten`. No strong signal reaches 50 by itself (risk.go:107).

## 7. Plan

Done: the mint of tokens and its tenant isolation with SCIM provisioning (proved), authorization decisions (proved) and their cache with
invalidation (proved), signing keys (proved), one-time tokens (proved, with the refinement), MFA (proved), identity provider (proved, with
the refinement), signup (proved), webhooks (proved), audit log and GDPR requests (proved). `Authz` and
`TenantAuth` over one set of rows (proved: every step of `TenantAuth` is a write of `Authz` or leaves the rows alone). What is left:
a history over both, which traces a decision to the administrative request behind the row that it rests on.
