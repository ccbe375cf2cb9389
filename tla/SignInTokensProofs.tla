------------------------- MODULE SignInTokensProofs -------------------------
(***************************************************************************)
(* SignInTokens, for any number of links, states, providers and requests:  *)
(* a token signs in once unless it was raced or its deletion failed, always *)
(* into its own tenant, and the component implements OneTimeToken.         *)
(*                                                                         *)
(* OnceUnlessRaced is not inductive.  The argument: whoever holds a token  *)
(* together with another request has it excused (HoldersExcused); a token  *)
(* that is not excused has been spent before its request signs in, and a   *)
(* spent token is found by nobody, so after the sign-in nobody holds it     *)
(* (SpentFirst).  SignInTenant needs that a request carries the tenant of  *)
(* its token (RequestsOK) and that the source of a row is never rewritten. *)
(***************************************************************************)
EXTENDS SignInTokens, TLAPS

(* The tenant a token stands for. *)
TenantOf(k) == IF k \in Links THEN source[k] ELSE Owner[source[k]]

SourcesOK ==
  \A k \in Tokens : row[k] # "none" =>
    source[k] \in IF k \in Links THEN Tenants ELSE Providers

RequestOK(r) ==
  /\ req[r].step = "idle" => req[r].token = None
  /\ req[r].step # "idle" => req[r].token \in Tokens /\ row[req[r].token] # "none"
  /\ req[r].step = "mark" => req[r].token \in Links
  /\ req[r].step \in {"provider", "clean"} => req[r].token \in States
  /\ req[r].step \in {"mark", "clean", "sign"} => req[r].tenant = TenantOf(req[r].token)
  /\ req[r].step = "sign" /\ req[r].token \in Links => row[req[r].token] = "used"

RequestsOK == \A r \in Requests : RequestOK(r)

SignedOK == \A p \in tenants : row[p[1]] # "none" /\ p[2] = TenantOf(p[1])

HoldersExcused ==
  \A q, r \in Requests :
    q # r /\ req[q].token = req[r].token /\ req[r].token # None => req[r].token \in excused

SpentFirst ==
  \A k \in Tokens : k \notin excused =>
    /\ uses[k] > 0 => /\ uses[k] = 1 /\ row[k] \in {"used", "deleted"}
                      /\ \A r \in Requests : req[r].token # k
    /\ \A r \in Requests : req[r].step = "sign" /\ req[r].token = k =>
         row[k] \in {"used", "deleted"}

TokenInvariant ==
  TypeOK /\ SourcesOK /\ RequestsOK /\ SignedOK /\ HoldersExcused /\ SpentFirst

-----------------------------------------------------------------------------
LEMMA InitInvariant == Init => TokenInvariant
BY TokenParameters
   DEF Init, TokenInvariant, TypeOK, SourcesOK, RequestsOK, RequestOK, SignedOK,
       HoldersExcused, SpentFirst, Idle

(* A new row, of a link for a tenant or of a state for a provider. *)
LEMMA CreateStep ==
  ASSUME TokenInvariant, NEW k \in Tokens, NEW from, NEW life \in {LinkLife, StateLife},
         from \in IF k \in Links THEN Tenants ELSE Providers,
         Create(k, from, life)
  PROVE  TokenInvariant'
<1> USE DEF TokenInvariant
<1>1. /\ \A j \in Tokens : /\ row'[j] = IF j = k THEN "live" ELSE row[j]
                           /\ source'[j] = IF j = k THEN from ELSE source[j]
      /\ row[k] = "none"
      /\ UNCHANGED <<providers, now, req, uses, tenants, excused>>
  BY DEF TypeOK, Create, history
<1>2. TypeOK'
  <2>1. now + life \in 0..(MaxNow + LinkLife + StateLife)
    BY TokenParameters DEF TypeOK
  <2>2. from \in Sources \cup {None}
    BY DEF Sources
  <2> QED
    BY <2>1, <2>2 DEF TypeOK, Create, history
<1>3. SourcesOK'
  BY <1>1 DEF SourcesOK
<1>4. \A j \in Tokens : row[j] # "none" => TenantOf(j)' = TenantOf(j)
  BY <1>1 DEF TenantOf
<1>5. RequestsOK'
  <2> SUFFICES ASSUME NEW r \in Requests
               PROVE  RequestOK(r)'
    BY DEF RequestsOK
  <2>1. RequestOK(r) /\ req'[r] = req[r]
    BY <1>1 DEF RequestsOK
  <2>2. req[r].step # "idle" => req[r].token # k
    BY <1>1, <2>1 DEF RequestOK
  <2> QED
    BY <1>1, <1>4, <2>1, <2>2 DEF RequestOK
<1>6. SignedOK'
  <2> SUFFICES ASSUME NEW p \in tenants
               PROVE  row'[p[1]] # "none" /\ p[2] = TenantOf(p[1])'
    BY <1>1 DEF SignedOK
  <2>1. p[1] \in Tokens /\ row[p[1]] # "none" /\ p[2] = TenantOf(p[1])
    BY DEF TypeOK, SignedOK
  <2> QED
    BY <1>1, <1>4, <2>1
<1>7. HoldersExcused' /\ SpentFirst'
  BY <1>1 DEF HoldersExcused, SpentFirst
<1> QED
  BY <1>2, <1>3, <1>5, <1>6, <1>7

(* Request r goes on with a token that it found. *)
LEMMA PresentStep ==
  ASSUME TokenInvariant, NEW r \in Requests, NEW k \in Tokens, NEW t \in Tenants \cup {None},
         NEW step, Present(r, k, t, step), req[r].step = "idle", row[k] = "live",
         \/ step = "mark" /\ k \in Links /\ t = source[k]
         \/ step = "provider" /\ k \in States
  PROVE  TokenInvariant'
<1> USE DEF TokenInvariant
<1>1. /\ UNCHANGED <<row, source, expires, providers, now, uses, tenants>>
      /\ req' = [req EXCEPT ![r] = [step |-> step, token |-> k, tenant |-> t]]
      /\ \A q \in Requests : q # r => req'[q] = req[q]
      /\ req'[r] = [step |-> step, token |-> k, tenant |-> t]
      /\ excused' = excused \cup {j \in {k} : \E q \in Requests \ {r} : req[q].token = k}
  BY DEF TypeOK, Present, table
<1>2. TypeOK'
  BY <1>1 DEF TypeOK
<1>3. SourcesOK' /\ SignedOK'
  BY <1>1 DEF SourcesOK, SignedOK, TenantOf
<1>4. RequestsOK'
  <2> SUFFICES ASSUME NEW q \in Requests
               PROVE  RequestOK(q)'
    BY DEF RequestsOK
  <2>1. CASE q = r
    BY <1>1, <2>1 DEF RequestOK, TenantOf
  <2>2. CASE q # r
    BY <1>1, <2>2 DEF RequestsOK, RequestOK, TenantOf
  <2> QED
    BY <2>1, <2>2
<1>5. HoldersExcused'
  BY <1>1 DEF HoldersExcused
<1>6. SpentFirst'
  <2> SUFFICES ASSUME NEW j \in Tokens, j \notin excused'
               PROVE  /\ uses[j] > 0 => /\ uses[j] = 1 /\ row[j] \in {"used", "deleted"}
                                        /\ \A q \in Requests : req'[q].token # j
                      /\ \A q \in Requests : req'[q].step = "sign" /\ req'[q].token = j =>
                           row[j] \in {"used", "deleted"}
    BY <1>1 DEF SpentFirst
  <2>1. j \notin excused
    BY <1>1
  <2>2. uses[j] > 0 => j # k
    BY <2>1 DEF SpentFirst
  <2> QED
    BY <1>1, <2>1, <2>2 DEF SpentFirst
<1> QED
  BY <1>2, <1>3, <1>4, <1>5, <1>6

(* A row that is there is marked as used, for a link, or is deleted. *)
LEMMA SpendKeeps ==
  ASSUME TokenInvariant, NEW k \in Tokens, NEW final, row[k] # "none",
         row' = [row EXCEPT ![k] = final],
         final = IF k \in Links THEN "used" ELSE "deleted",
         UNCHANGED <<source, expires, providers, now, uses, tenants, excused>>
  PROVE  /\ row' \in [Tokens -> {"none", "live", "used", "deleted"}]
         /\ SourcesOK' /\ SignedOK'
         /\ \A j \in Tokens : /\ row[j] # "none" => row'[j] # "none"
                              /\ row[j] \in {"used", "deleted"} => row'[j] \in {"used", "deleted"}
                              /\ j \in Links /\ row[j] = "used" => row'[j] = "used"
                              /\ TenantOf(j)' = TenantOf(j)
         /\ row'[k] = final
<1> USE DEF TokenInvariant
<1>1. /\ row' \in [Tokens -> {"none", "live", "used", "deleted"}]
      /\ \A j \in Tokens : row'[j] = IF j = k THEN final ELSE row[j]
  BY DEF TypeOK
<1>2. SourcesOK'
  BY <1>1 DEF SourcesOK
<1>3. SignedOK'
  <2> SUFFICES ASSUME NEW p \in tenants
               PROVE  row'[p[1]] # "none" /\ p[2] = TenantOf(p[1])'
    BY DEF SignedOK
  <2>1. p[1] \in Tokens /\ row[p[1]] # "none" /\ p[2] = TenantOf(p[1])
    BY DEF TypeOK, SignedOK
  <2> QED
    BY <1>1, <2>1 DEF TenantOf
<1> QED
  BY <1>1, <1>2, <1>3 DEF TenantOf

(* MarkUsed, or a deletion that succeeded: request r goes on to its sign-in. *)
LEMMA SpendStep ==
  ASSUME TokenInvariant, NEW r \in Requests, req[r].step \in {"mark", "clean"},
         row' = [row EXCEPT ![req[r].token] =
                   IF req[r].token \in Links THEN "used" ELSE "deleted"],
         Goto(r, "sign"),
         UNCHANGED <<source, expires, providers, now, uses, tenants, excused>>
  PROVE  TokenInvariant'
<1> DEFINE k == req[r].token
           final == IF k \in Links THEN "used" ELSE "deleted"
<1>1. k \in Tokens /\ row[k] # "none" /\ RequestOK(r)
  BY DEF TokenInvariant, RequestsOK, RequestOK
<1>2. /\ row' \in [Tokens -> {"none", "live", "used", "deleted"}]
      /\ SourcesOK' /\ SignedOK'
      /\ \A j \in Tokens : /\ row[j] # "none" => row'[j] # "none"
                           /\ row[j] \in {"used", "deleted"} => row'[j] \in {"used", "deleted"}
                           /\ j \in Links /\ row[j] = "used" => row'[j] = "used"
                           /\ TenantOf(j)' = TenantOf(j)
      /\ row'[k] = final
  BY <1>1, SpendKeeps
<1>3. /\ req' = [req EXCEPT ![r].step = "sign"]
      /\ \A q \in Requests : /\ req'[q].token = req[q].token /\ req'[q].tenant = req[q].tenant
                             /\ q # r => req'[q] = req[q]
      /\ req'[r].step = "sign"
  BY DEF TokenInvariant, TypeOK, Goto
<1>4. TypeOK'
  BY <1>2, <1>3 DEF TokenInvariant, TypeOK
<1>5. RequestsOK'
  <2> SUFFICES ASSUME NEW q \in Requests
               PROVE  RequestOK(q)'
    BY DEF RequestsOK
  <2>1. RequestOK(q)
    BY DEF TokenInvariant, RequestsOK
  <2>2. CASE q = r
    BY <1>1, <1>2, <1>3, <2>2 DEF RequestOK
  <2>3. CASE q # r
    BY <1>2, <1>3, <2>1, <2>3 DEF RequestOK
  <2> QED
    BY <2>2, <2>3
<1>6. HoldersExcused'
  BY <1>3 DEF TokenInvariant, HoldersExcused
<1>7. SpentFirst'
  <2> SUFFICES ASSUME NEW j \in Tokens, j \notin excused
               PROVE  /\ uses[j] > 0 => /\ uses[j] = 1 /\ row'[j] \in {"used", "deleted"}
                                        /\ \A q \in Requests : req'[q].token # j
                      /\ \A q \in Requests : req'[q].step = "sign" /\ req'[q].token = j =>
                           row'[j] \in {"used", "deleted"}
    BY DEF SpentFirst
  <2>1. /\ uses[j] > 0 => /\ uses[j] = 1 /\ row[j] \in {"used", "deleted"}
                          /\ \A q \in Requests : req[q].token # j
        /\ \A q \in Requests : req[q].step = "sign" /\ req[q].token = j =>
             row[j] \in {"used", "deleted"}
    BY DEF TokenInvariant, SpentFirst
  <2> QED
    BY <1>2, <1>3, <2>1
<1> QED
  BY <1>2, <1>4, <1>5, <1>6, <1>7 DEF TokenInvariant

(* The other steps of a request. *)
LEMMA FindProviderStep ==
  ASSUME TokenInvariant, NEW r \in Requests, FindProvider(r)
  PROVE  TokenInvariant'
<1> USE DEF TokenInvariant
<1> DEFINE k == req[r].token
<1>1. /\ k \in States /\ k \in Tokens /\ row[k] # "none" /\ req[r].step = "provider"
      /\ UNCHANGED <<row, source, expires, providers, now, uses, tenants, excused>>
  BY DEF FindProvider, RequestsOK, RequestOK, table, history
<1>2. source[k] \in Providers /\ Owner[source[k]] \in Tenants /\ k \notin Links
  BY <1>1, TokenParameters DEF SourcesOK
<1>3. req' = [req EXCEPT ![r].step = "clean", ![r].tenant = Owner[source[k]]]
  BY DEF FindProvider
<1>4. /\ \A q \in Requests : req'[q].token = req[q].token /\ (q # r => req'[q] = req[q])
      /\ req'[r].step = "clean" /\ req'[r].tenant = Owner[source[k]]
  BY <1>3 DEF TypeOK
<1>5. TypeOK'
  <2>1. req' \in [Requests -> [step : {"idle", "mark", "provider", "clean", "sign"},
                                token : Tokens \cup {None}, tenant : Tenants \cup {None}]]
    <3>1. req[r] \in [step : {"idle", "mark", "provider", "clean", "sign"},
                      token : Tokens \cup {None}, tenant : Tenants \cup {None}]
      BY DEF TypeOK
    <3>2. [req[r] EXCEPT !.step = "clean", !.tenant = Owner[source[k]]] \in
             [step : {"idle", "mark", "provider", "clean", "sign"},
              token : Tokens \cup {None}, tenant : Tenants \cup {None}]
      BY <1>2, <3>1
    <3> QED
      BY <1>3, <3>2 DEF TypeOK
  <2> QED
    BY <1>1, <2>1 DEF TypeOK
<1>6. SourcesOK' /\ SignedOK' /\ HoldersExcused'
  <2>1. SourcesOK'
    BY <1>1 DEF SourcesOK
  <2>2. SignedOK'
    BY <1>1 DEF SignedOK, TenantOf
  <2>3. HoldersExcused'
    BY <1>1, <1>4 DEF HoldersExcused
  <2> QED
    BY <2>1, <2>2, <2>3
<1>7. RequestsOK'
  <2> SUFFICES ASSUME NEW q \in Requests
               PROVE  RequestOK(q)'
    BY DEF RequestsOK
  <2>1. CASE q = r
    BY <1>1, <1>2, <1>4, <2>1 DEF RequestOK, TenantOf
  <2>2. CASE q # r
    BY <1>1, <1>4, <2>2 DEF RequestsOK, RequestOK, TenantOf
  <2> QED
    BY <2>1, <2>2
<1>8. SpentFirst'
  <2> SUFFICES ASSUME NEW j \in Tokens, j \notin excused
               PROVE  /\ uses[j] > 0 => /\ uses[j] = 1 /\ row[j] \in {"used", "deleted"}
                                        /\ \A q \in Requests : req'[q].token # j
                      /\ \A q \in Requests : req'[q].step = "sign" /\ req'[q].token = j =>
                           row[j] \in {"used", "deleted"}
    BY <1>1 DEF SpentFirst
  <2>1. \A q \in Requests : req'[q].step = "sign" => q # r
    BY <1>4
  <2> QED
    BY <1>4, <2>1 DEF SpentFirst
<1> QED
  BY <1>5, <1>6, <1>7, <1>8

(* The deletion of a state failed: the state is excused. *)
LEMMA DeleteFailsStep ==
  ASSUME TokenInvariant, NEW r \in Requests, req[r].step = "clean",
         excused' = excused \cup {req[r].token}, Goto(r, "sign"),
         UNCHANGED <<row, source, expires, providers, now, uses, tenants>>
  PROVE  TokenInvariant'
<1> USE DEF TokenInvariant
<1> DEFINE k == req[r].token
<1>1. k \in States /\ k \in Tokens /\ k \notin Links /\ RequestOK(r)
  BY TokenParameters DEF RequestsOK, RequestOK
<1>2. /\ req' = [req EXCEPT ![r].step = "sign"]
      /\ \A q \in Requests : /\ req'[q].token = req[q].token /\ req'[q].tenant = req[q].tenant
                             /\ q # r => req'[q] = req[q]
      /\ req'[r].step = "sign"
  BY DEF TypeOK, Goto
<1>3. TypeOK'
  BY <1>1, <1>2 DEF TypeOK
<1>4. SourcesOK' /\ SignedOK' /\ HoldersExcused'
  <2>1. SourcesOK'
    BY DEF SourcesOK
  <2>2. SignedOK'
    BY DEF SignedOK, TenantOf
  <2>3. HoldersExcused'
    BY <1>2 DEF HoldersExcused
  <2> QED
    BY <2>1, <2>2, <2>3
<1>5. RequestsOK'
  <2> SUFFICES ASSUME NEW q \in Requests
               PROVE  RequestOK(q)'
    BY DEF RequestsOK
  <2>1. CASE q = r
    BY <1>1, <1>2, <2>1 DEF RequestOK, TenantOf
  <2>2. CASE q # r
    BY <1>2, <2>2 DEF RequestsOK, RequestOK, TenantOf
  <2> QED
    BY <2>1, <2>2
<1>6. SpentFirst'
  <2> SUFFICES ASSUME NEW j \in Tokens, j \notin excused'
               PROVE  /\ uses[j] > 0 => /\ uses[j] = 1 /\ row[j] \in {"used", "deleted"}
                                        /\ \A q \in Requests : req'[q].token # j
                      /\ \A q \in Requests : req'[q].step = "sign" /\ req'[q].token = j =>
                           row[j] \in {"used", "deleted"}
    BY DEF SpentFirst
  <2>1. j \notin excused /\ j # k
    OBVIOUS
  <2>2. \A q \in Requests : req'[q].step = "sign" /\ req'[q].token = j => q # r
    BY <1>2, <2>1
  <2> QED
    BY <1>2, <2>1, <2>2 DEF SpentFirst
<1> QED
  BY <1>3, <1>4, <1>5, <1>6

LEMMA EndType ==
  ASSUME TypeOK, NEW r \in Requests, End(r)
  PROVE  /\ req' \in [Requests -> [step : {"idle", "mark", "provider", "clean", "sign"},
                                   token : Tokens \cup {None}, tenant : Tenants \cup {None}]]
         /\ req'[r].step = "idle" /\ req'[r].token = None
         /\ \A q \in Requests : q # r => req'[q] = req[q]
BY DEF TypeOK, End, Idle

LEMMA SignInStep ==
  ASSUME TokenInvariant, NEW r \in Requests, SignIn(r)
  PROVE  TokenInvariant'
<1> USE DEF TokenInvariant
<1> DEFINE k == req[r].token
<1>1. /\ k \in Tokens /\ row[k] # "none" /\ req[r].step = "sign" /\ req[r].tenant = TenantOf(k)
      /\ UNCHANGED <<row, source, expires, providers, now, excused>>
      /\ tenants' = tenants \cup {<<k, req[r].tenant>>}
      /\ uses' = [uses EXCEPT ![k] = IF @ < 2 THEN @ + 1 ELSE @]
  BY DEF SignIn, RequestsOK, RequestOK, table
<1>2. /\ req' \in [Requests -> [step : {"idle", "mark", "provider", "clean", "sign"},
                                token : Tokens \cup {None}, tenant : Tenants \cup {None}]]
      /\ req'[r].step = "idle" /\ req'[r].token = None
      /\ \A q \in Requests : q # r => req'[q] = req[q]
  BY EndType DEF SignIn
<1>3. TenantOf(k) \in Tenants
  BY <1>1, TokenParameters DEF SourcesOK, TenantOf
<1>4. TypeOK'
  <2>1. uses' \in [Tokens -> 0..2]
    BY <1>1 DEF TypeOK
  <2>2. tenants' \in SUBSET (Tokens \X Tenants)
    BY <1>1, <1>3 DEF TypeOK
  <2> QED
    BY <1>1, <1>2, <2>1, <2>2 DEF TypeOK
<1>5. SourcesOK' /\ HoldersExcused'
  BY <1>1, <1>2 DEF SourcesOK, HoldersExcused
<1>6. SignedOK'
  BY <1>1 DEF SignedOK, TenantOf
<1>7. RequestsOK'
  BY <1>1, <1>2 DEF RequestsOK, RequestOK, TenantOf
<1>8. SpentFirst'
  <2> SUFFICES ASSUME NEW j \in Tokens, j \notin excused
               PROVE  /\ uses'[j] > 0 => /\ uses'[j] = 1 /\ row[j] \in {"used", "deleted"}
                                         /\ \A q \in Requests : req'[q].token # j
                      /\ \A q \in Requests : req'[q].step = "sign" /\ req'[q].token = j =>
                           row[j] \in {"used", "deleted"}
    BY <1>1 DEF SpentFirst
  <2>1. CASE j = k
    <3>1. uses[k] = 0
      BY <1>1, <2>1 DEF TypeOK, SpentFirst
    <3>2. uses'[k] = 1
      BY <1>1, <3>1 DEF TypeOK
    <3>3. \A q \in Requests : q # r => req[q].token # k
      BY <1>1, <2>1, TokenParameters DEF HoldersExcused
    <3>4. k # None
      BY <1>1, TokenParameters
    <3> QED
      BY <1>1, <1>2, <2>1, <3>2, <3>3, <3>4 DEF SpentFirst
  <2>2. CASE j # k
    <3>1. uses'[j] = uses[j]
      BY <1>1, <2>2 DEF TypeOK
    <3>2. j # None
      BY TokenParameters
    <3> QED
      BY <1>2, <3>1, <3>2 DEF SpentFirst
  <2> QED
    BY <2>1, <2>2
<1> QED
  BY <1>4, <1>5, <1>6, <1>7, <1>8

LEMMA FailStep ==
  ASSUME TokenInvariant, NEW r \in Requests, Fail(r)
  PROVE  TokenInvariant'
<1> USE DEF TokenInvariant
<1>1. UNCHANGED <<row, source, expires, providers, now, uses, tenants, excused>>
  BY DEF Fail, table, history
<1>2. /\ req' \in [Requests -> [step : {"idle", "mark", "provider", "clean", "sign"},
                                token : Tokens \cup {None}, tenant : Tenants \cup {None}]]
      /\ req'[r].step = "idle" /\ req'[r].token = None
      /\ \A q \in Requests : q # r => req'[q] = req[q]
  BY EndType DEF Fail
<1>3. TypeOK' /\ SourcesOK' /\ SignedOK'
  BY <1>1, <1>2 DEF TypeOK, SourcesOK, SignedOK, TenantOf
<1>4. RequestsOK'
  BY <1>1, <1>2 DEF RequestsOK, RequestOK, TenantOf
<1>5. HoldersExcused'
  BY <1>1, <1>2 DEF HoldersExcused
<1>6. SpentFirst'
  BY <1>1, <1>2, TokenParameters DEF SpentFirst
<1> QED
  BY <1>3, <1>4, <1>5, <1>6

(* Steps of the clock and of the administrator. *)
LEMMA OutsideStep ==
  ASSUME TokenInvariant, providers' \in SUBSET Providers, now' \in 0..MaxNow,
         UNCHANGED <<table, req, history>>
  PROVE  TokenInvariant'
<1> USE DEF TokenInvariant
<1>1. TypeOK' /\ SourcesOK' /\ SignedOK'
  BY DEF TypeOK, SourcesOK, SignedOK, TenantOf, table, history
<1>2. RequestsOK' /\ HoldersExcused' /\ SpentFirst'
  BY DEF RequestsOK, RequestOK, HoldersExcused, SpentFirst, TenantOf, table, history
<1> QED
  BY <1>1, <1>2

-----------------------------------------------------------------------------
(* Every action is one of the steps above. *)
LEMMA NextInvariant == TokenInvariant /\ [Next]_vars => TokenInvariant'
<1> SUFFICES ASSUME TokenInvariant, [Next]_vars
             PROVE  TokenInvariant'
  OBVIOUS
<1>1. providers \in SUBSET Providers /\ now \in 0..MaxNow /\ SourcesOK
  BY DEF TokenInvariant, TypeOK
<1>2. ASSUME NEW k \in Tokens, NEW t \in Tenants, SendMagicLink(k, t)
      PROVE  TokenInvariant'
  BY <1>2, CreateStep DEF SendMagicLink
<1>3. ASSUME NEW k \in Tokens, NEW p \in Providers, GetAuthURL(k, p)
      PROVE  TokenInvariant'
  BY <1>3, CreateStep, TokenParameters DEF GetAuthURL
<1>4. ASSUME NEW p \in Providers, RegisterProvider(p) \/ DeleteProvider(p)
      PROVE  TokenInvariant'
  BY <1>1, <1>4, OutsideStep DEF RegisterProvider, DeleteProvider
<1>5. ASSUME NEW r \in Requests, NEW k \in Tokens, FindByState(r, k)
      PROVE  TokenInvariant'
  <2>1. CASE Present(r, k, None, "provider")
    <3>1. req[r].step = "idle" /\ row[k] = "live" /\ k \in States
      BY <1>5 DEF FindByState, StateStored
    <3> QED
      BY <2>1, <3>1, PresentStep
  <2>2. CASE /\ row' = [row EXCEPT ![k] = "deleted"]
             /\ UNCHANGED <<source, expires, providers, now, req, history>>
    <3>1. /\ row[k] = "live" /\ k \notin Links
          /\ UNCHANGED <<source, expires, providers, now, uses, tenants, excused, req>>
      BY <1>5, <2>2, TokenParameters DEF FindByState, StateStored, history
    <3>2. /\ row' \in [Tokens -> {"none", "live", "used", "deleted"}]
          /\ SourcesOK' /\ SignedOK'
          /\ \A j \in Tokens : /\ row[j] # "none" => row'[j] # "none"
                               /\ row[j] \in {"used", "deleted"} => row'[j] \in {"used", "deleted"}
                               /\ j \in Links /\ row[j] = "used" => row'[j] = "used"
                               /\ TenantOf(j)' = TenantOf(j)
      BY <2>2, <3>1, SpendKeeps
    <3>3. TypeOK' /\ HoldersExcused'
      BY <3>1, <3>2 DEF TokenInvariant, TypeOK, HoldersExcused
    <3>4. RequestsOK'
      BY <3>1, <3>2 DEF TokenInvariant, RequestsOK, RequestOK
    <3>5. SpentFirst'
      BY <3>1, <3>2 DEF TokenInvariant, SpentFirst
    <3> QED
      BY <3>2, <3>3, <3>4, <3>5 DEF TokenInvariant
  <2> QED
    BY <1>5, <2>1, <2>2 DEF FindByState
<1>6. ASSUME NEW r \in Requests, NEW k \in Tokens, NEW t \in Tenants, VerifyMagicLink(r, k, t)
      PROVE  TokenInvariant'
  BY <1>6, PresentStep DEF VerifyMagicLink, FindByToken
<1>7. ASSUME NEW r \in Requests, MarkUsed(r)
      PROVE  TokenInvariant'
  <2>1. req[r].step = "mark" /\ req[r].token \in Links
    BY <1>7 DEF MarkUsed, TokenInvariant, RequestsOK, RequestOK
  <2>2. row' = [row EXCEPT ![req[r].token] =
                 IF req[r].token \in Links THEN "used" ELSE "deleted"]
    BY <1>7, <2>1 DEF MarkUsed
  <2>3. /\ Goto(r, "sign")
        /\ UNCHANGED <<source, expires, providers, now, uses, tenants, excused>>
    BY <1>7 DEF MarkUsed, history
  <2> QED
    BY <2>1, <2>2, <2>3, SpendStep
<1>8. ASSUME NEW r \in Requests, DeleteState(r)
      PROVE  TokenInvariant'
  <2>1. req[r].step = "clean" /\ req[r].token \notin Links
    BY <1>8, TokenParameters DEF DeleteState, TokenInvariant, RequestsOK, RequestOK
  <2>2. CASE row' = [row EXCEPT ![req[r].token] = "deleted"] /\ UNCHANGED excused
    <3>1. row' = [row EXCEPT ![req[r].token] =
                   IF req[r].token \in Links THEN "used" ELSE "deleted"]
      BY <2>1, <2>2
    <3>2. /\ Goto(r, "sign")
          /\ UNCHANGED <<source, expires, providers, now, uses, tenants, excused>>
      BY <1>8, <2>2 DEF DeleteState
    <3> QED
      BY <2>1, <3>1, <3>2, SpendStep
  <2>3. CASE excused' = excused \cup {req[r].token} /\ UNCHANGED row
    BY <1>8, <2>1, <2>3, DeleteFailsStep DEF DeleteState
  <2> QED
    BY <1>8, <2>2, <2>3 DEF DeleteState
<1>9. CASE Tick
  <2>1. now' \in 0..MaxNow
    BY <1>1, <1>9, TokenParameters DEF Tick
  <2> QED
    BY <1>1, <1>9, <2>1, OutsideStep DEF Tick
<1>10. CASE UNCHANGED vars
  BY <1>1, <1>10, OutsideStep DEF vars
<1> QED
  BY <1>2, <1>3, <1>4, <1>5, <1>6, <1>7, <1>8, <1>9, <1>10, FindProviderStep, SignInStep,
     FailStep DEF Next

(* The inductive invariant holds in every reachable state. *)
THEOREM TokenInvariantHolds == Spec => []TokenInvariant
BY InitInvariant, NextInvariant, PTL DEF Spec

(* However many requests present however many tokens, a token signs in once *)
(* unless two of them held it together or its deletion failed.              *)
THEOREM AlwaysOnceUnlessRaced == Spec => []OnceUnlessRaced
<1>1. TokenInvariant => OnceUnlessRaced
  BY DEF TokenInvariant, TypeOK, SpentFirst, OnceUnlessRaced
<1> QED
  BY <1>1, TokenInvariantHolds, PTL

(* Every sign-in is into the tenant of its token: of the link, or of the     *)
(* provider that the state was made for.                                     *)
THEOREM AlwaysSignInTenant == Spec => []SignInTenant
<1>1. TokenInvariant => SignInTenant
  BY DEF TokenInvariant, SignedOK, SignInTenant, TenantOf
<1> QED
  BY <1>1, TokenInvariantHolds, PTL

-----------------------------------------------------------------------------
(* The refinement mapping of OneTime, by name. *)
Spent == {k \in Tokens : row[k] # "none"} \ Fresh
Attempt == [r \in Requests |-> req[r].token]
Signed == {k \in Tokens : uses[k] > 0}

(* A step that the promise does not see. *)
Hidden == UNCHANGED <<Fresh, Spent, Attempt, Signed>>

LEMMA HiddenStutters == Hidden => UNCHANGED OneTime!vars
BY DEF Hidden, OneTime!vars, Spent, Attempt, Signed

(* Rows, clock and sign-ins that stay leave the tokens as they are. *)
LEMMA SameTokens ==
  ASSUME UNCHANGED <<row, expires, now>>
  PROVE  Fresh' = Fresh /\ Spent' = Spent
BY DEF Fresh, Spent, After

LEMMA SameSigned ==
  ASSUME UNCHANGED uses
  PROVE  Signed' = Signed
BY DEF Signed

(* A request whose token stays keeps its attempt. *)
LEMMA SameAttempt ==
  ASSUME \A r \in Requests : req'[r].token = req[r].token
  PROVE  Attempt' = Attempt
BY DEF Attempt

(* Marking or deleting a row spends its token, if it was fresh. *)
LEMMA SpendPromise ==
  ASSUME TypeOK, NEW k \in Tokens, row[k] # "none", NEW final \in {"used", "deleted"},
         row' = [row EXCEPT ![k] = final], UNCHANGED <<expires, now, uses>>,
         Attempt' = Attempt
  PROVE  (\E S \in SUBSET Tokens : OneTime!Spend(S)) \/ Hidden
<1>1. /\ \A j \in Tokens : row'[j] = IF j = k THEN final ELSE row[j]
      /\ Signed' = Signed
  BY SameSigned DEF TypeOK
<1>2. Fresh' = Fresh \ {k}
  BY <1>1 DEF Fresh, After
<1>3. Spent' = Spent \cup (Fresh \cap {k})
  BY <1>1, <1>2 DEF Spent, Fresh
<1>4. CASE k \in Fresh
  <2>1. OneTime!Spend({k})
    BY <1>1, <1>2, <1>3, <1>4 DEF OneTime!Spend, Spent, Attempt, Signed
  <2> QED
    BY <2>1
<1>5. CASE k \notin Fresh
  BY <1>1, <1>2, <1>3, <1>5 DEF Hidden
<1> QED
  BY <1>4, <1>5

(* A request that ends without a sign-in gives its attempt up. *)
LEMMA EndAttempt ==
  ASSUME TypeOK, NEW r \in Requests, End(r)
  PROVE  Attempt' = [Attempt EXCEPT ![r] = None]
<1>1. req'[r].token = None /\ \A q \in Requests : q # r => req'[q] = req[q]
  BY EndType
<1> QED
  BY <1>1 DEF Attempt

LEMMA PromiseInit == Init => OneTime!Init
<1> SUFFICES ASSUME Init
             PROVE  OneTime!Init
  OBVIOUS
<1>1. \A k \in Tokens : row[k] = "none" /\ uses[k] = 0
  BY DEF Init
<1>2. Fresh = {} /\ Spent = {} /\ Signed = {}
  BY <1>1 DEF Fresh, Spent, Signed
<1>3. Attempt = [r \in Requests |-> None]
  BY DEF Init, Idle, Attempt
<1> QED
  BY <1>2, <1>3 DEF OneTime!Init, Spent, Attempt, Signed

(* A new row issues its token, which is fresh at that instant. *)
LEMMA CreatePromise ==
  ASSUME TypeOK, NEW k \in Tokens, NEW from, NEW life \in Nat, Create(k, from, life)
  PROVE  OneTime!Issue(k)
<1>1. /\ \A j \in Tokens : /\ row'[j] = IF j = k THEN "live" ELSE row[j]
                           /\ expires'[j] = IF j = k THEN now + life ELSE expires[j]
      /\ row[k] = "none"
      /\ UNCHANGED <<now, req, uses>>
  BY DEF TypeOK, Create, history
<1>2. now \in Nat /\ ~(now > now + life)
  BY TokenParameters DEF TypeOK
<1>3. Fresh' = Fresh \cup {k}
  BY <1>1, <1>2 DEF Fresh, After
<1>4. Spent' = Spent /\ k \notin Fresh \cup Spent
  BY <1>1, <1>3 DEF Spent, Fresh
<1>5. Attempt' = Attempt /\ Signed' = Signed
  BY <1>1 DEF Attempt, Signed
<1> QED
  BY <1>3, <1>4, <1>5 DEF OneTime!Issue, Spent, Attempt, Signed

LEMMA PresentPromise ==
  ASSUME TokenInvariant, NEW r \in Requests, NEW k \in Tokens, NEW t, NEW step,
         Present(r, k, t, step), req[r].step = "idle", row[k] = "live", ~After(k)
  PROVE  OneTime!Admit(r, k)
<1>1. /\ Attempt' = [Attempt EXCEPT ![r] = k]
      /\ UNCHANGED <<row, expires, now, uses>>
  BY DEF TokenInvariant, TypeOK, Present, Attempt, table
<1>2. Attempt[r] = None
  BY DEF TokenInvariant, RequestsOK, RequestOK, Attempt
<1>3. k \in Fresh
  BY DEF Fresh
<1> QED
  BY <1>1, <1>2, <1>3, SameTokens, SameSigned DEF OneTime!Admit, Spent, Attempt, Signed

LEMMA SignInPromise ==
  ASSUME TokenInvariant, NEW r \in Requests, SignIn(r)
  PROVE  OneTime!SignIn(r)
<1> DEFINE k == req[r].token
<1>1. /\ k \in Tokens /\ k # None /\ req[r].step = "sign"
      /\ UNCHANGED <<row, expires, now>>
      /\ uses' = [uses EXCEPT ![k] = IF @ < 2 THEN @ + 1 ELSE @]
  BY TokenParameters DEF TokenInvariant, SignIn, RequestsOK, RequestOK, table
<1>2. Attempt[r] = k
  BY DEF Attempt
<1>3. Attempt' = [Attempt EXCEPT ![r] = None]
  BY EndAttempt DEF TokenInvariant, SignIn
<1>4. Signed' = Signed \cup {k}
  <2>1. \A j \in Tokens : uses'[j] > 0 <=> j = k \/ uses[j] > 0
    BY <1>1 DEF TokenInvariant, TypeOK
  <2> QED
    BY <1>1, <2>1 DEF Signed
<1>5. k \in Links => k \in Spent
  <2> SUFFICES ASSUME k \in Links
               PROVE  k \in Spent
    OBVIOUS
  <2>1. row[k] = "used"
    BY <1>1 DEF TokenInvariant, RequestsOK, RequestOK
  <2> QED
    BY <1>1, <2>1 DEF Spent, Fresh
<1> QED
  BY <1>1, <1>2, <1>3, <1>4, <1>5, SameTokens DEF OneTime!SignIn, Spent, Attempt, Signed

(* Time spends what expires. *)
LEMMA TickPromise ==
  ASSUME TypeOK, Tick
  PROVE  (\E S \in SUBSET Tokens : OneTime!Spend(S)) \/ Hidden
<1>1. /\ UNCHANGED <<row, expires, req, uses>>
      /\ now' \in Nat /\ now \in Nat /\ now' >= now
      /\ \A k \in Tokens : expires[k] \in Nat
  BY TokenParameters DEF TypeOK, Tick, table, history
<1>2. Fresh' \subseteq Fresh
  BY <1>1 DEF Fresh, After
<1>3. Attempt' = Attempt /\ Signed' = Signed
  BY <1>1 DEF Attempt, Signed
<1>4. Spent' = Spent \cup (Fresh \ Fresh')
  BY <1>1, <1>2 DEF Spent, Fresh
<1>5. PICK S \in SUBSET Tokens : S = Fresh \ Fresh'
  BY DEF Fresh
<1>6. CASE S = {}
  BY <1>2, <1>3, <1>4, <1>5, <1>6 DEF Hidden
<1>7. CASE S # {}
  <2>1. S \subseteq Fresh /\ Fresh' = Fresh \ S /\ Spent' = Spent \cup S
    BY <1>2, <1>4, <1>5
  <2>2. OneTime!Spend(S)
    BY <1>3, <1>7, <2>1 DEF OneTime!Spend, Spent, Attempt, Signed
  <2> QED
    BY <2>1, <2>2
<1> QED
  BY <1>6, <1>7

LEMMA PromiseStep == TokenInvariant /\ [Next]_vars => [OneTime!Next]_OneTime!vars
<1> SUFFICES ASSUME TokenInvariant, [Next]_vars
             PROVE  OneTime!Next \/ Hidden
  BY HiddenStutters
<1>1. TypeOK /\ RequestsOK
  BY DEF TokenInvariant
<1>2. ASSUME NEW k \in Tokens, NEW t \in Tenants, SendMagicLink(k, t)
      PROVE  OneTime!Next
  BY <1>1, <1>2, CreatePromise, TokenParameters DEF SendMagicLink, OneTime!Next
<1>3. ASSUME NEW k \in Tokens, NEW p \in Providers, GetAuthURL(k, p)
      PROVE  OneTime!Next
  BY <1>1, <1>3, CreatePromise, TokenParameters DEF GetAuthURL, OneTime!Next
<1>4. ASSUME NEW p \in Providers, RegisterProvider(p) \/ DeleteProvider(p)
      PROVE  Hidden
  <2>1. UNCHANGED <<row, expires, now, req, uses>>
    BY <1>4 DEF RegisterProvider, DeleteProvider, table, history
  <2> QED
    BY <2>1, SameTokens, SameSigned, SameAttempt DEF Hidden
<1>5. ASSUME NEW r \in Requests, NEW k \in Tokens, FindByState(r, k)
      PROVE  OneTime!Next \/ Hidden
  <2>1. req[r].step = "idle" /\ row[k] = "live"
    BY <1>5 DEF FindByState, StateStored
  <2>2. CASE ~After(k) /\ Present(r, k, None, "provider")
    <3>1. OneTime!Admit(r, k)
      BY <2>1, <2>2, PresentPromise
    <3> QED
      BY <3>1 DEF OneTime!Next
  <2>3. CASE /\ row' = [row EXCEPT ![k] = "deleted"]
             /\ UNCHANGED <<source, expires, providers, now, req, history>>
    <3>1. UNCHANGED <<expires, now, uses>> /\ Attempt' = Attempt
      BY <2>3 DEF history, Attempt
    <3>2. (\E S \in SUBSET Tokens : OneTime!Spend(S)) \/ Hidden
      BY <1>1, <2>1, <2>3, <3>1, SpendPromise
    <3> QED
      BY <3>2 DEF OneTime!Next
  <2> QED
    BY <1>5, <2>2, <2>3 DEF FindByState
<1>6. ASSUME NEW r \in Requests, NEW k \in Tokens, NEW t \in Tenants, VerifyMagicLink(r, k, t)
      PROVE  OneTime!Next
  <2>1. OneTime!Admit(r, k)
    BY <1>6, PresentPromise DEF VerifyMagicLink, FindByToken
  <2> QED
    BY <2>1 DEF OneTime!Next
<1>7. ASSUME NEW r \in Requests, MarkUsed(r) \/ DeleteState(r)
      PROVE  OneTime!Next \/ Hidden
  <2>1. /\ req[r].token \in Tokens /\ row[req[r].token] # "none"
        /\ Goto(r, "sign")
        /\ UNCHANGED <<expires, now, uses>>
    BY <1>1, <1>7 DEF MarkUsed, DeleteState, RequestsOK, RequestOK, history
  <2>2. Attempt' = Attempt
    BY <1>1, <2>1 DEF TypeOK, Goto, Attempt
  <2>3. CASE UNCHANGED row
    BY <2>1, <2>2, <2>3, SameTokens, SameSigned DEF Hidden
  <2>4. ASSUME NEW final \in {"used", "deleted"}, row' = [row EXCEPT ![req[r].token] = final]
        PROVE  OneTime!Next \/ Hidden
    <3>1. (\E S \in SUBSET Tokens : OneTime!Spend(S)) \/ Hidden
      BY <1>1, <2>1, <2>2, <2>4, SpendPromise
    <3> QED
      BY <3>1 DEF OneTime!Next
  <2> QED
    BY <1>7, <2>3, <2>4 DEF MarkUsed, DeleteState
<1>8. ASSUME NEW r \in Requests, FindProvider(r)
      PROVE  Hidden
  <2>1. /\ UNCHANGED <<row, expires, now, uses>>
        /\ \A q \in Requests : req'[q].token = req[q].token
    BY <1>1, <1>8 DEF TypeOK, FindProvider, table, history
  <2> QED
    BY <2>1, SameTokens, SameSigned, SameAttempt DEF Hidden
<1>9. ASSUME NEW r \in Requests, SignIn(r)
      PROVE  OneTime!Next
  BY <1>9, SignInPromise DEF OneTime!Next
<1>10. ASSUME NEW r \in Requests, Fail(r)
       PROVE  OneTime!Next
  <2>1. UNCHANGED <<row, expires, now, uses>> /\ End(r) /\ req[r].step # "idle"
    BY <1>10 DEF Fail, table, history
  <2>2. Attempt[r] # None /\ Attempt' = [Attempt EXCEPT ![r] = None]
    BY <1>1, <2>1, EndAttempt, TokenParameters DEF RequestsOK, RequestOK, Attempt
  <2>3. OneTime!GiveUp(r)
    BY <2>1, <2>2, SameTokens, SameSigned DEF OneTime!GiveUp, Spent, Attempt, Signed
  <2> QED
    BY <2>3 DEF OneTime!Next
<1>11. CASE Tick
  <2>1. (\E S \in SUBSET Tokens : OneTime!Spend(S)) \/ Hidden
    BY <1>1, <1>11, TickPromise
  <2> QED
    BY <2>1 DEF OneTime!Next
<1>12. CASE UNCHANGED vars
  <2>1. UNCHANGED <<row, expires, now, req, uses>>
    BY <1>12 DEF vars, table, history
  <2> QED
    BY <2>1, SameTokens, SameSigned, SameAttempt DEF Hidden
<1> QED
  BY <1>2, <1>3, <1>4, <1>5, <1>6, <1>7, <1>8, <1>9, <1>10, <1>11, <1>12 DEF Next

(* Links and states, however many requests present them and whatever fails, *)
(* are one-time tokens in the sense of OneTimeToken.                        *)
THEOREM PromiseKept == Spec => KeepsPromise
<1>1. Init => OneTime!Init
  BY PromiseInit
<1>2. TokenInvariant /\ [Next]_vars => [OneTime!Next]_OneTime!vars
  BY PromiseStep
<1> QED
  BY <1>1, <1>2, TokenInvariantHolds, PTL DEF Spec, KeepsPromise, OneTime!Spec
=============================================================================
