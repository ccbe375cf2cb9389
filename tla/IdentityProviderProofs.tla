----------------------- MODULE IdentityProviderProofs -----------------------
(***************************************************************************)
(* IdentityProvider, for any number of users, tenants, clients, codes and  *)
(* requests: tokens reach a tenant only where a sign-in or a registration  *)
(* put their subject, with scopes that somebody approved; a code is        *)
(* exchanged once unless it was raced; consents are single unless grants   *)
(* overlapped; and codes implement OneTimeToken.                           *)
(*                                                                         *)
(* The invariant has three parts, each kept by the steps that the others   *)
(* do not see.  ClaimsOK: whatever a request, a code or a token carries    *)
(* lies in a set of claims that only grows.  CodesOK: as in                *)
(* SignInTokensProofs.  ConsentsOK: what FindByUserAndClient found is      *)
(* still so when the consent is written, unless another grant of the pair  *)
(* was under way.                                                          *)
(***************************************************************************)
EXTENDS IdentityProvider, WellFoundedInduction, TLAPS

ClientRecord ==
  [row : {"none", "live", "deleted"}, tenant : Tenants \cup {None},
   scopes : Scopes \cup {None}, machine : BOOLEAN]
CodeRecord ==
  [row : {"none", "live", "deleted"}, claims : Claims \cup {None},
   expires : 0..(MaxNow + CodeLife)]
Slot ==
  [step : {"idle", "grant", "issue", "delete", "mint"}, claims : Claims \cup {None},
   client : Clients \cup {None}, remember : BOOLEAN, found : Rows \cup {0},
   code : Codes \cup {None}]

(* The claims whose tenant is one of their subject. *)
Reached ==
  {c \in Claims :
     IF c.sub \in Users
     THEN \E y \in tokens : y.login /\ y.claims.sub = c.sub /\ y.claims.tenant = c.tenant
     ELSE client[c.sub].row # "none" /\ c.tenant = client[c.sub].tenant}

(* Those that a request or a code may carry, and those of a token. *)
Carried == Reached \cap approved
Entitled ==
  Carried \cup {c \in Reached : IF c.sub \in Users THEN c.roles = Member
                                ELSE c.roles = client[c.sub].scopes}

ClientsOK ==
  \A c \in Clients : client[c].row # "none" =>
    client[c].tenant \in Tenants /\ client[c].scopes \in Scopes

PairOf(r) == <<req[r].claims.sub, req[r].client>>

RequestOK(r) ==
  /\ req[r].step \in {"idle", "grant", "issue"} => req[r].code = None
  /\ req[r].step = "grant" => req[r].client \in Clients /\ req[r].claims.roles \in Scopes
  /\ req[r].step \in {"delete", "mint"} =>
       req[r].code \in Codes /\ code[req[r].code].row # "none"

ClaimsOK ==
  /\ \A x \in tokens : x.claims \in Entitled
  /\ \A k \in Codes : code[k].row # "none" => code[k].claims \in Carried
  /\ \A r \in Requests : req[r].step # "idle" => req[r].claims \in Carried

DataOK == TypeOK /\ ClientsOK /\ ClaimsOK /\ \A r \in Requests : RequestOK(r)

HoldersExcused ==
  \A q, r \in Requests :
    q # r /\ req[q].code = req[r].code /\ req[r].code # None => req[r].code \in excused

SpentFirst ==
  \A k \in Codes : k \notin excused =>
    /\ uses[k] > 0 => /\ uses[k] = 1 /\ code[k].row = "deleted"
                      /\ \A r \in Requests : req[r].code # k
    /\ \A r \in Requests : req[r].step = "mint" /\ req[r].code = k => code[k].row = "deleted"

CodesOK == HoldersExcused /\ SpentFirst

(* Two grants of a pair under way at the same time make the pair crossed. *)
GrantsCrossed ==
  \A q, r \in Requests :
    q # r /\ req[q].step = "grant" /\ req[r].step = "grant" /\ PairOf(q) = PairOf(r) =>
      PairOf(r) \in crossed

(* The row that a grant found is one of its pair. *)
FoundOK ==
  \A r \in Requests : req[r].step = "grant" /\ req[r].found # 0 =>
    consent[req[r].found] \in Consents /\ consent[req[r].found].pair = PairOf(r)

(* Beside the row that a grant found there is none, or one that has expired. *)
AloneOrExpired ==
  \A r \in Requests : req[r].step = "grant" /\ PairOf(r) \notin crossed =>
    LET others == RowsOf(PairOf(r)) \ {req[r].found}
    IN  others = {} \/ \E h \in others : After(consent[h].expires)

ConsentsOK == GrantsCrossed /\ FoundOK /\ AloneOrExpired /\ OneConsent

ProviderInvariant == DataOK /\ CodesOK /\ ConsentsOK

-----------------------------------------------------------------------------
(* Facts about the parts. *)

LEMMA TypeParts ==
  TypeOK <=> /\ client \in [Clients -> ClientRecord]
             /\ consent \in [Rows -> Consents \cup {None}]
             /\ code \in [Codes -> CodeRecord]
             /\ tokens \in SUBSET [claims : Claims, login : BOOLEAN]
             /\ now \in 0..MaxNow
             /\ req \in [Requests -> Slot]
             /\ uses \in [Codes -> 0..2]
             /\ approved \in SUBSET Claims /\ excused \in SUBSET Codes
             /\ crossed \in SUBSET (Subjects \X Clients)
BY DEF TypeOK, ClientRecord, Consents, CodeRecord, Slot

(* A set of numbers has a least one. *)
LEMMA Least ==
  ASSUME NEW S, S \subseteq Nat, S # {}
  PROVE  \E m \in S : \A n \in S : m <= n
<1> DEFINE R == OpToRel(<, Nat)
<1>1. IsWellFoundedOn(R, Nat)
  BY NatLessThanWellFounded
<1> HIDE DEF R
<1>2. PICK m \in S : \A n \in S : <<n, m>> \notin R
  BY <1>1, WFMin
<1>3. ASSUME NEW n \in S
      PROVE  m <= n
  <2>1. n \in Nat /\ m \in Nat /\ <<n, m>> \notin R
    BY <1>2
  <2>2. n < m => <<n, m>> \in R
    BY <2>1 DEF R, OpToRel
  <2> QED
    BY <2>1, <2>2
<1> QED
  BY <1>3

(* FindByUserAndClient finds a row of the pair that has not expired, and    *)
(* nothing only if there is none or one has expired.                        *)
LEMMA FindsRow ==
  ASSUME TypeOK, NEW pair \in Subjects \X Clients
  PROVE  LET found == FindByUserAndClient(pair)
         IN  /\ found \in Rows \cup {0}
             /\ found # 0 => found \in RowsOf(pair) /\ ~After(consent[found].expires)
             /\ found = 0 => \/ RowsOf(pair) = {}
                             \/ \E h \in RowsOf(pair) : After(consent[h].expires)
<1> DEFINE S == RowsOf(pair)
           first == CHOOSE i \in S : \A j \in S : i <= j
<1>1. S \subseteq Rows /\ S \subseteq Nat \ {0}
  BY ProviderParameters DEF RowsOf
<1>2. CASE S = {}
  BY <1>2 DEF FindByUserAndClient
<1>3. CASE S # {}
  <2>1. \E i \in S : \A j \in S : i <= j
    BY <1>1, <1>3, Least
  <2>2. first \in S
    BY <2>1
  <2>3. FindByUserAndClient(pair) = IF After(consent[first].expires) THEN 0 ELSE first
    BY <1>3 DEF FindByUserAndClient
  <2> HIDE DEF S, first
  <2> QED
    BY <1>1, <2>2, <2>3 DEF S
<1> QED
  BY <1>2, <1>3

(* Clients that exist keep their row, tenant and scopes. *)
ClientsKept ==
  \A c \in Clients : client[c].row # "none" =>
    client'[c].row # "none" /\ client'[c].tenant = client[c].tenant
                            /\ client'[c].scopes = client[c].scopes

(* The sets of claims only grow. *)
LEMMA ClaimsGrow ==
  ASSUME TypeOK, tokens \subseteq tokens', approved \subseteq approved', ClientsKept
  PROVE  Reached \subseteq Reached' /\ Carried \subseteq Carried' /\ Entitled \subseteq Entitled'
<1>1. ASSUME NEW c \in Reached
      PROVE  c \in Reached' /\ (c.sub \notin Users => client'[c.sub].scopes = client[c.sub].scopes)
  <2>1. c \in Claims /\ c.sub \in Users \cup Clients
    BY <1>1 DEF Reached, Claims, Subjects
  <2> QED
    BY <1>1, <2>1 DEF Reached, ClientsKept
<1>2. Reached \subseteq Reached' /\ Carried \subseteq Carried'
  BY <1>1 DEF Carried
<1> QED
  BY <1>1, <1>2 DEF Entitled

(* Nothing changes but what these sets allow. *)
LEMMA ClaimsKept ==
  ASSUME DataOK, tokens \subseteq tokens', approved \subseteq approved', ClientsKept,
         \A x \in tokens' \ tokens : x.claims \in Entitled',
         \A k \in Codes : code'[k].row # "none" =>
           \/ code[k].row # "none" /\ code'[k].claims = code[k].claims
           \/ code'[k].claims \in Carried',
         \A r \in Requests : req'[r].step # "idle" =>
           \/ req[r].step # "idle" /\ req'[r].claims = req[r].claims
           \/ req'[r].claims \in Carried'
  PROVE  ClaimsOK'
<1>1. Reached \subseteq Reached' /\ Carried \subseteq Carried' /\ Entitled \subseteq Entitled'
  BY ClaimsGrow DEF DataOK
<1>2. ASSUME NEW x \in tokens'
      PROVE  x.claims \in Entitled'
  BY <1>1 DEF DataOK, ClaimsOK
<1>3. ASSUME NEW k \in Codes, code'[k].row # "none"
      PROVE  code'[k].claims \in Carried'
  BY <1>1, <1>3 DEF DataOK, ClaimsOK
<1>4. ASSUME NEW r \in Requests, req'[r].step # "idle"
      PROVE  req'[r].claims \in Carried'
  BY <1>1, <1>4 DEF DataOK, ClaimsOK
<1> QED
  BY <1>2, <1>3, <1>4 DEF ClaimsOK

(* Requests that stay, or end, keep what is said of them. *)
LEMMA RequestsKept ==
  ASSUME DataOK, NEW S \in SUBSET Requests,
         \A r \in Requests \ S : req'[r] = req[r] \/ req'[r] = Idle,
         \A k \in Codes : code[k].row # "none" => code'[k].row # "none"
  PROVE  \A r \in Requests \ S : RequestOK(r)'
<1> SUFFICES ASSUME NEW r \in Requests \ S
             PROVE  RequestOK(r)'
  OBVIOUS
<1>1. RequestOK(r)
  BY DEF DataOK
<1>2. CASE req'[r] = req[r]
  BY <1>1, <1>2 DEF RequestOK
<1>3. CASE req'[r] = Idle
  BY <1>3 DEF RequestOK, Idle
<1> QED
  BY <1>2, <1>3

(* Steps that exchange no code: used rows stay deleted, and requests take    *)
(* no code and come no closer to an exchange.                                *)
LEMMA CodesKept ==
  ASSUME CodesOK, UNCHANGED <<uses, excused>>,
         \A k \in Codes : code[k].row = "deleted" => code'[k].row = "deleted",
         \A r \in Requests : /\ req'[r].code \in {req[r].code, None}
                             /\ req'[r].step = "mint" => req[r].step = "mint"
  PROVE  CodesOK'
<1>1. HoldersExcused'
  BY DEF CodesOK, HoldersExcused
<1>2. SpentFirst'
  <2> SUFFICES ASSUME NEW k \in Codes, k \notin excused
               PROVE  /\ uses[k] > 0 => /\ uses[k] = 1 /\ code'[k].row = "deleted"
                                        /\ \A r \in Requests : req'[r].code # k
                      /\ \A r \in Requests : req'[r].step = "mint" /\ req'[r].code = k =>
                           code'[k].row = "deleted"
    BY DEF SpentFirst
  <2>1. k # None
    BY ProviderParameters
  <2> QED
    BY <2>1 DEF CodesOK, SpentFirst
<1> QED
  BY <1>1, <1>2 DEF CodesOK

(* Steps that write no consent and start no grant. *)
LEMMA ConsentsKept ==
  ASSUME TypeOK, ConsentsOK, UNCHANGED <<consent, crossed>>, now' \in 0..MaxNow, now' >= now,
         \A r \in Requests : req'[r].step = "grant" => req'[r] = req[r]
  PROVE  ConsentsOK'
<1>1. \A i \in Rows : consent[i] # None /\ After(consent[i].expires) => After(consent[i].expires)'
  <2> SUFFICES ASSUME NEW i \in Rows, consent[i] # None, now > consent[i].expires
               PROVE  now' > consent[i].expires
    BY DEF After
  <2>1. consent[i].expires \in 0..Never /\ now \in Nat /\ now' \in Nat
    BY ProviderParameters, TypeParts DEF Consents
  <2>2. consent[i].expires \in Int
    BY <2>1
  <2> QED
    BY <2>1, <2>2
<1>2. \A r \in Requests : req'[r].step = "grant" => PairOf(r)' = PairOf(r)
  BY DEF PairOf
<1>3. \A pair : RowsOf(pair)' = RowsOf(pair)
  BY DEF RowsOf
<1>4. GrantsCrossed'
  <2> SUFFICES ASSUME NEW q \in Requests, NEW r \in Requests, q # r, req'[q].step = "grant",
                      req'[r].step = "grant", PairOf(q)' = PairOf(r)'
               PROVE  PairOf(r)' \in crossed
    BY DEF GrantsCrossed
  <2> QED
    BY <1>2 DEF ConsentsOK, GrantsCrossed
<1>5. FoundOK'
  BY <1>2 DEF ConsentsOK, FoundOK
<1>6. AloneOrExpired'
  <2> SUFFICES ASSUME NEW r \in Requests, req'[r].step = "grant", PairOf(r)' \notin crossed
               PROVE  LET others == RowsOf(PairOf(r))' \ {req'[r].found}
                      IN  others = {} \/ \E h \in others : After(consent[h].expires)'
    BY DEF AloneOrExpired
  <2>1. PICK pair : pair = PairOf(r)
    OBVIOUS
  <2>2. PairOf(r)' = pair /\ req'[r] = req[r]
    BY <1>2, <2>1
  <2>3. RowsOf(PairOf(r))' = RowsOf(pair)
    BY <2>2 DEF RowsOf
  <2>4. LET others == RowsOf(pair) \ {req[r].found}
        IN  others = {} \/ \E h \in others : After(consent[h].expires)
    BY <2>1, <2>2 DEF ConsentsOK, AloneOrExpired
  <2>5. RowsOf(pair) \subseteq Rows /\ \A h \in RowsOf(pair) : consent[h] # None
    BY DEF RowsOf
  <2> QED
    BY <1>1, <2>2, <2>3, <2>4, <2>5
<1>7. OneConsent'
  <2> SUFFICES ASSUME NEW i \in Rows, NEW j \in Rows, i # j, consent[i] # None,
                      consent[j] # None, consent[i].pair = consent[j].pair,
                      consent[i].pair \notin crossed
               PROVE  \E h \in RowsOf(consent[i].pair)' : After(consent[h].expires)'
    BY DEF OneConsent
  <2>1. PICK h \in RowsOf(consent[i].pair) : After(consent[h].expires)
    BY DEF ConsentsOK, OneConsent
  <2>2. h \in Rows /\ consent[h] # None /\ h \in RowsOf(consent[i].pair)'
    BY DEF RowsOf
  <2> QED
    BY <1>1, <2>1, <2>2
<1> QED
  BY <1>4, <1>5, <1>6, <1>7 DEF ConsentsOK

-----------------------------------------------------------------------------
(* The steps. *)

LEMMA InitProvider == Init => ProviderInvariant
<1> SUFFICES ASSUME Init
             PROVE  ProviderInvariant
  OBVIOUS
<1>1. /\ \A r \in Requests : req[r] = Idle
      /\ \A c \in Clients : client[c].row = "none"
      /\ \A k \in Codes : code[k].row = "none" /\ uses[k] = 0
      /\ \A i \in Rows : consent[i] = None
      /\ tokens = {}
  BY DEF Init
<1>2. TypeOK
  <2>1. Idle \in Slot
    BY DEF Idle, Slot
  <2>2. 0 \in 0..MaxNow /\ 0 \in 0..(MaxNow + CodeLife) /\ 0 \in 0..2
    BY ProviderParameters
  <2> QED
    BY <2>1, <2>2, TypeParts DEF Init, ClientRecord, CodeRecord
<1>3. DataOK
  BY <1>1, <1>2 DEF DataOK, ClientsOK, ClaimsOK, RequestOK, Idle
<1>4. CodesOK
  BY <1>1 DEF CodesOK, HoldersExcused, SpentFirst, Idle
<1>5. ConsentsOK
  BY <1>1 DEF ConsentsOK, GrantsCrossed, FoundOK, AloneOrExpired, OneConsent, Idle
<1> QED
  BY <1>3, <1>4, <1>5 DEF ProviderInvariant

(* Steps of the clock, of the clients and of those who give tokens out.     *)
LEMMA OutsideStep ==
  ASSUME ProviderInvariant, UNCHANGED <<consent, code, req, history>>,
         client' \in [Clients -> ClientRecord], ClientsKept, ClientsOK',
         tokens' \in SUBSET [claims : Claims, login : BOOLEAN], tokens \subseteq tokens',
         \A x \in tokens' \ tokens : x.claims \in Entitled',
         now' \in 0..MaxNow, now' >= now
  PROVE  ProviderInvariant'
<1>1. UNCHANGED <<uses, approved, excused, crossed>>
  BY DEF history
<1>2. TypeOK'
  BY <1>1, TypeParts DEF ProviderInvariant, DataOK, TypeOK, ClientRecord
<1>3. ClaimsOK'
  BY <1>1, ClaimsKept DEF ProviderInvariant
<1>4. \A r \in Requests : RequestOK(r)'
  BY DEF ProviderInvariant, DataOK, RequestOK
<1>5. CodesOK'
  BY <1>1, CodesKept DEF ProviderInvariant
<1>6. ConsentsOK'
  BY <1>1, ConsentsKept DEF ProviderInvariant, DataOK
<1> QED
  BY <1>2, <1>3, <1>4, <1>5, <1>6 DEF ProviderInvariant, DataOK

(* Request r goes on to slot value s, or ends. *)
LEMMA SlotChanges ==
  ASSUME TypeOK, NEW r \in Requests, NEW s \in Slot, req' = [req EXCEPT ![r] = s]
  PROVE  /\ req' \in [Requests -> Slot]
         /\ req'[r] = s
         /\ \A q \in Requests : q # r => req'[q] = req[q]
<1>1. req \in [Requests -> Slot]
  BY TypeParts
<1> QED
  BY <1>1

LEMMA IdleSlot == Idle \in Slot
BY DEF Idle, Slot

LEMMA FailStep ==
  ASSUME ProviderInvariant, NEW r \in Requests, Fail(r)
  PROVE  ProviderInvariant'
<1>1. /\ UNCHANGED <<client, consent, code, tokens, now, uses, approved, excused, crossed>>
      /\ req' = [req EXCEPT ![r] = Idle]
  BY DEF Fail, End, history
<1>2. /\ TypeOK /\ req' \in [Requests -> Slot]
      /\ req'[r] = Idle
      /\ \A q \in Requests : q # r => req'[q] = req[q]
  BY <1>1, SlotChanges, IdleSlot DEF ProviderInvariant, DataOK
<1>3. TypeOK'
  BY <1>1, <1>2 DEF TypeOK, Slot
<1>4. ClientsOK' /\ ClaimsOK'
  <2>1. ClientsOK' /\ ClientsKept
    BY <1>1 DEF ProviderInvariant, DataOK, ClientsOK, ClientsKept
  <2>2. \A q \in Requests : req'[q].step # "idle" => req'[q] = req[q]
    BY <1>2 DEF Idle
  <2> QED
    BY <1>1, <2>1, <2>2, ClaimsKept DEF ProviderInvariant
<1>5. \A q \in Requests : RequestOK(q)'
  <2>1. \A q \in Requests \ {} : req'[q] = req[q] \/ req'[q] = Idle
    BY <1>2
  <2> QED
    BY <1>1, <2>1, RequestsKept DEF ProviderInvariant
<1>6. CodesOK'
  <2>1. \A q \in Requests : /\ req'[q].code \in {req[q].code, None}
                            /\ req'[q].step = "mint" => req[q].step = "mint"
    BY <1>2 DEF Idle
  <2> QED
    BY <1>1, <2>1, CodesKept DEF ProviderInvariant
<1>7. ConsentsOK'
  <2>1. \A q \in Requests : req'[q].step = "grant" => req'[q] = req[q]
    BY <1>2 DEF Idle
  <2>2. now' \in 0..MaxNow /\ now' >= now
    BY <1>1, <1>2, ProviderParameters DEF TypeOK
  <2> QED
    BY <1>1, <1>2, <2>1, <2>2, ConsentsKept DEF ProviderInvariant
<1> QED
  BY <1>3, <1>4, <1>5, <1>6, <1>7 DEF ProviderInvariant, DataOK

(* A grant starts: what it found is so now, and whoever is under way with    *)
(* the same pair makes it crossed.                                           *)
LEMMA ConsentStep ==
  ASSUME ProviderInvariant, NEW r \in Requests, NEW x \in tokens, NEW c \in Clients,
         NEW S \in Scopes, NEW remember \in BOOLEAN, Consent(r, x, c, S, remember)
  PROVE  ProviderInvariant'
<1> DEFINE pair == <<x.claims.sub, c>>
           claims == [x.claims EXCEPT !.roles = S]
           found == FindByUserAndClient(pair)
           s == [Idle EXCEPT !.step = "grant", !.claims = claims, !.client = c,
                             !.remember = remember, !.found = found]
<1>1. /\ UNCHANGED <<client, consent, code, tokens, now, uses, excused>>
      /\ req' = [req EXCEPT ![r] = s]
      /\ approved' = approved \cup {claims}
      /\ crossed' = crossed \cup {p \in {pair} : \E q \in Requests \ {r} :
                                    req[q].step = "grant" /\ PairOf(q) = p}
      /\ req[r].step = "idle"
  BY DEF Consent, Approve, PairOf
<1>2. /\ TypeOK /\ DataOK /\ ConsentsOK
      /\ x.claims \in Entitled /\ x.claims \in Reached /\ x.claims \in Claims
  BY DEF ProviderInvariant, DataOK, ClaimsOK, Entitled, Carried, Reached
<1>3. claims \in Claims /\ claims.sub = x.claims.sub /\ claims.tenant = x.claims.tenant
      /\ claims.roles = S /\ claims \in Reached
  BY <1>2 DEF Claims, Reached
<1>4. /\ pair \in Subjects \X Clients
      /\ found \in Rows \cup {0}
      /\ found # 0 => found \in RowsOf(pair) /\ ~After(consent[found].expires)
      /\ found = 0 => \/ RowsOf(pair) = {}
                      \/ \E h \in RowsOf(pair) : After(consent[h].expires)
  <2>1. pair \in Subjects \X Clients
    BY <1>2 DEF Claims
  <2> QED
    BY <1>2, <2>1, FindsRow
<1> HIDE DEF found
<1>5. /\ s \in Slot /\ s.step = "grant" /\ s.claims = claims /\ s.client = c
      /\ s.code = None /\ s.found = found
  BY <1>3, <1>4 DEF Idle, Slot
<1> HIDE DEF s, claims
<1>6. /\ req' \in [Requests -> Slot]
      /\ req'[r] = s
      /\ \A q \in Requests : q # r => req'[q] = req[q]
  BY <1>1, <1>2, <1>5, SlotChanges
<1>7. TypeOK'
  <2>1. approved' \in SUBSET Claims /\ crossed' \in SUBSET (Subjects \X Clients)
    BY <1>1, <1>2, <1>3, <1>4 DEF TypeOK
  <2> QED
    BY <1>1, <1>2, <1>6, <2>1 DEF TypeOK, Slot
<1>8. ClientsOK' /\ ClaimsOK'
  <2>1. ClientsOK' /\ ClientsKept
    BY <1>1, <1>2 DEF DataOK, ClientsOK, ClientsKept
  <2>2. claims \in Carried'
    BY <1>1, <1>3 DEF Carried, Reached
  <2>3. \A q \in Requests : req'[q].step # "idle" =>
          (req[q].step # "idle" /\ req'[q].claims = req[q].claims) \/ req'[q].claims \in Carried'
    BY <1>5, <1>6, <2>2
  <2> QED
    BY <1>1, <1>2, <2>1, <2>3, ClaimsKept
<1>9. \A q \in Requests : RequestOK(q)'
  <2>1. \A q \in Requests \ {r} : RequestOK(q)'
    BY <1>1, <1>2, <1>6, RequestsKept
  <2>2. RequestOK(r)'
    BY <1>3, <1>5, <1>6 DEF RequestOK
  <2> QED
    BY <2>1, <2>2
<1>10. CodesOK'
  <2>1. \A q \in Requests : /\ req'[q].code \in {req[q].code, None}
                            /\ req'[q].step = "mint" => req[q].step = "mint"
    BY <1>5, <1>6
  <2> QED
    BY <1>1, <2>1, CodesKept DEF ProviderInvariant
<1>11. /\ PairOf(r)' = pair
       /\ \A q \in Requests : q # r => PairOf(q)' = PairOf(q)
  BY <1>3, <1>5, <1>6 DEF PairOf
<1>12. GrantsCrossed'
  <2> SUFFICES ASSUME NEW p \in Requests, NEW q \in Requests, p # q, req'[p].step = "grant",
                      req'[q].step = "grant", PairOf(p)' = PairOf(q)'
               PROVE  PairOf(q)' \in crossed'
    BY DEF GrantsCrossed
  <2>1. CASE p # r /\ q # r
    BY <1>1, <1>2, <1>6, <1>11, <2>1 DEF ConsentsOK, GrantsCrossed
  <2>2. CASE p = r
    BY <1>1, <1>6, <1>11, <2>2
  <2>3. CASE q = r
    BY <1>1, <1>6, <1>11, <2>3
  <2> QED
    BY <2>1, <2>2, <2>3
<1>13. FoundOK'
  <2> SUFFICES ASSUME NEW q \in Requests, req'[q].step = "grant", req'[q].found # 0
               PROVE  /\ consent[req'[q].found] \in Consents
                      /\ consent[req'[q].found].pair = PairOf(q)'
    BY <1>1 DEF FoundOK
  <2>1. CASE q = r
    <3>1. found \in RowsOf(pair)
      BY <1>4, <1>5, <1>6, <2>1
    <3>2. consent[found] \in Consents /\ consent[found].pair = pair
      BY <1>2, <3>1, TypeParts DEF RowsOf
    <3> QED
      BY <1>5, <1>6, <1>11, <2>1, <3>2
  <2>2. CASE q # r
    BY <1>2, <1>6, <1>11, <2>2 DEF ConsentsOK, FoundOK
  <2> QED
    BY <2>1, <2>2
<1>14. OneConsent'
  BY <1>1, <1>2 DEF ConsentsOK, OneConsent, RowsOf, After
<1>15. AloneOrExpired'
  <2> SUFFICES ASSUME NEW q \in Requests, req'[q].step = "grant", PairOf(q)' \notin crossed'
               PROVE  LET others == RowsOf(PairOf(q))' \ {req'[q].found}
                      IN  others = {} \/ \E h \in others : After(consent[h].expires)'
    BY DEF AloneOrExpired
  <2>1. \A t : After(t) => now' > t
    BY <1>1 DEF After
  <2>2. PICK p : p = PairOf(q)'
    OBVIOUS
  <2>3. RowsOf(PairOf(q))' = RowsOf(p)
    BY <1>1, <2>2 DEF RowsOf
  <2>4. CASE q # r
    <3>1. /\ req'[q] = req[q] /\ PairOf(q) = p /\ p \notin crossed
      BY <1>1, <1>6, <1>11, <2>2, <2>4
    <3>2. LET others == RowsOf(p) \ {req[q].found}
          IN  others = {} \/ \E h \in others : After(consent[h].expires)
      BY <1>2, <3>1 DEF ConsentsOK, AloneOrExpired
    <3> QED
      BY <1>1, <2>3, <3>1, <3>2 DEF After
  <2>5. CASE q = r
    <3>1. p = pair /\ req'[q].found = found /\ p \notin crossed
      BY <1>1, <1>5, <1>6, <1>11, <2>2, <2>5
    <3>2. RowsOf(p) \subseteq Rows /\ 0 \notin Rows
      BY ProviderParameters DEF RowsOf
    <3>3. LET others == RowsOf(p) \ {found}
          IN  others = {} \/ \E h \in others : After(consent[h].expires)
      <4>1. CASE found = 0
        BY <1>4, <3>1, <3>2, <4>1
      <4>2. CASE found # 0
        <5>1. found \in RowsOf(p) /\ ~After(consent[found].expires)
          BY <1>4, <3>1, <4>2
        <5>2. ASSUME NEW j \in RowsOf(p) \ {found}
              PROVE  \E h \in RowsOf(p) \ {found} : After(consent[h].expires)
          <6>1. /\ found \in Rows /\ j \in Rows /\ found # j
                /\ consent[found] # None /\ consent[found].pair = p
                /\ consent[j] # None /\ consent[j].pair = p
            BY <5>1 DEF RowsOf
          <6>2. PICK h \in RowsOf(p) : After(consent[h].expires)
            BY <1>2, <3>1, <6>1 DEF ConsentsOK, OneConsent
          <6> QED
            BY <5>1, <6>2
        <5> QED
          BY <5>2
      <4> QED
        BY <4>1, <4>2
    <3> QED
      BY <1>1, <2>3, <3>1, <3>3 DEF After
  <2> QED
    BY <2>4, <2>5
<1> QED
  BY <1>2, <1>7, <1>8, <1>9, <1>10, <1>12, <1>13, <1>14, <1>15
     DEF ProviderInvariant, DataOK, ConsentsOK

(* A grant writes row i: the one it found, or a new one.                     *)
LEMMA GrantedStep ==
  ASSUME ProviderInvariant, NEW r \in Requests, NEW i \in Rows, NEW expires \in 0..Never,
         req[r].step = "grant", Granted(r, i, expires),
         \/ req[r].found = 0 /\ consent[i] = None
         \/ req[r].found # 0 /\ req[r].found = i
  PROVE  ProviderInvariant'
<1> DEFINE pair == PairOf(r)
           s == [req[r] EXCEPT !.step = "issue"]
<1>1. /\ UNCHANGED <<client, code, tokens, now, uses, approved, excused, crossed>>
      /\ req' = [req EXCEPT ![r] = s]
      /\ consent' = [consent EXCEPT ![i] = ConsentRow(r, expires)]
  <2>1. req' = [req EXCEPT ![r].step = "issue"]
    BY DEF Granted
  <2> QED
    BY <2>1 DEF Granted, history
<1>2. /\ TypeOK /\ DataOK /\ ConsentsOK /\ RequestOK(r)
      /\ req[r].claims \in Carried /\ req[r].claims \in Claims
      /\ req[r] \in Slot
  BY TypeParts DEF ProviderInvariant, DataOK, ClaimsOK, Carried, Reached
<1>3. /\ s \in Slot /\ s.step = "issue" /\ s.claims = req[r].claims /\ s.client = req[r].client
      /\ s.code = req[r].code
  BY <1>2 DEF Slot
<1> HIDE DEF s
<1>4. /\ req' \in [Requests -> Slot]
      /\ req'[r] = s
      /\ \A q \in Requests : q # r => req'[q] = req[q]
  BY <1>1, <1>2, <1>3, SlotChanges
<1>5. /\ pair \in Subjects \X Clients
      /\ ConsentRow(r, expires) \in Consents /\ ConsentRow(r, expires).pair = pair
  BY <1>2 DEF ConsentRow, PairOf, Consents, RequestOK, Claims
<1>6. /\ consent' \in [Rows -> Consents \cup {None}]
      /\ consent'[i] \in Consents /\ consent'[i] # None /\ consent'[i].pair = pair
      /\ \A j \in Rows : j # i => consent'[j] = consent[j]
      /\ consent[i] # None => consent[i].pair = pair
  <2>1. consent \in [Rows -> Consents \cup {None}] /\ None \notin Consents
    BY <1>2, TypeParts, ProviderParameters
  <2>2. consent[i] # None => consent[i].pair = pair
    BY <1>2 DEF ConsentsOK, FoundOK
  <2> QED
    BY <1>1, <1>5, <2>1, <2>2
<1>7. TypeOK'
  BY <1>1, <1>2, <1>4, <1>6 DEF TypeOK, Slot
<1>8. ClientsOK' /\ ClaimsOK'
  <2>1. ClientsOK' /\ ClientsKept
    BY <1>1, <1>2 DEF DataOK, ClientsOK, ClientsKept
  <2>2. \A q \in Requests : req'[q].step # "idle" =>
          req[q].step # "idle" /\ req'[q].claims = req[q].claims
    BY <1>3, <1>4
  <2> QED
    BY <1>1, <1>2, <2>1, <2>2, ClaimsKept
<1>9. \A q \in Requests : RequestOK(q)'
  <2>1. \A q \in Requests \ {r} : RequestOK(q)'
    BY <1>1, <1>2, <1>4, RequestsKept
  <2>2. RequestOK(r)'
    BY <1>2, <1>3, <1>4 DEF RequestOK
  <2> QED
    BY <2>1, <2>2
<1>10. CodesOK'
  <2>1. \A q \in Requests : /\ req'[q].code \in {req[q].code, None}
                            /\ req'[q].step = "mint" => req[q].step = "mint"
    BY <1>3, <1>4
  <2> QED
    BY <1>1, <2>1, CodesKept DEF ProviderInvariant
<1>11. \A q \in Requests : req'[q].step = "grant" =>
         q # r /\ req'[q] = req[q] /\ PairOf(q)' = PairOf(q)
  BY <1>3, <1>4 DEF PairOf
<1>12. GrantsCrossed'
  <2> SUFFICES ASSUME NEW p \in Requests, NEW q \in Requests, p # q, req'[p].step = "grant",
                      req'[q].step = "grant", PairOf(p)' = PairOf(q)'
               PROVE  PairOf(q)' \in crossed'
    BY DEF GrantsCrossed
  <2> QED
    BY <1>1, <1>2, <1>11 DEF ConsentsOK, GrantsCrossed
<1>13. FoundOK'
  <2> SUFFICES ASSUME NEW q \in Requests, req'[q].step = "grant", req'[q].found # 0
               PROVE  /\ consent'[req'[q].found] \in Consents
                      /\ consent'[req'[q].found].pair = PairOf(q)'
    BY DEF FoundOK
  <2>1. /\ req'[q] = req[q] /\ PairOf(q)' = PairOf(q)
        /\ req[q].found \in Rows
        /\ consent[req[q].found] \in Consents /\ consent[req[q].found].pair = PairOf(q)
    BY <1>2, <1>11, TypeParts DEF ConsentsOK, FoundOK, Slot
  <2>2. consent[req[q].found] # None
    BY <2>1, ProviderParameters
  <2> QED
    BY <1>6, <2>1, <2>2
<1>14. \A p : p # pair => RowsOf(p)' = RowsOf(p) /\ i \notin RowsOf(p)
  BY <1>6 DEF RowsOf
<1>15. AloneOrExpired'
  <2> SUFFICES ASSUME NEW q \in Requests, req'[q].step = "grant", PairOf(q)' \notin crossed'
               PROVE  LET others == RowsOf(PairOf(q))' \ {req'[q].found}
                      IN  others = {} \/ \E h \in others : After(consent[h].expires)'
    BY DEF AloneOrExpired
  <2>1. PICK p : p = PairOf(q)
    OBVIOUS
  <2>2. /\ PairOf(q)' = p /\ req'[q] = req[q] /\ q # r /\ p \notin crossed
        /\ req[q].step = "grant"
    BY <1>1, <1>11, <2>1
  <2>3. p # pair
    BY <1>2, <2>1, <2>2 DEF ConsentsOK, GrantsCrossed
  <2>4. RowsOf(PairOf(q))' = RowsOf(p)'
    BY <2>2 DEF RowsOf
  <2>5. RowsOf(p)' = RowsOf(p) /\ i \notin RowsOf(p) /\ RowsOf(p) \subseteq Rows
    BY <1>14, <2>3 DEF RowsOf
  <2>6. LET others == RowsOf(p) \ {req[q].found}
        IN  others = {} \/ \E h \in others : After(consent[h].expires)
    BY <1>2, <2>1, <2>2 DEF ConsentsOK, AloneOrExpired
  <2>7. \A h \in RowsOf(p) : After(consent[h].expires) => After(consent[h].expires)'
    BY <1>1, <1>6, <2>5 DEF After
  <2> QED
    BY <2>2, <2>4, <2>5, <2>6, <2>7
<1>16. OneConsent'
  <2> SUFFICES ASSUME NEW a \in Rows, NEW b \in Rows, a # b, consent'[a] # None,
                      consent'[b] # None, consent'[a].pair = consent'[b].pair,
                      consent'[a].pair \notin crossed
               PROVE  \E h \in RowsOf(consent[a].pair)' : After(consent[h].expires)'
    BY <1>1 DEF OneConsent
  <2>1. PICK p : p = consent'[a].pair
    OBVIOUS
  <2>2. a \in RowsOf(p)' /\ b \in RowsOf(p)' /\ RowsOf(consent[a].pair)' = RowsOf(p)'
    BY <2>1 DEF RowsOf
  <2>3. \E h \in RowsOf(p) \ {i} : After(consent[h].expires)
    <3>1. CASE p # pair
      <4>1. a \in RowsOf(p) /\ b \in RowsOf(p) /\ i \notin RowsOf(p)
        BY <1>14, <2>2, <3>1
      <4>2. \E h \in RowsOf(p) : After(consent[h].expires)
        BY <1>2, <2>1, <4>1 DEF ConsentsOK, OneConsent, RowsOf
      <4> QED
        BY <4>1, <4>2
    <3>2. CASE p = pair
      <4>1. PICK j \in {a, b} : j # i
        OBVIOUS
      <4>2. j \in RowsOf(p) /\ j # req[r].found
        BY <1>6, <2>2, <4>1, ProviderParameters DEF RowsOf
      <4>3. PICK h \in RowsOf(p) \ {req[r].found} : After(consent[h].expires)
        BY <1>2, <2>1, <3>2, <4>2 DEF ConsentsOK, AloneOrExpired
      <4>4. h # i
        BY <4>3 DEF RowsOf
      <4> QED
        BY <4>3, <4>4
    <3> QED
      BY <3>1, <3>2
  <2>4. PICK h \in RowsOf(p) \ {i} : After(consent[h].expires)
    BY <2>3
  <2>5. h \in RowsOf(p)' /\ After(consent[h].expires)'
    BY <1>1, <1>6, <2>4 DEF RowsOf, After
  <2> QED
    BY <2>2, <2>5
<1> QED
  BY <1>2, <1>7, <1>8, <1>9, <1>10, <1>12, <1>13, <1>15, <1>16
     DEF ProviderInvariant, DataOK, ConsentsOK

-----------------------------------------------------------------------------
(* The steps of a code. *)

(* What the steps of a request with a code leave alone. *)
LEMMA ConsentsUnseen ==
  ASSUME ProviderInvariant, UNCHANGED <<consent, crossed, now>>, NEW r \in Requests,
         \A q \in Requests : q # r => req'[q] = req[q], req'[r].step # "grant"
  PROVE  ConsentsOK'
<1>1. now' \in 0..MaxNow /\ now' >= now
  BY ProviderParameters DEF ProviderInvariant, DataOK, TypeOK
<1>2. \A q \in Requests : req'[q].step = "grant" => req'[q] = req[q]
  OBVIOUS
<1> QED
  BY <1>1, <1>2, ConsentsKept DEF ProviderInvariant, DataOK

LEMMA IssueStep ==
  ASSUME ProviderInvariant, NEW r \in Requests, NEW k \in Codes, IssueAuthCode(r, k)
  PROVE  ProviderInvariant'
<1>1. /\ UNCHANGED <<client, consent, tokens, now, uses, approved, excused, crossed>>
      /\ req' = [req EXCEPT ![r] = Idle]
      /\ code' = [code EXCEPT ![k] = CodeRow(req[r].claims)]
      /\ code[k].row = "none" /\ req[r].step = "issue"
  BY DEF IssueAuthCode, End, history
<1>2. /\ TypeOK /\ DataOK /\ req' \in [Requests -> Slot]
      /\ req'[r] = Idle
      /\ \A q \in Requests : q # r => req'[q] = req[q]
      /\ req[r].claims \in Carried /\ req[r].claims \in Claims
  BY <1>1, SlotChanges, IdleSlot DEF ProviderInvariant, DataOK, ClaimsOK, Carried, Reached
<1>3. /\ code' \in [Codes -> CodeRecord]
      /\ code'[k].row = "live" /\ code'[k].claims = req[r].claims
      /\ \A j \in Codes : j # k => code'[j] = code[j]
  <2>1. now + CodeLife \in 0..(MaxNow + CodeLife)
    BY <1>2, ProviderParameters DEF TypeOK
  <2>2. CodeRow(req[r].claims) \in CodeRecord
    BY <1>2, <2>1 DEF CodeRow, CodeRecord
  <2>3. code \in [Codes -> CodeRecord]
    BY <1>2, TypeParts
  <2> QED
    BY <1>1, <2>2, <2>3 DEF CodeRow
<1>4. TypeOK'
  BY <1>1, <1>2, <1>3 DEF TypeOK, Slot, CodeRecord
<1>5. ClientsOK' /\ ClaimsOK'
  <2>1. ClientsOK' /\ ClientsKept
    BY <1>1, <1>2 DEF DataOK, ClientsOK, ClientsKept
  <2>2. Carried' = Carried
    BY <1>1 DEF Carried, Reached
  <2>3. \A j \in Codes : code'[j].row # "none" =>
          (code[j].row # "none" /\ code'[j].claims = code[j].claims) \/ code'[j].claims \in Carried'
    BY <1>2, <1>3, <2>2
  <2>4. \A q \in Requests : req'[q].step # "idle" => req'[q] = req[q]
    BY <1>2 DEF Idle
  <2> QED
    BY <1>1, <1>2, <2>1, <2>3, <2>4, ClaimsKept
<1>6. \A q \in Requests : RequestOK(q)'
  <2>1. \A q \in Requests \ {} : req'[q] = req[q] \/ req'[q] = Idle
    BY <1>2
  <2>2. \A j \in Codes : code[j].row # "none" => code'[j].row # "none"
    BY <1>3
  <2> QED
    BY <1>2, <2>1, <2>2, RequestsKept
<1>7. CodesOK'
  <2>1. \A q \in Requests : /\ req'[q].code \in {req[q].code, None}
                            /\ req'[q].step = "mint" => req[q].step = "mint"
    BY <1>2 DEF Idle
  <2>2. \A j \in Codes : code[j].row = "deleted" => code'[j].row = "deleted"
    BY <1>1, <1>3
  <2> QED
    BY <1>1, <2>1, <2>2, CodesKept DEF ProviderInvariant
<1>8. ConsentsOK'
  BY <1>1, <1>2, ConsentsUnseen DEF Idle
<1> QED
  BY <1>2, <1>4, <1>5, <1>6, <1>7, <1>8 DEF ProviderInvariant, DataOK

(* A row that is there is deleted, by request r or by nobody. *)
LEMMA RowDeleted ==
  ASSUME ProviderInvariant, NEW k \in Codes, code[k].row # "none",
         code' = [code EXCEPT ![k].row = "deleted"], UNCHANGED <<client, tokens, approved>>,
         req' \in [Requests -> Slot],
         \A q \in Requests :
           \/ req'[q].step # "idle" /\ req[q].step # "idle" /\ req'[q].claims = req[q].claims
           \/ req'[q] = req[q]
  PROVE  /\ code' \in [Codes -> CodeRecord]
         /\ ClientsOK' /\ ClaimsOK'
         /\ code'[k].row = "deleted"
         /\ \A j \in Codes : j # k => code'[j] = code[j]
<1>1. code \in [Codes -> CodeRecord]
  BY TypeParts DEF ProviderInvariant, DataOK
<1>2. [code[k] EXCEPT !.row = "deleted"] \in CodeRecord
  BY <1>1 DEF CodeRecord
<1>3. /\ code' \in [Codes -> CodeRecord]
      /\ code'[k].row = "deleted" /\ code'[k].claims = code[k].claims
      /\ \A j \in Codes : j # k => code'[j] = code[j]
  BY <1>1, <1>2 DEF CodeRecord
<1>4. ClientsOK' /\ ClientsKept
  BY DEF ProviderInvariant, DataOK, ClientsOK, ClientsKept
<1>5. ClaimsOK'
  <2>1. \A j \in Codes : code'[j].row # "none" =>
          code[j].row # "none" /\ code'[j].claims = code[j].claims
    BY <1>3
  <2>2. \A q \in Requests : req'[q].step # "idle" =>
          req[q].step # "idle" /\ req'[q].claims = req[q].claims
    OBVIOUS
  <2> QED
    BY <1>4, <2>1, <2>2, ClaimsKept DEF ProviderInvariant
<1> QED
  BY <1>3, <1>4, <1>5

(* A code that has expired is deleted by whoever finds it. *)
LEMMA ExpiredStep ==
  ASSUME ProviderInvariant, NEW k \in Codes, code[k].row = "live",
         code' = [code EXCEPT ![k].row = "deleted"],
         UNCHANGED <<client, consent, tokens, now, req, uses, approved, excused, crossed>>
  PROVE  ProviderInvariant'
<1>1. TypeOK /\ DataOK /\ req' \in [Requests -> Slot]
  BY TypeParts DEF ProviderInvariant, DataOK
<1>2. /\ code' \in [Codes -> CodeRecord] /\ ClientsOK' /\ ClaimsOK'
      /\ code'[k].row = "deleted" /\ \A j \in Codes : j # k => code'[j] = code[j]
  BY <1>1, RowDeleted
<1>3. TypeOK'
  BY <1>1, <1>2 DEF TypeOK, CodeRecord
<1>4. \A q \in Requests : RequestOK(q)'
  BY <1>1, <1>2 DEF DataOK, RequestOK
<1>5. CodesOK'
  BY <1>2, CodesKept DEF ProviderInvariant
<1>6. now' \in 0..MaxNow /\ now' >= now
  BY <1>1, ProviderParameters DEF TypeOK
<1>7. ConsentsOK'
  BY <1>1, <1>6, ConsentsKept DEF ProviderInvariant
<1> QED
  BY <1>2, <1>3, <1>4, <1>5, <1>7 DEF ProviderInvariant, DataOK

(* Request r takes a code that it found alive.  History: others may have it. *)
LEMMA TakeStep ==
  ASSUME ProviderInvariant, NEW r \in Requests, NEW k \in Codes, NEW c \in Clients,
         req[r].step = "idle", code[k].row = "live",
         req' = [req EXCEPT ![r] = [Idle EXCEPT !.step = "delete", !.code = k, !.client = c,
                                                !.claims = code[k].claims]],
         excused' = excused \cup {j \in {k} : \E q \in Requests \ {r} : req[q].code = k},
         UNCHANGED <<client, consent, code, tokens, now, uses, approved, crossed>>
  PROVE  ProviderInvariant'
<1> DEFINE s == [Idle EXCEPT !.step = "delete", !.code = k, !.client = c,
                             !.claims = code[k].claims]
<1>1. /\ TypeOK /\ DataOK
      /\ code[k].claims \in Carried /\ code[k].claims \in Claims
  BY DEF ProviderInvariant, DataOK, ClaimsOK, Carried, Reached
<1>2. /\ s \in Slot /\ s.step = "delete" /\ s.code = k /\ s.claims = code[k].claims
  BY <1>1 DEF Idle, Slot
<1>3. req' = [req EXCEPT ![r] = s]
  OBVIOUS
<1> HIDE DEF s
<1>4. /\ req' \in [Requests -> Slot]
      /\ req'[r] = s
      /\ \A q \in Requests : q # r => req'[q] = req[q]
  BY <1>1, <1>2, <1>3, SlotChanges
<1>5. TypeOK'
  <2>1. excused' \in SUBSET Codes
    BY <1>1 DEF TypeOK
  <2> QED
    BY <1>1, <1>4, <2>1 DEF TypeOK, Slot
<1>6. ClientsOK' /\ ClaimsOK'
  <2>1. ClientsOK' /\ ClientsKept
    BY <1>1 DEF DataOK, ClientsOK, ClientsKept
  <2>2. Carried' = Carried
    BY DEF Carried, Reached
  <2>3. \A q \in Requests : req'[q].step # "idle" =>
          (req[q].step # "idle" /\ req'[q].claims = req[q].claims) \/ req'[q].claims \in Carried'
    BY <1>1, <1>2, <1>4, <2>2
  <2> QED
    BY <1>1, <2>1, <2>3, ClaimsKept
<1>7. \A q \in Requests : RequestOK(q)'
  <2>1. \A q \in Requests \ {r} : RequestOK(q)'
    BY <1>1, <1>4, RequestsKept
  <2>2. RequestOK(r)'
    BY <1>2, <1>4 DEF RequestOK
  <2> QED
    BY <2>1, <2>2
<1>8. HoldersExcused'
  BY <1>2, <1>4 DEF ProviderInvariant, CodesOK, HoldersExcused
<1>9. SpentFirst'
  <2> SUFFICES ASSUME NEW j \in Codes, j \notin excused'
               PROVE  /\ uses[j] > 0 => /\ uses[j] = 1 /\ code[j].row = "deleted"
                                        /\ \A q \in Requests : req'[q].code # j
                      /\ \A q \in Requests : req'[q].step = "mint" /\ req'[q].code = j =>
                           code[j].row = "deleted"
    BY DEF SpentFirst
  <2>1. j \notin excused
    OBVIOUS
  <2>2. uses[j] > 0 => j # k
    BY <2>1 DEF ProviderInvariant, CodesOK, SpentFirst
  <2> QED
    BY <1>2, <1>4, <2>1, <2>2 DEF ProviderInvariant, CodesOK, SpentFirst
<1>10. ConsentsOK'
  BY <1>2, <1>4, ConsentsUnseen
<1> QED
  BY <1>5, <1>6, <1>7, <1>8, <1>9, <1>10 DEF ProviderInvariant, DataOK, CodesOK

(* The deletion, whether it succeeds or fails: r goes on to the exchange.    *)
LEMMA DeleteCodeStep ==
  ASSUME ProviderInvariant, NEW r \in Requests, DeleteCode(r)
  PROVE  ProviderInvariant'
<1> DEFINE k == req[r].code
           s == [req[r] EXCEPT !.step = "mint"]
<1>1. /\ UNCHANGED <<client, consent, tokens, now, uses, approved, crossed>>
      /\ req' = [req EXCEPT ![r] = s]
      /\ req[r].step = "delete"
      /\ \/ code' = [code EXCEPT ![k].row = "deleted"] /\ UNCHANGED excused
         \/ excused' = excused \cup {k} /\ UNCHANGED code
  BY DEF DeleteCode
<1>2. /\ TypeOK /\ DataOK /\ RequestOK(r) /\ req[r] \in Slot
      /\ k \in Codes /\ code[k].row # "none"
  BY <1>1, TypeParts DEF ProviderInvariant, DataOK, RequestOK
<1>3. s \in Slot /\ s.step = "mint" /\ s.code = k /\ s.claims = req[r].claims
  BY <1>2 DEF Slot
<1> HIDE DEF s
<1>4. /\ req' \in [Requests -> Slot]
      /\ req'[r] = s
      /\ \A q \in Requests : q # r => req'[q] = req[q]
  BY <1>1, <1>2, <1>3, SlotChanges
<1>5. /\ code' \in [Codes -> CodeRecord]
      /\ ClientsOK' /\ ClaimsOK'
      /\ \A j \in Codes : j # k => code'[j] = code[j]
      /\ \/ code'[k].row = "deleted" /\ excused' = excused
         \/ code' = code /\ excused' = excused \cup {k}
  <2>1. CASE code' = [code EXCEPT ![k].row = "deleted"] /\ UNCHANGED excused
    <3>1. \A q \in Requests :
            \/ req'[q].step # "idle" /\ req[q].step # "idle" /\ req'[q].claims = req[q].claims
            \/ req'[q] = req[q]
      BY <1>1, <1>3, <1>4
    <3>2. /\ code' \in [Codes -> CodeRecord] /\ ClientsOK' /\ ClaimsOK'
          /\ code'[k].row = "deleted" /\ \A j \in Codes : j # k => code'[j] = code[j]
      BY <1>1, <1>2, <1>4, <2>1, <3>1, RowDeleted
    <3> QED
      BY <2>1, <3>2
  <2>2. CASE excused' = excused \cup {k} /\ UNCHANGED code
    <3>1. ClientsOK' /\ ClientsKept /\ code' \in [Codes -> CodeRecord]
      BY <1>1, <1>2, <2>2, TypeParts DEF DataOK, ClientsOK, ClientsKept
    <3>2. \A q \in Requests : req'[q].step # "idle" =>
            req[q].step # "idle" /\ req'[q].claims = req[q].claims
      BY <1>1, <1>3, <1>4
    <3>3. ClaimsOK'
      BY <1>1, <1>2, <2>2, <3>1, <3>2, ClaimsKept
    <3> QED
      BY <2>2, <3>1, <3>3
  <2> QED
    BY <1>1, <2>1, <2>2
<1>6. TypeOK'
  <2>1. excused' \in SUBSET Codes
    BY <1>2, <1>5 DEF TypeOK
  <2> QED
    BY <1>1, <1>2, <1>4, <1>5, <2>1 DEF TypeOK, Slot, CodeRecord
<1>7. \A q \in Requests : RequestOK(q)'
  <2>1. \A j \in Codes : code[j].row # "none" => code'[j].row # "none"
    BY <1>2, <1>5
  <2>2. \A q \in Requests \ {r} : RequestOK(q)'
    BY <1>2, <1>4, <2>1, RequestsKept
  <2>3. RequestOK(r)'
    BY <1>2, <1>3, <1>4, <2>1 DEF RequestOK
  <2> QED
    BY <2>2, <2>3
<1>8. HoldersExcused'
  <2>1. \A q \in Requests : req'[q].code = req[q].code
    BY <1>3, <1>4
  <2> QED
    BY <1>5, <2>1 DEF ProviderInvariant, CodesOK, HoldersExcused
<1>9. SpentFirst'
  <2> SUFFICES ASSUME NEW j \in Codes, j \notin excused'
               PROVE  /\ uses[j] > 0 => /\ uses[j] = 1 /\ code'[j].row = "deleted"
                                        /\ \A q \in Requests : req'[q].code # j
                      /\ \A q \in Requests : req'[q].step = "mint" /\ req'[q].code = j =>
                           code'[j].row = "deleted"
    BY <1>1 DEF SpentFirst
  <2>1. /\ j \notin excused
        /\ code[j].row = "deleted" => code'[j].row = "deleted"
        /\ j = k => code'[j].row = "deleted"
    BY <1>5
  <2>2. \A q \in Requests : req'[q].code = req[q].code
    BY <1>3, <1>4
  <2>3. \A q \in Requests : req'[q].step = "mint" => req[q].step = "mint" \/ req[q].code = k
    BY <1>3, <1>4
  <2> QED
    BY <2>1, <2>2, <2>3 DEF ProviderInvariant, CodesOK, SpentFirst
<1>10. ConsentsOK'
  BY <1>1, <1>3, <1>4, ConsentsUnseen
<1> QED
  BY <1>5, <1>6, <1>7, <1>8, <1>9, <1>10 DEF ProviderInvariant, DataOK, CodesOK

(* The exchange: of those who hold a code that is not excused, r was the     *)
(* only one, and the code is deleted.                                        *)
LEMMA ExchangeStep ==
  ASSUME ProviderInvariant, NEW r \in Requests, AuthorizationCodeGrant(r)
  PROVE  ProviderInvariant'
<1> DEFINE k == req[r].code
           token == [claims |-> req[r].claims, login |-> FALSE]
<1>1. /\ UNCHANGED <<client, consent, code, now, approved, excused, crossed>>
      /\ req' = [req EXCEPT ![r] = Idle]
      /\ tokens' = tokens \cup {token}
      /\ uses' = [uses EXCEPT ![k] = IF @ < 2 THEN @ + 1 ELSE @]
      /\ req[r].step = "mint"
  BY DEF AuthorizationCodeGrant, Give, End
<1>2. /\ TypeOK /\ DataOK /\ req' \in [Requests -> Slot]
      /\ req'[r] = Idle
      /\ \A q \in Requests : q # r => req'[q] = req[q]
      /\ req[r].claims \in Carried /\ req[r].claims \in Claims /\ k \in Codes
  <2>1. TypeOK /\ DataOK /\ ClaimsOK /\ RequestOK(r)
    BY DEF ProviderInvariant, DataOK
  <2>2. req[r].claims \in Carried /\ req[r].claims \in Claims /\ k \in Codes
    BY <1>1, <2>1 DEF ClaimsOK, RequestOK, Carried, Reached
  <2> QED
    BY <1>1, <2>1, <2>2, SlotChanges, IdleSlot
<1>3. TypeOK'
  <2>1. uses' \in [Codes -> 0..2]
    BY <1>1, <1>2 DEF TypeOK
  <2>2. token \in [claims : Claims, login : BOOLEAN]
    BY <1>2
  <2>3. tokens \subseteq [claims : Claims, login : BOOLEAN]
    BY <1>2 DEF TypeOK
  <2> HIDE DEF token
  <2>4. tokens' \subseteq [claims : Claims, login : BOOLEAN]
    BY <1>1, <2>2, <2>3
  <2> QED
    BY <1>1, <1>2, <2>1, <2>4 DEF TypeOK, Slot
<1>4. ClientsOK' /\ ClaimsOK'
  <2>1. ClientsOK' /\ ClientsKept
    BY <1>1, <1>2 DEF DataOK, ClientsOK, ClientsKept
  <2>2. Carried \subseteq Carried' /\ Carried' \subseteq Entitled'
    BY <1>1, <1>2, <2>1, ClaimsGrow DEF Entitled
  <2>3. \A x \in tokens' \ tokens : x.claims \in Entitled'
    BY <1>1, <1>2, <2>2
  <2>4. \A q \in Requests : req'[q].step # "idle" => req'[q] = req[q]
    BY <1>2 DEF Idle
  <2> QED
    BY <1>1, <1>2, <2>1, <2>3, <2>4, ClaimsKept
<1>5. \A q \in Requests : RequestOK(q)'
  <2>1. \A q \in Requests \ {} : req'[q] = req[q] \/ req'[q] = Idle
    BY <1>2
  <2> QED
    BY <1>1, <1>2, <2>1, RequestsKept
<1>6. HoldersExcused'
  BY <1>1, <1>2 DEF ProviderInvariant, CodesOK, HoldersExcused, Idle
<1>7. SpentFirst'
  <2> SUFFICES ASSUME NEW j \in Codes, j \notin excused
               PROVE  /\ uses'[j] > 0 => /\ uses'[j] = 1 /\ code[j].row = "deleted"
                                         /\ \A q \in Requests : req'[q].code # j
                      /\ \A q \in Requests : req'[q].step = "mint" /\ req'[q].code = j =>
                           code[j].row = "deleted"
    BY <1>1 DEF SpentFirst
  <2>1. j # None /\ req'[r].code = None /\ req'[r].step = "idle"
    BY <1>2, ProviderParameters DEF Idle
  <2>2. CASE j = k
    <3>1. uses[k] = 0 /\ code[k].row = "deleted"
      BY <1>1, <1>2, <2>2 DEF TypeOK, ProviderInvariant, CodesOK, SpentFirst
    <3>2. uses'[k] = 1
      BY <1>1, <1>2, <3>1 DEF TypeOK
    <3>3. \A q \in Requests : q # r => req[q].code # k
      BY <2>1, <2>2 DEF ProviderInvariant, CodesOK, HoldersExcused
    <3> QED
      BY <1>2, <2>1, <2>2, <3>1, <3>2, <3>3
  <2>3. CASE j # k
    <3>1. uses'[j] = uses[j]
      BY <1>1, <1>2, <2>3 DEF TypeOK
    <3> QED
      BY <1>2, <2>1, <3>1 DEF ProviderInvariant, CodesOK, SpentFirst
  <2> QED
    BY <2>2, <2>3
<1>8. ConsentsOK'
  BY <1>1, <1>2, ConsentsUnseen DEF Idle
<1> QED
  BY <1>2, <1>3, <1>4, <1>5, <1>6, <1>7, <1>8 DEF ProviderInvariant, DataOK, CodesOK

-----------------------------------------------------------------------------
(* The steps of clients and of those who give tokens out.                   *)

LEMMA RegisterStep ==
  ASSUME ProviderInvariant, NEW c \in Clients, NEW t \in Tenants, NEW S \in Scopes,
         NEW machine \in BOOLEAN, RegisterClient(c, t, S, machine)
  PROVE  ProviderInvariant'
<1>1. /\ UNCHANGED <<consent, code, tokens, now, req, history>>
      /\ client[c].row = "none"
      /\ client' = [client EXCEPT ![c] = ClientRow(t, S, machine)]
      /\ client \in [Clients -> ClientRecord] /\ ClientsOK
      /\ tokens \in SUBSET [claims : Claims, login : BOOLEAN] /\ now \in 0..MaxNow
  BY TypeParts DEF RegisterClient, ProviderInvariant, DataOK
<1>2. ClientRow(t, S, machine) \in ClientRecord
  BY DEF ClientRow, ClientRecord
<1>3. client' \in [Clients -> ClientRecord]
  BY <1>1, <1>2
<1>4. /\ client'[c] = ClientRow(t, S, machine)
      /\ \A d \in Clients : d # c => client'[d] = client[d]
  BY <1>1
<1>5. ClientsKept /\ ClientsOK'
  BY <1>1, <1>4 DEF ClientsKept, ClientsOK, ClientRow
<1>6. now' \in 0..MaxNow /\ now' >= now
  BY <1>1, ProviderParameters
<1> QED
  BY <1>1, <1>3, <1>5, <1>6, OutsideStep

LEMMA DeleteClientStep ==
  ASSUME ProviderInvariant, NEW c \in Clients, DeleteClient(c)
  PROVE  ProviderInvariant'
<1>1. /\ UNCHANGED <<consent, code, tokens, now, req, history>>
      /\ client[c].row = "live"
      /\ client' = [client EXCEPT ![c].row = "deleted"]
      /\ client \in [Clients -> ClientRecord] /\ ClientsOK
      /\ tokens \in SUBSET [claims : Claims, login : BOOLEAN] /\ now \in 0..MaxNow
  BY TypeParts DEF DeleteClient, ProviderInvariant, DataOK
<1>2. /\ client' \in [Clients -> ClientRecord]
      /\ client'[c].row = "deleted" /\ client'[c].tenant = client[c].tenant
      /\ client'[c].scopes = client[c].scopes
      /\ \A d \in Clients : d # c => client'[d] = client[d]
  <2>1. client[c] \in ClientRecord
    BY <1>1
  <2>2. [client[c] EXCEPT !.row = "deleted"] \in ClientRecord
    BY <2>1 DEF ClientRecord
  <2> QED
    BY <1>1, <2>1, <2>2 DEF ClientRecord
<1>3. ClientsKept /\ ClientsOK'
  BY <1>1, <1>2 DEF ClientsKept, ClientsOK
<1>4. now' \in 0..MaxNow /\ now' >= now
  BY <1>1, ProviderParameters
<1> QED
  BY <1>1, <1>2, <1>3, <1>4, OutsideStep

(* A token of claims that are entitled as soon as it is there.               *)
LEMMA GiveStep ==
  ASSUME ProviderInvariant, NEW claims \in Claims, NEW login \in BOOLEAN,
         Give(claims, login), UNCHANGED <<client, consent, code, now, req, history>>,
         claims \in Entitled'
  PROVE  ProviderInvariant'
<1> DEFINE token == [claims |-> claims, login |-> login]
<1>1. tokens' = tokens \cup {token} /\ token.claims = claims
  BY DEF Give
<1>2. token \in [claims : Claims, login : BOOLEAN]
  OBVIOUS
<1> HIDE DEF token
<1>3. /\ client \in [Clients -> ClientRecord] /\ ClientsOK
      /\ tokens \in SUBSET [claims : Claims, login : BOOLEAN] /\ now \in 0..MaxNow
  BY TypeParts DEF ProviderInvariant, DataOK
<1>4. /\ tokens' \in SUBSET [claims : Claims, login : BOOLEAN] /\ tokens \subseteq tokens'
      /\ \A x \in tokens' \ tokens : x.claims \in Entitled'
  BY <1>1, <1>2, <1>3
<1>5. ClientsKept /\ ClientsOK'
  BY <1>3 DEF ClientsKept, ClientsOK
<1>6. now' \in 0..MaxNow /\ now' >= now
  BY <1>3, ProviderParameters
<1> QED
  BY <1>3, <1>4, <1>5, <1>6, OutsideStep

LEMMA LoginStep ==
  ASSUME ProviderInvariant, NEW u \in Users, NEW t \in Tenants, Login(u, t)
  PROVE  ProviderInvariant'
<1> DEFINE claims == [sub |-> u, tenant |-> t, roles |-> Member]
           token == [claims |-> claims, login |-> TRUE]
<1>1. /\ Give(claims, TRUE) /\ token \in tokens'
      /\ UNCHANGED <<client, consent, code, now, req, history>>
  BY DEF Login, Give
<1>2. claims \in Claims
  BY DEF Claims, Subjects
<1>3. token.login /\ token.claims.sub = claims.sub /\ token.claims.tenant = claims.tenant
  OBVIOUS
<1>4. claims.sub \in Users /\ claims.roles = Member
  OBVIOUS
<1> HIDE DEF claims, token
<1>5. claims \in Reached'
  BY <1>1, <1>2, <1>3, <1>4 DEF Reached
<1>6. claims \in Entitled'
  BY <1>4, <1>5 DEF Entitled
<1> QED
  BY <1>1, <1>2, <1>6, GiveStep

LEMMA RefreshStep ==
  ASSUME ProviderInvariant, NEW c \in Clients, NEW x \in tokens, RefreshTokenGrant(c, x)
  PROVE  ProviderInvariant'
<1>1. /\ Give(x.claims, FALSE) /\ tokens \subseteq tokens'
      /\ UNCHANGED <<client, consent, code, now, req, history>>
  BY DEF RefreshTokenGrant, Give
<1>2. x.claims \in Claims /\ x.claims \in Entitled /\ TypeOK
  BY DEF ProviderInvariant, DataOK, TypeOK, ClaimsOK
<1>3. ClientsKept /\ approved \subseteq approved'
  BY <1>1 DEF ClientsKept, history
<1>4. x.claims \in Entitled'
  BY <1>1, <1>2, <1>3, ClaimsGrow
<1> QED
  BY <1>1, <1>2, <1>4, GiveStep

LEMMA ClientCredentialsStep ==
  ASSUME ProviderInvariant, NEW c \in Clients, ClientCredentialsGrant(c)
  PROVE  ProviderInvariant'
<1> DEFINE claims == [sub |-> c, tenant |-> client[c].tenant, roles |-> client[c].scopes]
<1>1. /\ Give(claims, FALSE) /\ client[c].row = "live"
      /\ UNCHANGED <<client, consent, code, now, req, history>>
  BY DEF ClientCredentialsGrant, ValidateClient, FindByClientID
<1>2. /\ claims \in Claims
      /\ claims.sub = c /\ claims.tenant = client[c].tenant /\ claims.roles = client[c].scopes
      /\ c \notin Users
  BY <1>1, ProviderParameters DEF ProviderInvariant, DataOK, ClientsOK, Claims, Subjects
<1> HIDE DEF claims
<1>3. claims \in Reached' /\ claims \in Entitled'
  <2>1. claims \in Reached'
    BY <1>1, <1>2 DEF Reached
  <2> QED
    BY <1>1, <1>2, <2>1 DEF Entitled
<1> QED
  BY <1>1, <1>2, <1>3, GiveStep

LEMMA StillStep ==
  ASSUME ProviderInvariant, UNCHANGED <<client, consent, code, tokens, req, history>>,
         now' \in 0..MaxNow, now' >= now
  PROVE  ProviderInvariant'
<1>1. /\ client \in [Clients -> ClientRecord] /\ ClientsOK
      /\ tokens \in SUBSET [claims : Claims, login : BOOLEAN]
  BY TypeParts DEF ProviderInvariant, DataOK
<1>2. ClientsKept /\ ClientsOK'
  BY <1>1 DEF ClientsKept, ClientsOK
<1> QED
  BY <1>1, <1>2, OutsideStep

-----------------------------------------------------------------------------
(* Every action is one of the steps above. *)
LEMMA NextProvider == ProviderInvariant /\ [Next]_vars => ProviderInvariant'
<1> SUFFICES ASSUME ProviderInvariant, [Next]_vars
             PROVE  ProviderInvariant'
  OBVIOUS
<1>1. now \in 0..MaxNow /\ MaxNow \in Nat /\ ConsentLife \in Nat
  BY ProviderParameters DEF ProviderInvariant, DataOK, TypeOK
<1>2. ASSUME NEW r \in Requests, NEW c \in Clients, NEW k \in Codes, FindByCode(r, c, k)
      PROVE  ProviderInvariant'
  <2>1. code[k].row = "live" /\ req[r].step = "idle"
    BY <1>2 DEF FindByCode
  <2>2. CASE /\ code' = [code EXCEPT ![k].row = "deleted"]
             /\ UNCHANGED <<req, excused>>
    BY <1>2, <2>1, <2>2, ExpiredStep DEF FindByCode
  <2>3. CASE /\ req' = [req EXCEPT ![r] = [Idle EXCEPT !.step = "delete", !.code = k,
                                             !.client = c, !.claims = code[k].claims]]
             /\ excused' = excused \cup {j \in {k} : \E q \in Requests \ {r} : req[q].code = k}
             /\ UNCHANGED code
    <3>1. req' = [req EXCEPT ![r] = [Idle EXCEPT !.step = "delete", !.code = k,
                                       !.client = c, !.claims = code[k].claims]]
      BY <2>3
    <3>2. UNCHANGED <<client, consent, code, tokens, now, uses, approved, crossed>>
      BY <1>2, <2>3 DEF FindByCode
    <3> QED
      BY <2>1, <2>3, <3>1, <3>2, TakeStep
  <2> QED
    BY <1>2, <2>2, <2>3 DEF FindByCode
<1>3. ASSUME NEW r \in Requests, NEW i \in Rows, CreateConsent(r, i)
      PROVE  ProviderInvariant'
  <2>1. now + ConsentLife \in 0..Never /\ Never \in 0..Never
    BY <1>1 DEF Never
  <2> QED
    BY <1>3, <2>1, GrantedStep DEF CreateConsent
<1>4. ASSUME NEW r \in Requests, UpdateConsent(r)
      PROVE  ProviderInvariant'
  <2>1. req[r].step = "grant" /\ req[r].found # 0
    BY <1>4 DEF UpdateConsent
  <2>2. /\ req[r].found \in Rows
        /\ consent[req[r].found] \in Consents
    BY <2>1, TypeParts DEF ProviderInvariant, DataOK, ConsentsOK, FoundOK, Slot
  <2>3. consent[req[r].found].expires \in 0..Never /\ now + ConsentLife \in 0..Never
    BY <1>1, <2>2 DEF Consents, Never
  <2> QED
    BY <1>4, <2>1, <2>2, <2>3, GrantedStep DEF UpdateConsent
<1>5. CASE Tick
  BY <1>1, <1>5, StillStep DEF Tick
<1>6. CASE UNCHANGED vars
  BY <1>1, <1>6, StillStep DEF vars
<1> QED
  BY <1>2, <1>3, <1>4, <1>5, <1>6, RegisterStep, DeleteClientStep, ClientCredentialsStep,
     RefreshStep, ConsentStep, LoginStep, IssueStep, DeleteCodeStep, ExchangeStep, FailStep
     DEF Next

(* The inductive invariant holds in every reachable state. *)
THEOREM ProviderInvariantHolds == Spec => []ProviderInvariant
BY InitProvider, NextProvider, PTL DEF Spec

(* However many requests present however many codes, FindByCode and Delete   *)
(* let a code be exchanged once, unless two requests held it together or     *)
(* its deletion failed.                                                      *)
THEOREM AlwaysCodeOnce == Spec => []CodeOnceUnlessRaced
<1>1. ProviderInvariant => CodeOnceUnlessRaced
  <2> SUFFICES ASSUME ProviderInvariant, NEW k \in Codes, uses[k] > 1
               PROVE  k \in excused
    BY DEF CodeOnceUnlessRaced
  <2>1. uses[k] \in 0..2
    BY DEF ProviderInvariant, DataOK, TypeOK
  <2>2. uses[k] > 0 /\ uses[k] # 1
    BY <2>1
  <2> QED
    BY <2>2 DEF ProviderInvariant, CodesOK, SpentFirst
<1> QED
  BY <1>1, ProviderInvariantHolds, PTL

(* Consents, codes and refreshes carry nobody into a tenant that no sign-in  *)
(* or registration of theirs was for.                                        *)
THEOREM AlwaysReached == Spec => []TenantReached
<1>1. ProviderInvariant => TenantReached
  BY DEF ProviderInvariant, DataOK, ClaimsOK, TenantReached, Entitled, Carried, Reached
<1> QED
  BY <1>1, ProviderInvariantHolds, PTL

(* A scope becomes a role only where the holder of a token approved it, or   *)
(* where the client is the subject.                                          *)
THEOREM AlwaysApproved == Spec => []ScopesApproved
<1>1. ProviderInvariant => ScopesApproved
  BY DEF ProviderInvariant, DataOK, ClaimsOK, ScopesApproved, Entitled, Carried
<1> QED
  BY <1>1, ProviderInvariantHolds, PTL

(* GrantConsent gives a user and a client a second consent only beside one   *)
(* that has expired, unless grants of the pair overlapped.                   *)
THEOREM AlwaysOneConsent == Spec => []OneConsent
<1>1. ProviderInvariant => OneConsent
  BY DEF ProviderInvariant, ConsentsOK
<1> QED
  BY <1>1, ProviderInvariantHolds, PTL

-----------------------------------------------------------------------------
(* The refinement mapping of OneTime, by name. *)
Spent == {k \in Codes : code[k].row # "none"} \ Fresh
Attempt == [r \in Requests |-> req[r].code]
Signed == {k \in Codes : uses[k] > 0}

(* A step that the promise does not see. *)
Hidden == UNCHANGED <<Fresh, Spent, Attempt, Signed>>

LEMMA HiddenStutters == Hidden => UNCHANGED OneTime!vars
BY DEF Hidden, OneTime!vars, Spent, Attempt, Signed

LEMMA SameCodes ==
  ASSUME UNCHANGED <<code, now>>
  PROVE  Fresh' = Fresh /\ Spent' = Spent
BY DEF Fresh, Spent, After

LEMMA SameSigned ==
  ASSUME UNCHANGED uses
  PROVE  Signed' = Signed
BY DEF Signed

(* Requests that keep their codes keep their attempts. *)
LEMMA SameAttempt ==
  ASSUME \A r \in Requests : req'[r].code = req[r].code
  PROVE  Attempt' = Attempt
BY DEF Attempt

LEMMA EndAttempt ==
  ASSUME TypeOK, NEW r \in Requests, End(r)
  PROVE  Attempt' = [Attempt EXCEPT ![r] = None]
<1>1. req'[r] = Idle /\ \A q \in Requests : q # r => req'[q] = req[q]
  BY SlotChanges, IdleSlot DEF End
<1>2. req'[r].code = None
  BY <1>1 DEF Idle
<1> QED
  BY <1>1, <1>2 DEF Attempt

(* The end of a request without a code is not seen. *)
LEMMA EndSame ==
  ASSUME TypeOK, NEW r \in Requests, End(r), req[r].code = None
  PROVE  Attempt' = Attempt
<1>1. req'[r] = Idle /\ \A q \in Requests : q # r => req'[q] = req[q]
  BY SlotChanges, IdleSlot DEF End
<1> QED
  BY <1>1, SameAttempt DEF Idle

LEMMA PromiseInit == Init => OneTime!Init
<1> SUFFICES ASSUME Init
             PROVE  OneTime!Init
  OBVIOUS
<1>1. \A k \in Codes : code[k].row = "none" /\ uses[k] = 0
  BY DEF Init
<1>2. Fresh = {} /\ Spent = {} /\ Signed = {}
  BY <1>1 DEF Fresh, Spent, Signed
<1>3. Attempt = [r \in Requests |-> None]
  BY DEF Init, Idle, Attempt
<1> QED
  BY <1>2, <1>3 DEF OneTime!Init, Spent, Attempt, Signed

(* A new code is fresh at that instant. *)
LEMMA IssuePromise ==
  ASSUME ProviderInvariant, NEW r \in Requests, NEW k \in Codes, IssueAuthCode(r, k)
  PROVE  OneTime!Issue(k)
<1>1. TypeOK /\ RequestOK(r) /\ now \in Nat /\ CodeLife \in Nat
  BY ProviderParameters DEF ProviderInvariant, DataOK, TypeOK
<1>2. /\ code' = [code EXCEPT ![k] = CodeRow(req[r].claims)]
      /\ code[k].row = "none" /\ req[r].code = None /\ End(r)
      /\ UNCHANGED <<now, uses>>
  BY <1>1 DEF IssueAuthCode, RequestOK, history
<1>3. /\ code'[k].row = "live" /\ code'[k].expires = now + CodeLife
      /\ \A j \in Codes : j # k => code'[j] = code[j]
  BY <1>1, <1>2 DEF TypeOK, CodeRow
<1>4. ~(now > now + CodeLife)
  BY <1>1
<1>5. Fresh' = Fresh \cup {k}
  BY <1>2, <1>3, <1>4 DEF Fresh, After
<1>6. Spent' = Spent /\ k \notin Fresh \cup Spent
  BY <1>2, <1>3, <1>5 DEF Spent, Fresh
<1>7. Attempt' = Attempt /\ Signed' = Signed
  BY <1>1, <1>2, EndSame, SameSigned
<1> QED
  BY <1>5, <1>6, <1>7 DEF OneTime!Issue, Spent, Attempt, Signed

(* The deletion of a row spends its code, if it was fresh. *)
LEMMA SpendPromise ==
  ASSUME TypeOK, NEW k \in Codes, code[k].row # "none",
         code' = [code EXCEPT ![k].row = "deleted"], UNCHANGED <<now, uses>>,
         Attempt' = Attempt
  PROVE  (\E S \in SUBSET Codes : OneTime!Spend(S)) \/ Hidden
<1>1. /\ code'[k].row = "deleted"
      /\ \A j \in Codes : j # k => code'[j] = code[j]
      /\ Signed' = Signed
  BY SameSigned DEF TypeOK
<1>2. Fresh' = Fresh \ {k}
  BY <1>1 DEF Fresh, After
<1>3. Spent' = Spent \cup (Fresh \cap {k})
  BY <1>1, <1>2 DEF Spent, Fresh
<1>4. CASE k \in Fresh
  <2>1. OneTime!Spend({k})
    BY <1>1, <1>2, <1>3, <1>4 DEF OneTime!Spend, Spent, Attempt, Signed
  <2> QED
    BY <2>1
<1>5. CASE k \notin Fresh
  BY <1>1, <1>2, <1>3, <1>5 DEF Hidden
<1> QED
  BY <1>4, <1>5

(* A code that is found alive is admitted; one that expired is deleted.      *)
LEMMA FindPromise ==
  ASSUME ProviderInvariant, NEW r \in Requests, NEW c \in Clients, NEW k \in Codes,
         FindByCode(r, c, k)
  PROVE  OneTime!Next \/ Hidden
<1>1. TypeOK /\ RequestOK(r) /\ req[r].step = "idle" /\ code[k].row = "live"
      /\ UNCHANGED <<now, uses>>
  BY DEF ProviderInvariant, DataOK, FindByCode
<1>2. CASE /\ code' = [code EXCEPT ![k].row = "deleted"]
           /\ UNCHANGED <<req, excused>>
  <2>1. Attempt' = Attempt
    BY <1>2 DEF Attempt
  <2>2. (\E S \in SUBSET Codes : OneTime!Spend(S)) \/ Hidden
    BY <1>1, <1>2, <2>1, SpendPromise
  <2> QED
    BY <2>2 DEF OneTime!Next
<1>3. CASE /\ ~After(code[k].expires)
           /\ req' = [req EXCEPT ![r] = [Idle EXCEPT !.step = "delete", !.code = k,
                                           !.client = c, !.claims = code[k].claims]]
           /\ UNCHANGED code
  <2>1. req'[r].code = k /\ \A q \in Requests : q # r => req'[q] = req[q]
    BY <1>1, <1>3 DEF TypeOK, Idle
  <2>2. Attempt[r] = None /\ Attempt' = [Attempt EXCEPT ![r] = k]
    BY <1>1, <2>1 DEF Attempt, RequestOK
  <2>3. k \in Fresh
    BY <1>1, <1>3 DEF Fresh
  <2>4. OneTime!Admit(r, k)
    BY <1>1, <1>3, <2>2, <2>3, SameCodes, SameSigned DEF OneTime!Admit, Spent, Attempt, Signed
  <2> QED
    BY <2>4 DEF OneTime!Next
<1> QED
  BY <1>2, <1>3 DEF FindByCode

LEMMA DeletePromise ==
  ASSUME ProviderInvariant, NEW r \in Requests, DeleteCode(r)
  PROVE  OneTime!Next \/ Hidden
<1>1. /\ TypeOK /\ req[r].code \in Codes /\ code[req[r].code].row # "none"
      /\ UNCHANGED <<now, uses>> /\ req' = [req EXCEPT ![r].step = "mint"]
  BY DEF ProviderInvariant, DataOK, RequestOK, DeleteCode
<1>2. Attempt' = Attempt
  BY <1>1 DEF TypeOK, Attempt
<1>3. CASE code' = [code EXCEPT ![req[r].code].row = "deleted"]
  <2>1. (\E S \in SUBSET Codes : OneTime!Spend(S)) \/ Hidden
    BY <1>1, <1>2, <1>3, SpendPromise
  <2> QED
    BY <2>1 DEF OneTime!Next
<1>4. CASE UNCHANGED code
  BY <1>1, <1>2, <1>4, SameCodes, SameSigned DEF Hidden
<1> QED
  BY <1>3, <1>4 DEF DeleteCode

LEMMA ExchangePromise ==
  ASSUME ProviderInvariant, NEW r \in Requests, AuthorizationCodeGrant(r)
  PROVE  OneTime!SignIn(r)
<1> DEFINE k == req[r].code
<1>1. /\ TypeOK /\ k \in Codes /\ k # None /\ End(r)
      /\ UNCHANGED <<code, now>>
      /\ uses' = [uses EXCEPT ![k] = IF @ < 2 THEN @ + 1 ELSE @]
  BY ProviderParameters DEF ProviderInvariant, DataOK, RequestOK, AuthorizationCodeGrant
<1>2. Attempt[r] = k /\ Attempt' = [Attempt EXCEPT ![r] = None]
  BY <1>1, EndAttempt DEF Attempt
<1>3. Signed' = Signed \cup {k}
  <2>1. \A j \in Codes : uses'[j] > 0 <=> j = k \/ uses[j] > 0
    BY <1>1 DEF TypeOK
  <2> QED
    BY <1>1, <2>1 DEF Signed
<1> QED
  BY <1>1, <1>2, <1>3, SameCodes DEF OneTime!SignIn, Spent, Attempt, Signed

(* A request that fails gives up the code it has, if it has one.             *)
LEMMA FailPromise ==
  ASSUME ProviderInvariant, NEW r \in Requests, Fail(r)
  PROVE  OneTime!Next \/ Hidden
<1>1. TypeOK /\ End(r) /\ UNCHANGED <<code, now, uses>>
  BY DEF ProviderInvariant, DataOK, Fail, history
<1>2. CASE req[r].code = None
  BY <1>1, <1>2, EndSame, SameCodes, SameSigned DEF Hidden
<1>3. CASE req[r].code # None
  <2>1. Attempt[r] # None /\ Attempt' = [Attempt EXCEPT ![r] = None]
    BY <1>1, <1>3, EndAttempt DEF Attempt
  <2>2. OneTime!GiveUp(r)
    BY <1>1, <2>1, SameCodes, SameSigned DEF OneTime!GiveUp, Spent, Attempt, Signed
  <2> QED
    BY <2>2 DEF OneTime!Next
<1> QED
  BY <1>2, <1>3

(* Time spends what expires. *)
LEMMA TickPromise ==
  ASSUME TypeOK, Tick
  PROVE  (\E S \in SUBSET Codes : OneTime!Spend(S)) \/ Hidden
<1>1. /\ UNCHANGED <<code, req, uses>>
      /\ now' \in Nat /\ now \in Nat /\ now' >= now
      /\ \A k \in Codes : code[k].expires \in Nat
  BY ProviderParameters DEF TypeOK, Tick, history
<1>2. Fresh' \subseteq Fresh
  BY <1>1 DEF Fresh, After
<1>3. Attempt' = Attempt /\ Signed' = Signed
  BY <1>1 DEF Attempt, Signed
<1>4. Spent' = Spent \cup (Fresh \ Fresh')
  BY <1>1, <1>2 DEF Spent, Fresh
<1>5. PICK S \in SUBSET Codes : S = Fresh \ Fresh'
  BY DEF Fresh
<1>6. CASE S = {}
  BY <1>2, <1>3, <1>4, <1>5, <1>6 DEF Hidden
<1>7. CASE S # {}
  <2>1. S \subseteq Fresh /\ Fresh' = Fresh \ S /\ Spent' = Spent \cup S
    BY <1>2, <1>4, <1>5
  <2>2. OneTime!Spend(S)
    BY <1>3, <1>7, <2>1 DEF OneTime!Spend, Spent, Attempt, Signed
  <2> QED
    BY <2>1, <2>2
<1> QED
  BY <1>6, <1>7

LEMMA PromiseStep == ProviderInvariant /\ [Next]_vars => [OneTime!Next]_OneTime!vars
<1> SUFFICES ASSUME ProviderInvariant, [Next]_vars
             PROVE  OneTime!Next \/ Hidden
  BY HiddenStutters
<1>1. TypeOK /\ \A r \in Requests : RequestOK(r)
  BY DEF ProviderInvariant, DataOK
<1>2. ASSUME UNCHANGED <<code, now, req, uses>>
      PROVE  Hidden
  BY <1>2, SameCodes, SameSigned, SameAttempt DEF Hidden
<1>3. ASSUME NEW c \in Clients, NEW t \in Tenants, NEW S \in Scopes, NEW m \in BOOLEAN,
             RegisterClient(c, t, S, m)
      PROVE  Hidden
  BY <1>2, <1>3 DEF RegisterClient, history
<1>4. ASSUME NEW c \in Clients, DeleteClient(c) \/ ClientCredentialsGrant(c)
      PROVE  Hidden
  BY <1>2, <1>4 DEF DeleteClient, ClientCredentialsGrant, history
<1>5. ASSUME NEW c \in Clients, NEW x \in tokens, RefreshTokenGrant(c, x)
      PROVE  Hidden
  BY <1>2, <1>5 DEF RefreshTokenGrant, history
<1>6. ASSUME NEW u \in Users, NEW t \in Tenants, Login(u, t)
      PROVE  Hidden
  BY <1>2, <1>6 DEF Login, history
<1>7. ASSUME NEW r \in Requests, NEW x \in tokens, NEW c \in Clients, NEW S \in Scopes,
             NEW m \in BOOLEAN, Consent(r, x, c, S, m)
      PROVE  Hidden
  <2>1. UNCHANGED <<code, now, uses>> /\ req[r].code = None
    BY <1>1, <1>7 DEF Consent, RequestOK
  <2>2. req'[r].code = None /\ \A q \in Requests : q # r => req'[q] = req[q]
    BY <1>1, <1>7 DEF TypeOK, Consent, Idle
  <2>3. Attempt' = Attempt
    BY <2>1, <2>2, SameAttempt
  <2> QED
    BY <2>1, <2>3, SameCodes, SameSigned DEF Hidden
<1>8. ASSUME NEW r \in Requests, NEW i \in Rows, NEW e, Granted(r, i, e)
      PROVE  Hidden
  <2>1. UNCHANGED <<code, now, uses>> /\ req' = [req EXCEPT ![r].step = "issue"]
    BY <1>8 DEF Granted, history
  <2>2. \A q \in Requests : req'[q].code = req[q].code
    BY <1>1, <2>1 DEF TypeOK
  <2> QED
    BY <2>1, <2>2, SameCodes, SameSigned, SameAttempt DEF Hidden
<1>9. ASSUME NEW r \in Requests, NEW i \in Rows, CreateConsent(r, i)
      PROVE  Hidden
  BY <1>8, <1>9 DEF CreateConsent
<1>10. ASSUME NEW r \in Requests, UpdateConsent(r)
       PROVE  Hidden
  <2>1. req[r].found \in Rows
    BY <1>1, <1>10 DEF TypeOK, UpdateConsent
  <2> QED
    BY <1>8, <1>10, <2>1 DEF UpdateConsent
<1>11. ASSUME NEW r \in Requests, NEW k \in Codes, IssueAuthCode(r, k)
       PROVE  OneTime!Next
  BY <1>11, IssuePromise DEF OneTime!Next
<1>12. ASSUME NEW r \in Requests, AuthorizationCodeGrant(r)
       PROVE  OneTime!Next
  BY <1>12, ExchangePromise DEF OneTime!Next
<1>13. CASE Tick
  <2>1. (\E S \in SUBSET Codes : OneTime!Spend(S)) \/ Hidden
    BY <1>1, <1>13, TickPromise
  <2> QED
    BY <2>1 DEF OneTime!Next
<1>14. CASE UNCHANGED vars
  <2>1. UNCHANGED <<code, now, req, uses>>
    BY <1>14 DEF vars, history
  <2> QED
    BY <1>2, <2>1
<1> QED
  BY <1>3, <1>4, <1>5, <1>6, <1>7, <1>9, <1>10, <1>11, <1>12, <1>13, <1>14,
     FindPromise, DeletePromise, FailPromise DEF Next

(* Authorization codes, however many requests present them and whatever      *)
(* fails, are one-time tokens in the sense of OneTimeToken.                  *)
THEOREM CodesKeepPromise == Spec => KeepsPromise
<1>1. Init => OneTime!Init
  BY PromiseInit
<1>2. ProviderInvariant /\ [Next]_vars => [OneTime!Next]_OneTime!vars
  BY PromiseStep
<1> QED
  BY <1>1, <1>2, ProviderInvariantHolds, PTL DEF Spec, KeepsPromise, OneTime!Spec
=============================================================================
