-------------------------- MODULE ComplianceProofs --------------------------
(***************************************************************************)
(* Proofs about Compliance: its types, the chain of a tenant, one pending  *)
(* erasure and one execution, for any number of requests, addresses,       *)
(* tenants and entries.                                                    *)
(*                                                                         *)
(* What the properties say of rows and entries follows from what the       *)
(* invariant says of the requests on the way to them: what a lookup found  *)
(* is the last of what it saw (ChainOK), a request id is the id of the     *)
(* request that made it until its row is stored (IdsReserved), an erasure  *)
(* counts from its lookup and not only from its row (OpenOnce), and a row  *)
(* that has been carried out is nobody's any more (ClosedOnce).            *)
(***************************************************************************)
EXTENDS Compliance, FiniteSetTheorems, TLAPS

Slot ==
  [step : {"idle", "store", "last", "append", "expire", "complete"},
   kind : {"export", "erasure", "event", "get", "execute", None},
   email : Emails \cup {None}, tenant : Tenants \cup {None},
   id : Ids \cup {None}, prev : Stamps \cup {None}, seen : SUBSET Stamps,
   failed : BOOLEAN]

-----------------------------------------------------------------------------
(* The inductive invariant. *)

(* What a request at a step has in its hands. *)
RequestOK(x) ==
  /\ x.step = "idle" => x.kind = None /\ x.id = None
  /\ x.step = "store" => x.kind \in {"export", "erasure"}
  /\ x.step \in {"last", "append"} =>
       x.kind \in {"export", "erasure", "event"} /\ x.tenant \in Tenants
  /\ x.kind \in {"export", "erasure"} => x.id \in Ids /\ x.email \in Emails
  /\ x.kind = "export" => x.tenant \in Tenants
  /\ x.step \in {"expire", "complete"} =>
       x.kind \in {"get", "execute"} /\ x.id \in Ids /\ exports[x.id] # None

RequestsOK == \A r \in Requests : RequestOK(req[r])

(* Between its lookup and its row a request has its id to itself. *)
Creating(x) == x.kind = "erasure" \/ (x.kind = "export" /\ x.step = "store")
IdsReserved ==
  \A r \in Requests : Creating(req[r]) =>
    /\ exports[req[r].id] = None
    /\ \A q \in Requests \ {r} : req[q].id # req[r].id

(* An entry follows the last of those it saw, which are older and of its    *)
(* tenant, or saw none, or its lookup failed; so will the entry that is      *)
(* about to be stored.                                                       *)
EntryOK(s) ==
  log[s] # None =>
    /\ log[s].seen \subseteq EntriesOf(log[s].tenant)
    /\ \A u \in log[s].seen : u < s
    /\ log[s].prev # None => log[s].prev \in log[s].seen /\ \A u \in log[s].seen : u <= log[s].prev
    /\ log[s].prev = None => log[s].seen = {} \/ log[s].failed
FoundOK(x) ==
  x.step = "append" =>
    /\ x.seen \subseteq Stored
    /\ x.prev # None => /\ x.prev \in x.seen \cap EntriesOf(x.tenant)
                        /\ \A u \in x.seen \cap EntriesOf(x.tenant) : u <= x.prev
    /\ x.prev = None => x.seen \cap EntriesOf(x.tenant) = {} \/ x.failed
ChainOK ==
  /\ \A s \in Stamps : EntryOK(s)
  /\ \A r \in Requests : FoundOK(req[r])

(* An erasure of an address is open from its lookup to its execution. *)
Open(i, e) ==
  \/ exports[i] # None /\ exports[i].email = e /\ exports[i].status = "pending_erasure"
  \/ \E r \in Requests : req[r].kind = "erasure" /\ req[r].email = e /\ req[r].id = i
OpenOnce ==
  \A e \in Emails : \A i, j \in Ids :
    i # j /\ Open(i, e) /\ Open(j, e) => {i, j} \in together \/ i \in blind \/ j \in blind

(* Nothing is left to carry out of an erasure that one request carried out. *)
Completing(r, i) == req[r].step = "complete" /\ req[r].id = i
Done(i) == exports[i] # None /\ exports[i].status # "pending_erasure"
ClosedOnce ==
  \A i \in Ids : {i} \notin together =>
    /\ closed[i] > 0 => closed[i] = 1 /\ Done(i) /\ \A r \in Requests : ~Completing(r, i)
    /\ \A r, q \in Requests : Completing(r, i) /\ Completing(q, i) => r = q

GdprInvariant ==
  TypeOK /\ RequestsOK /\ IdsReserved /\ ChainOK /\ OpenOnce /\ ClosedOnce

-----------------------------------------------------------------------------
(* Steps of one request. *)

Moves(r, x) ==
  /\ req' \in [Requests -> Slot]
  /\ req'[r] = x
  /\ \A q \in Requests : q # r => req'[q] = req[q]

LEMMA Move ==
  ASSUME TypeOK, NEW r \in Requests, NEW x \in Slot, req' = [req EXCEPT ![r] = x]
  PROVE  Moves(r, x)
<1>1. req \in [Requests -> Slot]
  BY DEF TypeOK, Slot
<1> QED
  BY <1>1 DEF Moves

LEMMA IdleSlot == Idle \in Slot
BY DEF Idle, Slot

LEMMA SlotsTyped ==
  ASSUME TypeOK, NEW r \in Requests
  PROVE  req[r] \in Slot
BY DEF TypeOK, Slot

(* A slot that ends is idle again. *)
LEMMA EndMoves ==
  ASSUME TypeOK, NEW r \in Requests, End(r)
  PROVE  Moves(r, Idle)
BY Move, IdleSlot DEF End

(* The chain is kept by whatever appends nothing and looks nothing up. *)
LEMMA ChainKept ==
  ASSUME ChainOK, UNCHANGED log,
         \A q \in Requests : req'[q].step = "append" => req'[q] = req[q]
  PROVE  ChainOK'
<1>1. Stored' = Stored /\ \A t : EntriesOf(t)' = EntriesOf(t)
  BY DEF Stored, EntriesOf
<1>2. \A s \in Stamps : EntryOK(s)'
  BY <1>1 DEF ChainOK, EntryOK
<1>3. \A r \in Requests : FoundOK(req[r])'
  BY <1>1 DEF ChainOK, FoundOK
<1> QED
  BY <1>2, <1>3 DEF ChainOK

(* No erasure is opened. *)
LEMMA OpenKept ==
  ASSUME OpenOnce, UNCHANGED blind, together \subseteq together',
         \A e \in Emails : \A i \in Ids : Open(i, e)' => Open(i, e)
  PROVE  OpenOnce'
BY DEF OpenOnce

(* No erasure is carried out, nor read by a request that will. *)
LEMMA ClosedKept ==
  ASSUME ClosedOnce, UNCHANGED closed, together \subseteq together',
         \A i \in Ids : Done(i) => Done(i)',
         \A q \in Requests : req'[q].step = "complete" => req'[q] = req[q]
  PROVE  ClosedOnce'
<1>1. \A q \in Requests, i \in Ids : Completing(q, i)' => Completing(q, i)
  BY DEF Completing
<1> SUFFICES ASSUME NEW i \in Ids, {i} \notin together'
             PROVE  /\ closed'[i] > 0 => closed'[i] = 1 /\ Done(i)' /\ \A r \in Requests : ~Completing(r, i)'
                    /\ \A r, q \in Requests : Completing(r, i)' /\ Completing(q, i)' => r = q
  BY DEF ClosedOnce
<1>2. {i} \notin together
  OBVIOUS
<1>3. closed[i] > 0 => closed[i] = 1 /\ Done(i) /\ \A r \in Requests : ~Completing(r, i)
  BY <1>2 DEF ClosedOnce
<1>4. \A r, q \in Requests : Completing(r, i) /\ Completing(q, i) => r = q
  BY <1>2 DEF ClosedOnce
<1>5. closed'[i] > 0 => closed'[i] = 1 /\ Done(i)' /\ \A r \in Requests : ~Completing(r, i)'
  BY <1>1, <1>3
<1>6. \A r, q \in Requests : Completing(r, i)' /\ Completing(q, i)' => r = q
  BY <1>1, <1>4
<1> QED
  BY <1>5, <1>6

(* What a step does to the slots is seen slot by slot. *)
LEMMA RequestsKept ==
  ASSUME RequestsOK, NEW r \in Requests, NEW x, Moves(r, x), RequestOK(x)',
         \A i \in Ids : exports[i] # None => exports'[i] # None
  PROVE  RequestsOK'
<1> SUFFICES ASSUME NEW q \in Requests
             PROVE  RequestOK(req[q])'
  BY DEF RequestsOK
<1>1. CASE q = r
  BY <1>1 DEF Moves, RequestOK
<1>2. CASE q # r
  <2>1. req'[q] = req[q] /\ RequestOK(req[q])
    BY <1>2 DEF Moves, RequestsOK
  <2> QED
    BY <2>1 DEF RequestOK
<1> QED
  BY <1>1, <1>2

(* A slot that goes on with its id, or with none, reserves nothing new. *)
LEMMA IdsKept ==
  ASSUME TypeOK, RequestsOK, IdsReserved, NEW r \in Requests, NEW x, Moves(r, x),
         Creating(x) => Creating(req[r]) /\ x.id = req[r].id,
         x.id \in {None, req[r].id} \/ (x.id \in Ids /\ exports[x.id] # None),
         \A q \in Requests : Creating(req[q])' => exports'[req[q].id] = exports[req[q].id]
  PROVE  IdsReserved'
<1> SUFFICES ASSUME NEW q \in Requests, Creating(req'[q])
             PROVE  /\ exports'[req'[q].id] = None
                    /\ \A p \in Requests \ {q} : req'[p].id # req'[q].id
  BY DEF IdsReserved, Creating
<1>1. Creating(req[q]) /\ req'[q].id = req[q].id
  BY DEF Moves, Creating
<1>2. /\ exports[req[q].id] = None /\ req[q].id \in Ids
      /\ \A p \in Requests \ {q} : req[p].id # req[q].id
  BY <1>1 DEF IdsReserved, RequestsOK, RequestOK, Creating
<1>3. exports'[req'[q].id] = None
  BY <1>1, <1>2 DEF Creating
<1>4. ASSUME NEW p \in Requests \ {q}
      PROVE  req'[p].id # req'[q].id
  <2>1. CASE p # r
    BY <1>1, <1>2, <2>1 DEF Moves
  <2>2. CASE p = r
    <3>1. x.id # req[q].id
      BY <1>2, <2>2, ComplianceParameters
    <3> QED
      BY <1>1, <2>2, <3>1 DEF Moves
  <2> QED
    BY <2>1, <2>2
<1> QED
  BY <1>3, <1>4

(* A step that leaves the rows alone, opens and carries out nothing: a      *)
(* request goes on, reads a row, or ends.                                   *)
LEMMA RequestStep ==
  ASSUME GdprInvariant, NEW r \in Requests, NEW x, Moves(r, x), RequestOK(x),
         UNCHANGED <<exports, history>>, log' \in [Stamps -> Entries \cup {None}], ChainOK',
         Creating(x) => Creating(req[r]) /\ x.id = req[r].id,
         x.id \in {None, req[r].id} \/ (x.id \in Ids /\ exports[x.id] # None),
         x.kind = "erasure" => x.id = req[r].id /\ x.email = req[r].email /\ req[r].kind = "erasure",
         x.step # "complete"
  PROVE  GdprInvariant'
<1>1. /\ UNCHANGED <<exports, together, blind, closed>>
      /\ TypeOK /\ RequestsOK /\ IdsReserved /\ OpenOnce /\ ClosedOnce
  BY DEF GdprInvariant, history
<1>2. TypeOK'
  BY <1>1 DEF TypeOK, Moves, Slot
<1>3. RequestsOK'
  <2>1. RequestOK(x)'
    BY <1>1 DEF RequestOK
  <2> QED
    BY <1>1, <2>1, RequestsKept
<1>4. IdsReserved'
  BY <1>1, IdsKept
<1>5. \A e \in Emails : \A i \in Ids : Open(i, e)' => Open(i, e)
  BY <1>1 DEF Open, Moves
<1>6. OpenOnce'
  BY <1>1, <1>5, OpenKept
<1>7. /\ \A i \in Ids : Done(i) => Done(i)'
      /\ \A q \in Requests : req'[q].step = "complete" => req'[q] = req[q]
  BY <1>1 DEF Done, Moves
<1>8. ClosedOnce'
  BY <1>1, <1>7, ClosedKept
<1> QED
  BY <1>2, <1>3, <1>4, <1>6, <1>8 DEF GdprInvariant

(* The same of a step that looks nothing up in the log. *)
LEMMA QuietStep ==
  ASSUME GdprInvariant, NEW r \in Requests, NEW x, Moves(r, x), RequestOK(x),
         UNCHANGED <<exports, log, history>>,
         Creating(x) => Creating(req[r]) /\ x.id = req[r].id,
         x.id \in {None, req[r].id} \/ (x.id \in Ids /\ exports[x.id] # None),
         x.kind = "erasure" => x.id = req[r].id /\ x.email = req[r].email /\ req[r].kind = "erasure",
         x.step \notin {"append", "complete"}
  PROVE  GdprInvariant'
<1>1. ChainOK /\ log' \in [Stamps -> Entries \cup {None}]
  BY DEF GdprInvariant, TypeOK
<1>2. \A q \in Requests : req'[q].step = "append" => req'[q] = req[q]
  BY DEF Moves
<1>3. ChainOK'
  BY <1>1, <1>2, ChainKept
<1> QED
  BY <1>1, <1>3, RequestStep

(* The slot of a request that ends. *)
LEMMA IdleOK ==
  /\ RequestOK(Idle) /\ ~Creating(Idle) /\ Idle.id = None
  /\ Idle.kind # "erasure" /\ Idle.step = "idle"
BY ComplianceParameters DEF RequestOK, Creating, Idle

LEMMA FailStep ==
  ASSUME GdprInvariant, NEW r \in Requests, Fail(r)
  PROVE  GdprInvariant'
<1>1. Moves(r, Idle) /\ UNCHANGED <<exports, log, history>>
  BY EndMoves DEF GdprInvariant, Fail
<1> QED
  BY <1>1, IdleOK, QuietStep

LEMMA LogEventStep ==
  ASSUME GdprInvariant, NEW r \in Requests, NEW t \in Tenants, LogEvent(r, t)
  PROVE  GdprInvariant'
<1> DEFINE x == [Idle EXCEPT !.step = "last", !.kind = "event", !.tenant = t]
<1>1. x \in Slot /\ x.step = "last" /\ x.kind = "event" /\ x.tenant = t /\ x.id = None
  BY DEF Idle, Slot
<1>2. Moves(r, x) /\ UNCHANGED <<exports, log, history>>
  BY <1>1, Move DEF GdprInvariant, LogEvent
<1>3. RequestOK(x) /\ ~Creating(x)
  BY <1>1 DEF RequestOK, Creating
<1> QED
  BY <1>1, <1>2, <1>3, QuietStep

LEMMA GetExportStep ==
  ASSUME GdprInvariant, NEW r \in Requests, NEW i \in Ids, GetExport(r, i)
  PROVE  GdprInvariant'
<1> DEFINE x == [Idle EXCEPT !.step = "expire", !.kind = "get", !.id = i]
<1>1. x \in Slot /\ x.step = "expire" /\ x.kind = "get" /\ x.id = i /\ exports[i] # None
  BY DEF Idle, Slot, GetExport
<1>2. Moves(r, x) /\ UNCHANGED <<exports, log, history>>
  BY <1>1, Move DEF GdprInvariant, GetExport
<1>3. RequestOK(x) /\ ~Creating(x)
  BY <1>1 DEF RequestOK, Creating
<1> QED
  BY <1>1, <1>2, <1>3, QuietStep

(* A tenant with entries has a newest one. *)
LEMMA NewestThere ==
  ASSUME NEW t
  PROVE  Latest(EntriesOf(t)) = {} => EntriesOf(t) = {}
<1> SUFFICES ASSUME EntriesOf(t) # {}
             PROVE  Latest(EntriesOf(t)) # {}
  OBVIOUS
<1>1. EntriesOf(t) \subseteq Nat /\ \A s \in EntriesOf(t) : s <= MaxEntries
  BY ComplianceParameters DEF EntriesOf, Stored, Stamps
<1> DEFINE E == EntriesOf(t)
           Above(s) == {u \in E : s < u}
           T == {Above(s) : s \in E}
<1>2. IsFiniteSet(E)
  <2>1. E \subseteq 1..MaxEntries
    BY DEF EntriesOf, Stored, Stamps
  <2> QED
    BY <2>1, FS_Interval, FS_Subset, ComplianceParameters
<1>3. PICK X \in T : \A Y \in T : <<Y, X>> \notin StrictSubsetOrdering(E)
  <2>1. T \subseteq SUBSET E /\ T # {}
    OBVIOUS
  <2> HIDE DEF T, E
  <2> QED
    BY <1>2, <2>1, FS_StrictSubsetOrderingWellFounded, FS_FiniteSubsetsOfFinite, WFMin
<1>4. PICK s \in E : X = Above(s)
  BY <1>3
<1>5. ASSUME NEW u \in E, ~(u <= s)
      PROVE  FALSE
  <2>1. s \in Nat /\ u \in Nat /\ s < u
    BY <1>1, <1>5
  <2>2. u \in Above(s) /\ u \notin Above(u) /\ Above(u) \subseteq Above(s)
    BY <1>1, <2>1
  <2>3. Above(u) \in T /\ Above(u) \in SUBSET E /\ Above(s) \in SUBSET E
    OBVIOUS
  <2> HIDE DEF Above, T, E
  <2> QED
    BY <1>3, <1>4, <2>2, <2>3 DEF StrictSubsetOrdering
<1> QED
  BY <1>5 DEF Latest

(* The last entry that a lookup finds is the last of what it sees. *)
LEMMA FindLastStep ==
  ASSUME GdprInvariant, NEW r \in Requests, FindLast(r)
  PROVE  GdprInvariant'
<1>1. /\ TypeOK /\ RequestsOK /\ ChainOK /\ req[r].step = "last" /\ req[r] \in Slot
      /\ UNCHANGED <<exports, log, history>>
  BY SlotsTyped DEF GdprInvariant, FindLast
<1>2. PICK prev \in LastLog(req[r].tenant) \cup {None}, failed \in BOOLEAN :
        /\ prev = None => LastLog(req[r].tenant) = {} \/ failed
        /\ req' = [req EXCEPT ![r].step = "append", ![r].prev = prev,
                             ![r].seen = Stored, ![r].failed = failed]
  <2> DEFINE last == LastLog(req[r].tenant)
             Take(prev, failed) ==
               req' = [req EXCEPT ![r].step = "append", ![r].prev = prev,
                                  ![r].seen = Stored, ![r].failed = failed]
  <2>1. \/ last = {} /\ Take(None, FALSE)
        \/ \E s \in last : Take(s, FALSE) \/ Take(None, TRUE)
    BY DEF FindLast
  <2>2. \A s \in last : s # None
    BY ComplianceParameters DEF LastLog, Latest, EntriesOf, Stored
  <2> QED
    BY <2>1, <2>2
<1>3. PICK x \in Slot : /\ x.step = "append" /\ x.prev = prev /\ x.seen = Stored
                        /\ x.failed = failed
                        /\ x.kind = req[r].kind /\ x.email = req[r].email
                        /\ x.tenant = req[r].tenant /\ x.id = req[r].id
                        /\ req' = [req EXCEPT ![r] = x]
  <2> DEFINE x == [req[r] EXCEPT !.step = "append", !.prev = prev, !.seen = Stored,
                                !.failed = failed]
  <2>1. prev \in Stamps \cup {None} /\ Stored \subseteq Stamps
    BY DEF LastLog, Latest, EntriesOf, Stored
  <2>2. x \in Slot
    BY <1>1, <2>1 DEF Slot
  <2>3. /\ x.step = "append" /\ x.prev = prev /\ x.seen = Stored /\ x.failed = failed
        /\ x.kind = req[r].kind /\ x.email = req[r].email
        /\ x.tenant = req[r].tenant /\ x.id = req[r].id
    BY <1>1 DEF Slot
  <2>4. req' = [req EXCEPT ![r] = x]
    BY <1>1, <1>2 DEF TypeOK
  <2> QED
    BY <2>2, <2>3, <2>4
<1>4. Moves(r, x)
  BY <1>1, <1>3, Move
<1>5. RequestOK(x) /\ (Creating(x) => Creating(req[r]))
  BY <1>1, <1>3 DEF RequestsOK, RequestOK, Creating
<1>6. ChainOK'
  <2>1. Stored' = Stored /\ \A t : EntriesOf(t)' = EntriesOf(t)
    BY <1>1 DEF Stored, EntriesOf
  <2>2. \A s \in Stamps : EntryOK(s)'
    BY <1>1, <2>1 DEF ChainOK, EntryOK
  <2>3. ASSUME NEW q \in Requests
        PROVE  FoundOK(req[q])'
    <3>1. CASE q # r
      BY <1>1, <1>4, <2>1, <3>1 DEF Moves, ChainOK, FoundOK
    <3>2. CASE q = r
      <4>1. x.prev # None => /\ x.prev \in x.seen \cap EntriesOf(x.tenant)
                             /\ \A u \in x.seen \cap EntriesOf(x.tenant) : u <= x.prev
        BY <1>2, <1>3 DEF LastLog, Latest, EntriesOf
      <4>2. x.prev = None => x.seen \cap EntriesOf(x.tenant) = {} \/ x.failed
        <5>1. LastLog(x.tenant) = {} => EntriesOf(x.tenant) = {}
          BY NewestThere DEF LastLog
        <5> QED
          BY <1>2, <1>3, <5>1
      <4> QED
        BY <1>3, <1>4, <2>1, <3>2, <4>1, <4>2 DEF Moves, FoundOK
    <3> QED
      BY <3>1, <3>2
  <2> QED
    BY <2>2, <2>3 DEF ChainOK
<1>7. log' \in [Stamps -> Entries \cup {None}]
  BY <1>1 DEF TypeOK
<1> QED
  BY <1>1, <1>3, <1>4, <1>5, <1>6, <1>7, RequestStep

(* An append adds an entry, which follows the one its lookup found. *)
LEMMA ChainGrows ==
  ASSUME GdprInvariant, NEW r \in Requests, req[r].step = "append",
         NEW s \in LaterThan(req[r].seen) \ Stored, log' = [log EXCEPT ![s] = Entry(r)],
         \A q \in Requests : req'[q].step = "append" => req'[q] = req[q]
  PROVE  log' \in [Stamps -> Entries \cup {None}] /\ ChainOK'
<1>0. PICK t \in Tenants : t = req[r].tenant
  BY DEF GdprInvariant, RequestsOK, RequestOK
<1>1. /\ TypeOK /\ ChainOK /\ req[r] \in Slot
      /\ s \in Stamps /\ log[s] = None /\ \A u \in req[r].seen : u < s
  BY SlotsTyped DEF GdprInvariant, RequestsOK, RequestOK, LaterThan, Stored
<1>2. /\ Entry(r) \in Entries /\ Entry(r) # None
      /\ Entry(r).tenant = t /\ Entry(r).prev = req[r].prev
      /\ Entry(r).seen = req[r].seen \cap EntriesOf(t)
      /\ Entry(r).failed = req[r].failed
  BY <1>0, <1>1, ComplianceParameters DEF Entry, Entries, Slot
<1>3. log'[s] = Entry(r) /\ \A u \in Stamps : u # s => log'[u] = log[u]
  BY <1>1 DEF TypeOK
<1>4. log' \in [Stamps -> Entries \cup {None}]
  BY <1>1, <1>2 DEF TypeOK
<1>5. \A u \in Stored : u \in Stored' /\ u # s /\ log'[u] = log[u]
  BY <1>1, <1>3 DEF Stored
<1>6. \A v : EntriesOf(v) \subseteq EntriesOf(v)'
  BY <1>5 DEF EntriesOf
<1>7. \A v, u : u \in Stored /\ u \in EntriesOf(v)' => u \in EntriesOf(v)
  BY <1>5 DEF EntriesOf
<1>8. FoundOK(req[r])
  BY <1>1 DEF ChainOK
<1>9. ASSUME NEW u \in Stamps
      PROVE  EntryOK(u)'
  <2>1. CASE u = s
    <3>1. /\ log'[u].tenant = t /\ log'[u].prev = req[r].prev
          /\ log'[u].seen = req[r].seen \cap EntriesOf(t)
          /\ log'[u].failed = req[r].failed
      BY <1>2, <1>3, <2>1
    <3>2. log'[u].seen \subseteq EntriesOf(t)'
      BY <1>6, <3>1
    <3>3. \A v \in log'[u].seen : v < u
      BY <1>1, <2>1, <3>1
    <3>4. log'[u].prev # None => /\ log'[u].prev \in log'[u].seen
                                 /\ \A v \in log'[u].seen : v <= log'[u].prev
      BY <1>0, <1>8, <3>1 DEF FoundOK
    <3>5. log'[u].prev = None => log'[u].seen = {} \/ log'[u].failed
      BY <1>0, <1>8, <3>1 DEF FoundOK
    <3> QED
      BY <3>1, <3>2, <3>3, <3>4, <3>5 DEF EntryOK, EntriesOf
  <2>2. CASE u # s
    <3>1. log'[u] = log[u] /\ EntryOK(u)
      BY <1>1, <1>3, <2>2 DEF ChainOK
    <3> QED
      BY <1>6, <3>1 DEF EntryOK
  <2> QED
    BY <2>1, <2>2
<1>10. ASSUME NEW q \in Requests
       PROVE  FoundOK(req[q])'
  <2> SUFFICES ASSUME req'[q].step = "append"
               PROVE  FoundOK(req[q])'
    BY DEF FoundOK
  <2>1. req'[q] = req[q] /\ FoundOK(req[q]) /\ req[q].step = "append"
    BY <1>1 DEF ChainOK
  <2>2. req[q].seen \subseteq Stored /\ req[q].seen \subseteq Stored'
    BY <1>5, <2>1 DEF FoundOK
  <2>3. req[q].seen \cap EntriesOf(req[q].tenant)' = req[q].seen \cap EntriesOf(req[q].tenant)
    BY <1>6, <1>7, <2>2
  <2> QED
    BY <2>1, <2>2, <2>3 DEF FoundOK
<1> QED
  BY <1>4, <1>9, <1>10 DEF ChainOK

LEMMA AppendStep ==
  ASSUME GdprInvariant, NEW r \in Requests, AppendEntry(r)
  PROVE  GdprInvariant'
<1>1. /\ TypeOK /\ RequestsOK /\ ChainOK /\ req[r] \in Slot /\ req[r].step = "append"
      /\ Logged(r) /\ UNCHANGED <<exports, history>>
  BY SlotsTyped DEF GdprInvariant, AppendEntry
<1>2. PICK x \in Slot :
        /\ Moves(r, x) /\ RequestOK(x)
        /\ Creating(x) => Creating(req[r]) /\ x.id = req[r].id
        /\ x.id \in {None, req[r].id}
        /\ x.kind = "erasure" => x.id = req[r].id /\ x.email = req[r].email /\ req[r].kind = "erasure"
        /\ x.step \notin {"append", "complete"}
  <2>1. CASE req[r].kind # "erasure"
    <3>1. Moves(r, Idle)
      BY <1>1, <2>1, EndMoves DEF Logged
    <3> QED
      BY <3>1, IdleSlot, IdleOK
  <2>2. CASE req[r].kind = "erasure"
    <3> DEFINE x == [Idle EXCEPT !.step = "store", !.kind = "erasure",
                       !.email = req[r].email, !.id = req[r].id]
    <3>1. req[r].id \in Ids /\ req[r].email \in Emails
      BY <1>1, <2>2 DEF RequestsOK, RequestOK
    <3>2. /\ x \in Slot /\ x.step = "store" /\ x.kind = "erasure"
          /\ x.email = req[r].email /\ x.id = req[r].id
      BY <3>1 DEF Idle, Slot
    <3>3. Moves(r, x)
      BY <1>1, <2>2, <3>2, Move DEF Logged
    <3>4. RequestOK(x) /\ Creating(req[r])
      BY <2>2, <3>1, <3>2 DEF RequestOK, Creating
    <3> QED
      BY <2>2, <3>2, <3>3, <3>4
  <2> QED
    BY <2>1, <2>2
<1>3. \A q \in Requests : req'[q].step = "append" => req'[q] = req[q]
  BY <1>2 DEF Moves
<1>4. log' \in [Stamps -> Entries \cup {None}] /\ ChainOK'
  <2>1. CASE UNCHANGED log
    BY <1>1, <1>3, <2>1, ChainKept DEF TypeOK
  <2>2. ASSUME NEW s \in LaterThan(req[r].seen) \ Stored, log' = [log EXCEPT ![s] = Entry(r)]
        PROVE  log' \in [Stamps -> Entries \cup {None}] /\ ChainOK'
    BY <1>1, <1>3, <2>2, ChainGrows
  <2> QED
    BY <2>1, <2>2 DEF AppendEntry
<1> QED
  BY <1>1, <1>2, <1>4, RequestStep

-----------------------------------------------------------------------------
(* Steps that write a row. *)

(* A row is stored for the first time by the request that has its id, and   *)
(* is changed later only to one that is not pending.                        *)
Stores(r, i, row) ==
  /\ req[r].id = i
  /\ exports' = [exports EXCEPT ![i] = row]
  /\ exports[i] = None =>
       /\ Creating(req[r])
       /\ row.status = "pending_erasure" => req[r].kind = "erasure" /\ row.email = req[r].email
  /\ exports[i] # None => row.status # "pending_erasure"

LEMMA RowStep ==
  ASSUME GdprInvariant, NEW r \in Requests, NEW x, Moves(r, x), RequestOK(x),
         x.step \notin {"append", "complete"}, ~Creating(x), x.id \in {None, req[r].id},
         NEW i \in Ids, NEW row \in Rows, Stores(r, i, row),
         UNCHANGED <<log, together, blind>>, closed' \in [Ids -> 0..2]
  PROVE  /\ TypeOK' /\ RequestsOK' /\ IdsReserved' /\ ChainOK' /\ OpenOnce'
         /\ \A j \in Ids : Done(j) => Done(j)'
<1>1. /\ TypeOK /\ RequestsOK /\ IdsReserved /\ ChainOK /\ OpenOnce
  BY DEF GdprInvariant
<1>2. /\ exports' \in [Ids -> Rows \cup {None}] /\ row # None
      /\ exports'[i] = row /\ \A j \in Ids : j # i => exports'[j] = exports[j]
  BY <1>1, ComplianceParameters DEF TypeOK, Stores
<1>3. TypeOK'
  BY <1>1, <1>2 DEF TypeOK, Moves, Slot
<1>4. \A j \in Ids : exports[j] # None => exports'[j] # None
  BY <1>2
<1>5. RequestsOK'
  <2>1. RequestOK(x)'
    BY <1>4 DEF RequestOK
  <2> QED
    BY <1>1, <1>4, <2>1, RequestsKept
<1>6. IdsReserved'
  <2>1. ASSUME NEW q \in Requests, Creating(req'[q])
        PROVE  exports'[req[q].id] = exports[req[q].id]
    <3>1. q # r /\ Creating(req[q])
      BY <2>1 DEF Moves, Creating
    <3>2. req[q].id \in Ids /\ req[r].id # req[q].id
      BY <1>1, <3>1 DEF IdsReserved, RequestsOK, RequestOK, Creating
    <3> QED
      BY <1>2, <3>2 DEF Stores
  <2>2. \A q \in Requests : Creating(req[q])' => exports'[req[q].id] = exports[req[q].id]
    BY <2>1 DEF Creating
  <2> QED
    BY <1>1, <2>2, IdsKept
<1>7. \A q \in Requests : req'[q].step = "append" => req'[q] = req[q]
  BY DEF Moves
<1>8. ChainOK'
  BY <1>1, <1>7, ChainKept
<1>9. ASSUME NEW e \in Emails, NEW j \in Ids, Open(j, e)'
      PROVE  Open(j, e)
  <2>1. ASSUME NEW q \in Requests, req'[q].kind = "erasure", req'[q].email = e, req'[q].id = j
        PROVE  Open(j, e)
    <3>1. q # r /\ req'[q] = req[q]
      BY <2>1 DEF Moves, Creating
    <3> QED
      BY <2>1, <3>1 DEF Open
  <2>2. CASE exports'[j] # None /\ exports'[j].email = e /\ exports'[j].status = "pending_erasure"
    <3>1. CASE j # i
      BY <1>2, <2>2, <3>1 DEF Open
    <3>2. CASE j = i
      <4>1. row.status = "pending_erasure" /\ row.email = e /\ exports[i] = None
        BY <1>2, <2>2, <3>2 DEF Stores
      <4>2. req[r].kind = "erasure" /\ req[r].email = e /\ req[r].id = i
        BY <4>1 DEF Stores
      <4> QED
        BY <3>2, <4>2 DEF Open
    <3> QED
      BY <3>1, <3>2
  <2> QED
    BY <1>9, <2>1, <2>2 DEF Open
<1>10. OpenOnce'
  BY <1>1, <1>9, OpenKept
<1>11. \A j \in Ids : Done(j) => Done(j)'
  BY <1>2 DEF Done, Stores
<1> QED
  BY <1>3, <1>5, <1>6, <1>8, <1>10, <1>11

(* A row that is stored, or marked as expired, carries nothing out. *)
LEMMA UnclosedStep ==
  ASSUME GdprInvariant, NEW r \in Requests, NEW x, Moves(r, x), RequestOK(x),
         x.step \notin {"append", "complete"}, ~Creating(x), x.id \in {None, req[r].id},
         NEW i \in Ids, NEW row \in Rows, Stores(r, i, row), UNCHANGED <<log, history>>
  PROVE  GdprInvariant'
<1>1. UNCHANGED <<log, together, blind, closed>> /\ ClosedOnce /\ closed' \in [Ids -> 0..2]
  BY DEF history, GdprInvariant, TypeOK
<1>2. /\ TypeOK' /\ RequestsOK' /\ IdsReserved' /\ ChainOK' /\ OpenOnce'
      /\ \A j \in Ids : Done(j) => Done(j)'
  BY <1>1, RowStep
<1>3. \A q \in Requests : req'[q].step = "complete" => req'[q] = req[q]
  BY DEF Moves
<1>4. ClosedOnce'
  BY <1>1, <1>2, <1>3, ClosedKept
<1> QED
  BY <1>2, <1>4 DEF GdprInvariant

LEMMA StoreExportStep ==
  ASSUME GdprInvariant, NEW r \in Requests, StoreExport(r)
  PROVE  GdprInvariant'
<1>1. /\ TypeOK /\ RequestsOK /\ req[r] \in Slot
      /\ req[r].step = "store" /\ req[r].kind = "export" /\ UNCHANGED <<log, history>>
      /\ req[r].id \in Ids /\ req[r].email \in Emails
  BY SlotsTyped DEF GdprInvariant, StoreExport, RequestsOK, RequestOK
<1>2. PICK i \in Ids : i = req[r].id
  BY <1>1
<1>3. PICK row \in Rows : row = Row("export", req[r].email) /\ row.status = "ready"
  <2>1. /\ Row("export", req[r].email) \in Rows
        /\ Row("export", req[r].email).status = "ready"
    BY <1>1 DEF Row, Rows
  <2> QED
    BY <2>1
<1>4. Creating(req[r]) /\ exports[i] = None
  BY <1>1, <1>2 DEF GdprInvariant, IdsReserved, Creating
<1>5. Stores(r, i, row)
  BY <1>2, <1>3, <1>4 DEF Stores, StoreExport
<1>6. PICK x \in Slot : /\ x.step = "last" /\ x.kind = "export" /\ x.id = req[r].id
                        /\ x.email = req[r].email /\ x.tenant = req[r].tenant
                        /\ req' = [req EXCEPT ![r] = x]
  <2> DEFINE x == [req[r] EXCEPT !.step = "last"]
  <2>1. x \in Slot
    BY <1>1 DEF Slot
  <2>2. /\ x.step = "last" /\ x.kind = "export" /\ x.id = req[r].id
        /\ x.email = req[r].email /\ x.tenant = req[r].tenant
    BY <1>1 DEF Slot
  <2>3. req' = [req EXCEPT ![r] = x]
    BY <1>1 DEF TypeOK, StoreExport, Goto
  <2> QED
    BY <2>1, <2>2, <2>3
<1>7. Moves(r, x)
  BY <1>1, <1>6, Move
<1>8. RequestOK(x) /\ ~Creating(x)
  BY <1>1, <1>6 DEF RequestsOK, RequestOK, Creating
<1> QED
  BY <1>1, <1>5, <1>6, <1>7, <1>8, UnclosedStep

LEMMA StoreErasureStep ==
  ASSUME GdprInvariant, NEW r \in Requests, StoreErasure(r)
  PROVE  GdprInvariant'
<1>1. /\ TypeOK /\ req[r].step = "store" /\ req[r].kind = "erasure" /\ UNCHANGED <<log, history>>
      /\ req[r].id \in Ids /\ req[r].email \in Emails
  BY DEF GdprInvariant, StoreErasure, RequestsOK, RequestOK
<1>2. PICK i \in Ids : i = req[r].id
  BY <1>1
<1>3. PICK row \in Rows : row = Row("erasure", req[r].email) /\ row.email = req[r].email
  <2>1. /\ Row("erasure", req[r].email) \in Rows
        /\ Row("erasure", req[r].email).email = req[r].email
    BY <1>1 DEF Row, Rows
  <2> QED
    BY <2>1
<1>4. Creating(req[r]) /\ exports[i] = None
  BY <1>1, <1>2 DEF GdprInvariant, IdsReserved, Creating
<1>5. Stores(r, i, row)
  BY <1>1, <1>2, <1>3, <1>4 DEF Stores, StoreErasure
<1>6. Moves(r, Idle)
  BY <1>1, EndMoves DEF StoreErasure
<1> QED
  BY <1>1, <1>5, <1>6, IdleOK, UnclosedStep

(* What MarkExpired and CompleteErasure write back. *)
LEMMA StatusStored ==
  ASSUME GdprInvariant, NEW r \in Requests, req[r].step \in {"expire", "complete"},
         NEW status \in {"expired", "completed"}, SetStatus(req[r].id, status)
  PROVE  \E i \in Ids : \E row \in Rows :
           i = req[r].id /\ exports[i] # None /\ row.status = status /\ Stores(r, i, row)
<1>1. TypeOK /\ req[r].id \in Ids /\ exports[req[r].id] # None
  BY DEF GdprInvariant, RequestsOK, RequestOK
<1>2. PICK i \in Ids : i = req[r].id
  BY <1>1
<1>3. exports[i] \in Rows
  BY <1>1, <1>2 DEF TypeOK
<1>4. PICK row \in Rows : row.status = status /\ exports' = [exports EXCEPT ![i] = row]
  <2> DEFINE row == [exports[i] EXCEPT !.status = status]
  <2>1. row \in Rows /\ row.status = status
    BY <1>3 DEF Rows
  <2>2. exports' = [exports EXCEPT ![i] = row]
    BY <1>1, <1>2 DEF SetStatus, TypeOK
  <2> QED
    BY <2>1, <2>2
<1>5. Stores(r, i, row)
  BY <1>1, <1>2, <1>4 DEF Stores
<1> QED
  BY <1>1, <1>2, <1>4, <1>5

LEMMA MarkExpiredStep ==
  ASSUME GdprInvariant, NEW r \in Requests, MarkExpired(r)
  PROVE  GdprInvariant'
<1>1. req[r].step = "expire" /\ SetStatus(req[r].id, "expired") /\ UNCHANGED <<log, history>>
  BY DEF MarkExpired
<1>2. PICK i \in Ids : \E row \in Rows : Stores(r, i, row)
  BY <1>1, StatusStored
<1>3. Moves(r, Idle)
  BY EndMoves DEF GdprInvariant, MarkExpired
<1> QED
  BY <1>1, <1>2, <1>3, IdleOK, UnclosedStep

(* The only step that carries an erasure out. *)
LEMMA CompleteErasureStep ==
  ASSUME GdprInvariant, NEW r \in Requests, CompleteErasure(r)
  PROVE  GdprInvariant'
<1>1. /\ req[r].step = "complete" /\ SetStatus(req[r].id, "completed")
      /\ UNCHANGED <<log, together, blind>> /\ TypeOK /\ ClosedOnce
  BY DEF GdprInvariant, CompleteErasure
<1>2. PICK i \in Ids : i = req[r].id /\ \E row \in Rows : row.status = "completed" /\ Stores(r, i, row)
  BY <1>1, StatusStored
<1>3. PICK row \in Rows : row.status = "completed" /\ Stores(r, i, row)
  BY <1>2
<1>4. Moves(r, Idle)
  BY <1>1, EndMoves DEF CompleteErasure
<1>5. /\ closed'[i] = IF closed[i] < 2 THEN closed[i] + 1 ELSE closed[i]
      /\ \A j \in Ids : j # i => closed'[j] = closed[j]
      /\ closed' \in [Ids -> 0..2]
  BY <1>1, <1>2 DEF CompleteErasure, TypeOK
<1>6. /\ TypeOK' /\ RequestsOK' /\ IdsReserved' /\ ChainOK' /\ OpenOnce'
      /\ \A j \in Ids : Done(j) => Done(j)'
  BY <1>1, <1>3, <1>4, <1>5, IdleOK, RowStep
<1>7. Done(i)'
  BY <1>1, <1>3, ComplianceParameters DEF Done, Stores, TypeOK
<1>8. \A q \in Requests, j \in Ids : Completing(q, j)' => Completing(q, j) /\ q # r
  BY <1>4, IdleOK DEF Completing, Moves
<1>9. ASSUME NEW j \in Ids, {j} \notin together'
      PROVE  /\ closed'[j] > 0 =>
                  closed'[j] = 1 /\ Done(j)' /\ \A q \in Requests : ~Completing(q, j)'
             /\ \A p, q \in Requests : Completing(p, j)' /\ Completing(q, j)' => p = q
  <2>1. /\ closed[j] > 0 =>
              closed[j] = 1 /\ Done(j) /\ \A q \in Requests : ~Completing(q, j)
        /\ \A p, q \in Requests : Completing(p, j) /\ Completing(q, j) => p = q
    BY <1>1, <1>9 DEF ClosedOnce
  <2>2. \A p, q \in Requests : Completing(p, j)' /\ Completing(q, j)' => p = q
    BY <1>8, <2>1
  <2>3. CASE j # i
    BY <1>5, <1>6, <1>8, <2>1, <2>2, <2>3
  <2>4. CASE j = i
    <3>1. Completing(r, i)
      BY <1>1, <1>2 DEF Completing
    <3>2. closed'[i] = 1
      BY <1>1, <1>5, <2>1, <2>4, <3>1 DEF TypeOK
    <3>3. \A q \in Requests : ~Completing(q, j)'
      BY <1>8, <2>1, <2>4, <3>1
    <3> QED
      BY <1>7, <2>2, <2>4, <3>2, <3>3
  <2> QED
    BY <2>3, <2>4
<1>10. ClosedOnce'
  BY <1>9 DEF ClosedOnce
<1> QED
  BY <1>6, <1>10 DEF GdprInvariant

-----------------------------------------------------------------------------
(* Requests that take a new id, and executions. *)

LEMMA IdsTaken ==
  ASSUME GdprInvariant, NEW r \in Requests, NEW x, NEW i \in Ids, Moves(r, x), x.id = i,
         Fresh(i), UNCHANGED exports
  PROVE  IdsReserved'
<1> SUFFICES ASSUME NEW q \in Requests, Creating(req'[q])
             PROVE  /\ exports'[req'[q].id] = None
                    /\ \A p \in Requests \ {q} : req'[p].id # req'[q].id
  BY DEF IdsReserved, Creating
<1>1. CASE q = r
  BY <1>1 DEF Moves, Fresh
<1>2. CASE q # r
  <2>1. req'[q] = req[q] /\ Creating(req[q])
    BY <1>2 DEF Moves
  <2>2. /\ exports[req[q].id] = None
        /\ \A p \in Requests \ {q} : req[p].id # req[q].id
        /\ req[q].id # i
    BY <2>1 DEF GdprInvariant, IdsReserved, Fresh
  <2> QED
    BY <1>2, <2>1, <2>2 DEF Moves
<1> QED
  BY <1>1, <1>2

LEMMA RequestExportStep ==
  ASSUME GdprInvariant, NEW r \in Requests, NEW e \in Emails, NEW t \in Tenants, NEW i \in Ids,
         RequestExport(r, e, t, i)
  PROVE  GdprInvariant'
<1> DEFINE x == [Idle EXCEPT !.step = "store", !.kind = "export",
                   !.email = e, !.tenant = t, !.id = i]
<1>1. /\ x \in Slot /\ x.step = "store" /\ x.kind = "export"
      /\ x.email = e /\ x.tenant = t /\ x.id = i
  BY DEF Idle, Slot
<1>2. /\ TypeOK /\ RequestsOK /\ ChainOK /\ OpenOnce /\ ClosedOnce
      /\ UNCHANGED <<exports, log, together, blind, closed>> /\ Fresh(i)
  BY DEF GdprInvariant, RequestExport, history
<1>3. Moves(r, x)
  BY <1>1, <1>2, Move DEF RequestExport
<1> HIDE DEF x
<1>4. TypeOK'
  BY <1>2, <1>3 DEF TypeOK, Moves, Slot
<1>5. RequestsOK'
  <2>1. RequestOK(x)'
    BY <1>1 DEF RequestOK
  <2> QED
    BY <1>2, <1>3, <2>1, RequestsKept
<1>6. IdsReserved'
  BY <1>1, <1>2, <1>3, IdsTaken
<1>7. \A q \in Requests : req'[q].step \in {"append", "complete"} => req'[q] = req[q]
  BY <1>1, <1>3 DEF Moves
<1>8. ChainOK'
  BY <1>2, <1>7, ChainKept
<1>9. \A f \in Emails : \A j \in Ids : Open(j, f)' => Open(j, f)
  BY <1>1, <1>2, <1>3 DEF Open, Moves
<1>10. OpenOnce'
  BY <1>2, <1>9, OpenKept
<1>11. \A j \in Ids : Done(j) => Done(j)'
  BY <1>2 DEF Done
<1>12. ClosedOnce'
  BY <1>2, <1>7, <1>11, ClosedKept
<1> QED
  BY <1>4, <1>5, <1>6, <1>8, <1>10, <1>12 DEF GdprInvariant

(* Whoever is open when an erasure is requested was asked for together with *)
(* it, unless the lookup failed: a row would have been found.               *)
LEMMA RequestErasureStep ==
  ASSUME GdprInvariant, NEW r \in Requests, NEW e \in Emails, NEW t \in Tenants, NEW i \in Ids,
         RequestErasure(r, e, t, i)
  PROVE  GdprInvariant'
<1> DEFINE x == [Idle EXCEPT !.step = "last", !.kind = "erasure",
                   !.email = e, !.tenant = t, !.id = i]
<1>1. /\ x \in Slot /\ x.step = "last" /\ x.kind = "erasure"
      /\ x.email = e /\ x.tenant = t /\ x.id = i
  BY DEF Idle, Slot
<1>2. /\ TypeOK /\ RequestsOK /\ ChainOK /\ OpenOnce /\ ClosedOnce
      /\ UNCHANGED <<exports, log, closed>> /\ Fresh(i) /\ req[r].step = "idle"
  BY DEF GdprInvariant, RequestErasure
<1>3. Moves(r, x)
  BY <1>1, <1>2, Move DEF RequestErasure
<1> HIDE DEF x
<1>4. /\ together \subseteq together'
      /\ \A q \in Requests \ {r} :
           req[q].kind = "erasure" /\ req[q].email = e => {i, req[q].id} \in together'
  BY DEF RequestErasure
<1>5. together' \subseteq SUBSET Ids
  <2>1. \A q \in Requests : req[q].kind = "erasure" => req[q].id \in Ids
    BY <1>2 DEF RequestsOK, RequestOK
  <2> QED
    BY <1>2, <2>1 DEF RequestErasure, TypeOK
<1>6. /\ blind \subseteq blind' /\ blind' \subseteq Ids
      /\ i \in blind' \/ \A j \in Ids : ~(/\ exports[j] # None /\ exports[j].email = e
                                          /\ exports[j].status = "pending_erasure")
  BY <1>2 DEF RequestErasure, TypeOK, Pending
<1>7. TypeOK'
  BY <1>2, <1>3, <1>5, <1>6 DEF TypeOK, Moves, Slot
<1>8. RequestsOK'
  <2>1. RequestOK(x)'
    BY <1>1 DEF RequestOK
  <2> QED
    BY <1>2, <1>3, <2>1, RequestsKept
<1>9. IdsReserved'
  BY <1>1, <1>2, <1>3, IdsTaken
<1>10. \A q \in Requests : req'[q].step \in {"append", "complete"} => req'[q] = req[q]
  BY <1>1, <1>3 DEF Moves
<1>11. ChainOK'
  BY <1>2, <1>10, ChainKept
<1>12. \A j \in Ids : Done(j) => Done(j)'
  BY <1>2 DEF Done
<1>13. ClosedOnce'
  BY <1>2, <1>4, <1>10, <1>12, ClosedKept
<1>14. \A f \in Emails : \A j \in Ids : Open(j, f)' => Open(j, f) \/ (j = i /\ f = e)
  BY <1>1, <1>2, <1>3 DEF Open, Moves
<1>15. \A j \in Ids : j # i /\ Open(j, e) => {i, j} \in together' \/ i \in blind'
  <2> SUFFICES ASSUME NEW j \in Ids, j # i, Open(j, e), i \notin blind'
               PROVE  {i, j} \in together'
    OBVIOUS
  <2>1. PICK q \in Requests : req[q].kind = "erasure" /\ req[q].email = e /\ req[q].id = j
    BY <1>6 DEF Open
  <2>2. q # r
    BY <1>2, <2>1, ComplianceParameters DEF RequestsOK, RequestOK
  <2> QED
    BY <1>4, <2>1, <2>2
<1>16. OpenOnce'
  <2> SUFFICES ASSUME NEW f \in Emails, NEW j \in Ids, NEW k \in Ids, j # k, Open(j, f)', Open(k, f)'
               PROVE  {j, k} \in together' \/ j \in blind' \/ k \in blind'
    BY DEF OpenOnce
  <2>1. CASE j = i /\ f = e
    <3>1. Open(k, e)
      BY <1>14, <2>1
    <3> QED
      BY <1>15, <2>1, <3>1
  <2>2. CASE k = i /\ f = e
    <3>1. Open(j, e)
      BY <1>14, <2>2
    <3>2. {j, k} = {k, j}
      OBVIOUS
    <3> QED
      BY <1>15, <2>2, <3>1, <3>2
  <2>3. CASE Open(j, f) /\ Open(k, f)
    <3>1. {j, k} \in together \/ j \in blind \/ k \in blind
      BY <1>2, <2>3 DEF OpenOnce
    <3> QED
      BY <1>4, <1>6, <3>1
  <2> QED
    BY <1>14, <2>1, <2>2, <2>3
<1> QED
  BY <1>7, <1>8, <1>9, <1>11, <1>13, <1>16 DEF GdprInvariant

LEMMA ExecuteErasureStep ==
  ASSUME GdprInvariant, NEW r \in Requests, NEW i \in Ids, ExecuteErasure(r, i)
  PROVE  GdprInvariant'
<1> DEFINE x == [Idle EXCEPT !.step = "complete", !.kind = "execute", !.id = i]
<1>1. x \in Slot /\ x.step = "complete" /\ x.kind = "execute" /\ x.id = i
  BY DEF Idle, Slot
<1>2. /\ TypeOK /\ RequestsOK /\ IdsReserved /\ ChainOK /\ OpenOnce /\ ClosedOnce
      /\ UNCHANGED <<exports, log, blind, closed>> /\ exports[i] # None /\ ~Done(i)
  BY DEF GdprInvariant, ExecuteErasure, Done
<1>3. Moves(r, x)
  BY <1>1, <1>2, Move DEF ExecuteErasure
<1> HIDE DEF x
<1>4. /\ together \subseteq together'
      /\ \A q \in Requests : q # r /\ Completing(q, i) => {i} \in together'
  BY DEF ExecuteErasure, Completing
<1>5. together' \subseteq SUBSET Ids
  BY <1>2 DEF ExecuteErasure, TypeOK
<1>6. TypeOK'
  BY <1>2, <1>3, <1>5 DEF TypeOK, Moves, Slot
<1>7. RequestsOK'
  <2>1. RequestOK(x)'
    BY <1>1, <1>2 DEF RequestOK
  <2> QED
    BY <1>2, <1>3, <2>1, RequestsKept
<1>8. IdsReserved'
  <2>1. ~Creating(x)
    BY <1>1 DEF Creating
  <2> QED
    BY <1>1, <1>2, <1>3, <2>1, IdsKept
<1>9. \A q \in Requests : req'[q].step = "append" => req'[q] = req[q]
  BY <1>1, <1>3 DEF Moves
<1>10. ChainOK'
  BY <1>2, <1>9, ChainKept
<1>11. \A f \in Emails : \A j \in Ids : Open(j, f)' => Open(j, f)
  BY <1>1, <1>2, <1>3 DEF Open, Moves
<1>12. OpenOnce'
  BY <1>2, <1>4, <1>11, OpenKept
<1>13. \A q \in Requests, j \in Ids : Completing(q, j)' => Completing(q, j) \/ (q = r /\ j = i)
  BY <1>1, <1>3 DEF Completing, Moves
<1>14. ASSUME NEW j \in Ids, {j} \notin together'
       PROVE  /\ closed'[j] > 0 =>
                   closed'[j] = 1 /\ Done(j)' /\ \A q \in Requests : ~Completing(q, j)'
              /\ \A p, q \in Requests : Completing(p, j)' /\ Completing(q, j)' => p = q
  <2>1. /\ closed[j] > 0 =>
              closed[j] = 1 /\ Done(j) /\ \A q \in Requests : ~Completing(q, j)
        /\ \A p, q \in Requests : Completing(p, j) /\ Completing(q, j) => p = q
    BY <1>2, <1>4, <1>14 DEF ClosedOnce
  <2>2. Done(j)' <=> Done(j)
    BY <1>2 DEF Done
  <2>3. closed[j] > 0 => j # i
    BY <1>2, <2>1
  <2>4. closed'[j] > 0 =>
          closed'[j] = 1 /\ Done(j)' /\ \A q \in Requests : ~Completing(q, j)'
    BY <1>2, <1>13, <2>1, <2>2, <2>3
  <2>5. \A p, q \in Requests : Completing(p, j)' /\ Completing(q, j)' => p = q
    BY <1>4, <1>13, <1>14, <2>1
  <2> QED
    BY <2>4, <2>5
<1>15. ClosedOnce'
  BY <1>14 DEF ClosedOnce
<1> QED
  BY <1>6, <1>7, <1>8, <1>10, <1>12, <1>15 DEF GdprInvariant

-----------------------------------------------------------------------------
(* The invariant, and what follows from it. *)

LEMMA InitGdpr == Init => GdprInvariant
<1> SUFFICES ASSUME Init
             PROVE  GdprInvariant
  OBVIOUS
<1>1. \A r \in Requests : req[r] = Idle
  BY DEF Init
<1>2. TypeOK
  BY IdleSlot DEF Init, TypeOK, Slot
<1>3. RequestsOK
  BY <1>1, IdleOK DEF RequestsOK
<1>4. IdsReserved
  BY <1>1, IdleOK DEF IdsReserved
<1>5. ChainOK
  BY <1>1, IdleOK DEF Init, ChainOK, EntryOK, FoundOK
<1>6. \A i \in Ids, e \in Emails : ~Open(i, e)
  BY <1>1, IdleOK DEF Init, Open
<1>7. OpenOnce
  BY <1>6 DEF OpenOnce
<1>8. \A i \in Ids : closed[i] = 0 /\ \A r \in Requests : ~Completing(r, i)
  BY <1>1, IdleOK DEF Init, Completing
<1>9. ClosedOnce
  BY <1>8 DEF ClosedOnce
<1> QED
  BY <1>2, <1>3, <1>4, <1>5, <1>7, <1>9 DEF GdprInvariant

LEMMA UnchangedGdpr ==
  ASSUME GdprInvariant, UNCHANGED vars
  PROVE  GdprInvariant'
<1>1. /\ UNCHANGED <<exports, log, req, together, blind, closed>>
      /\ TypeOK /\ RequestsOK /\ IdsReserved /\ ChainOK /\ OpenOnce /\ ClosedOnce
  BY DEF vars, history, GdprInvariant
<1>2. TypeOK'
  BY <1>1 DEF TypeOK
<1>3. RequestsOK'
  BY <1>1 DEF RequestsOK, RequestOK
<1>4. IdsReserved'
  BY <1>1 DEF IdsReserved, Creating
<1>5. ChainOK'
  BY <1>1, ChainKept
<1>6. \A e \in Emails : \A i \in Ids : Open(i, e)' => Open(i, e)
  BY <1>1 DEF Open
<1>7. OpenOnce'
  BY <1>1, <1>6, OpenKept
<1>8. \A i \in Ids : Done(i) => Done(i)'
  BY <1>1 DEF Done
<1>9. ClosedOnce'
  BY <1>1, <1>8, ClosedKept
<1> QED
  BY <1>2, <1>3, <1>4, <1>5, <1>7, <1>9 DEF GdprInvariant

LEMMA NextGdpr == GdprInvariant /\ [Next]_vars => GdprInvariant'
<1> SUFFICES ASSUME GdprInvariant, [Next]_vars
             PROVE  GdprInvariant'
  OBVIOUS
<1>1. CASE UNCHANGED vars
  BY <1>1, UnchangedGdpr
<1>2. ASSUME NEW r \in Requests, NEW e \in Emails, NEW t \in Tenants, NEW i \in Ids,
             RequestExport(r, e, t, i) \/ RequestErasure(r, e, t, i)
      PROVE  GdprInvariant'
  BY <1>2, RequestExportStep, RequestErasureStep
<1>3. ASSUME NEW r \in Requests, NEW i \in Ids, GetExport(r, i) \/ ExecuteErasure(r, i)
      PROVE  GdprInvariant'
  BY <1>3, GetExportStep, ExecuteErasureStep
<1>4. ASSUME NEW r \in Requests, NEW t \in Tenants, LogEvent(r, t)
      PROVE  GdprInvariant'
  BY <1>4, LogEventStep
<1>5. ASSUME NEW r \in Requests,
             StoreExport(r) \/ MarkExpired(r) \/ StoreErasure(r) \/ CompleteErasure(r)
      PROVE  GdprInvariant'
  BY <1>5, StoreExportStep, MarkExpiredStep, StoreErasureStep, CompleteErasureStep
<1>6. ASSUME NEW r \in Requests, FindLast(r) \/ AppendEntry(r) \/ Fail(r)
      PROVE  GdprInvariant'
  BY <1>6, FindLastStep, AppendStep, FailStep
<1> QED
  BY <1>1, <1>2, <1>3, <1>4, <1>5, <1>6 DEF Next

(* The inductive invariant holds in every reachable state. *)
THEOREM GdprInvariantHolds == Spec => []GdprInvariant
BY InitGdpr, NextGdpr, PTL DEF Spec

(* Whatever the requests do, an address has two pending erasures only when  *)
(* both were asked for together or a lookup failed.                         *)
THEOREM AlwaysOnePending == Spec => []OnePendingErasure
<1>1. GdprInvariant => OnePendingErasure
  <2> SUFFICES ASSUME GdprInvariant, NEW e \in Emails, NEW i \in Pending(e), NEW j \in Pending(e),
                      i # j
               PROVE  {i, j} \in together \/ i \in blind \/ j \in blind
    BY DEF OnePendingErasure
  <2>1. i \in Ids /\ j \in Ids /\ Open(i, e) /\ Open(j, e)
    BY DEF Pending, Open
  <2> QED
    BY <2>1 DEF GdprInvariant, OpenOnce
<1> QED
  BY <1>1, GdprInvariantHolds, PTL

(* However many appends race, an entry of the log follows an older one of   *)
(* its own tenant, unless it saw none or its lookup failed, and two follow  *)
(* the same only when neither saw the other.                                *)
THEOREM AlwaysChained == Spec => []ChainUnlessRaced
<1>1. GdprInvariant => ChainUnlessRaced
  <2> SUFFICES ASSUME GdprInvariant, NEW t \in Tenants, NEW s \in EntriesOf(t),
                      ~(log[s].prev = None /\ (log[s].seen = {} \/ log[s].failed))
               PROVE  /\ log[s].prev < s /\ log[s].prev \in EntriesOf(t)
                      /\ \A b \in EntriesOf(t) \ {s} :
                           log[b].prev = log[s].prev => s \notin log[b].seen
    BY DEF ChainUnlessRaced
  <2>1. \A b \in EntriesOf(t) : /\ b \in Stamps /\ log[b] # None /\ log[b].tenant = t
                                /\ EntryOK(b)
    BY DEF GdprInvariant, ChainOK, EntriesOf, Stored
  <2>2. log[s].prev # None /\ log[s].prev < s /\ log[s].prev \in EntriesOf(t)
    BY <2>1 DEF EntryOK
  <2>3. ASSUME NEW b \in EntriesOf(t) \ {s}, log[b].prev = log[s].prev, s \in log[b].seen
        PROVE  FALSE
    <3>1. s <= log[s].prev
      BY <2>1, <2>3 DEF EntryOK
    <3>2. s \in Nat /\ log[s].prev \in Nat
      BY <2>1, <2>2, ComplianceParameters DEF Stamps
    <3> QED
      BY <2>2, <3>1, <3>2
  <2> QED
    BY <2>2, <2>3
<1> QED
  BY <1>1, GdprInvariantHolds, PTL

(* Whatever reads mark meanwhile, an erasure is carried out once, unless    *)
(* two executions read its row together.                                    *)
THEOREM AlwaysExecutedOnce == Spec => []ExecutedOnce
<1>1. GdprInvariant => ExecutedOnce
  <2>1. GdprInvariant => \A i \in Ids : closed[i] \in 0..2
    BY DEF GdprInvariant, TypeOK
  <2>2. GdprInvariant => \A i \in Ids : {i} \notin together /\ closed[i] > 0 => closed[i] = 1
    BY DEF GdprInvariant, ClosedOnce
  <2> QED
    BY <2>1, <2>2 DEF ExecutedOnce
<1> QED
  BY <1>1, GdprInvariantHolds, PTL
=============================================================================
