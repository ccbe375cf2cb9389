----------------------------- MODULE Compliance -----------------------------
(***************************************************************************)
(* GDPR requests and the audit log (internal/service/gdpr.go, audit.go,    *)
(* internal/repository/export_repository.go, audit_repository.go).         *)
(*                                                                         *)
(* An export stores its row and then logs itself; an erasure logs itself   *)
(* and then stores its row.  The log has a chain of hashes per tenant: an  *)
(* entry carries the hash of the newest entry that Create found, one store *)
(* call before the insertion.                                              *)
(*                                                                         *)
(*   exports   exports[i]: the row of request id i, [kind, email, status], *)
(*             or None                                                     *)
(*   log       log[s]: the entry with timestamp s, [tenant, prev, about]   *)
(*             and history, the entries of the tenant that were there as   *)
(*             it looked for the newest and whether that lookup failed,    *)
(*             [seen, failed], or None                                     *)
(*   req       req[r]: the request slot r is serving                       *)
(*   together  history: the pairs of erasures that looked for a pending    *)
(*             one before the row of the other, and the erasures carried   *)
(*             out by two requests at once                                 *)
(*   blind     history: the erasures whose lookup failed                   *)
(*   closed    history: closed[i] counts the executions of erasure i       *)
(*                                                                         *)
(* The hash of an entry stands for the entry: its input has the request id *)
(* or the nanosecond in it.  An insertion may fail (the uuid key columns   *)
(* that AutoMigrate makes refuse ids like export_... and audit_... always).*)
(* Timestamps are those of a nanosecond clock that all requests share, and *)
(* no two are equal.  What an export contains is left out.                 *)
(***************************************************************************)
EXTENDS Naturals

CONSTANTS
  Emails,       \* the data subjects
  Tenants, Requests,
  Ids,          \* request ids
  MaxEntries,   \* bound: the timestamps taken
  None

Stamps == 1..MaxEntries

Rows == [kind : {"export", "erasure"}, email : Emails,
         status : {"ready", "pending_erasure", "expired", "completed"}]
Entries == [tenant : Tenants, prev : Stamps \cup {None}, about : Ids \cup {None},
            seen : SUBSET Stamps, failed : BOOLEAN]

ASSUME ComplianceParameters ==
  /\ MaxEntries \in Nat
  /\ None \notin Emails \cup Tenants \cup Ids \cup Stamps
  /\ None \notin {"export", "erasure"} /\ None \notin Rows /\ None \notin Entries
  /\ Ids \cap Stamps = {}

VARIABLES exports, log, req, together, blind, closed

history == <<together, blind, closed>>
vars == <<exports, log, req, history>>

Idle == [step |-> "idle", kind |-> None, email |-> None, tenant |-> None,
         id |-> None, prev |-> None, seen |-> {}, failed |-> FALSE]

Init ==
  /\ exports = [i \in Ids |-> None]
  /\ log = [s \in Stamps |-> None]
  /\ req = [r \in Requests |-> Idle]
  /\ together = {} /\ blind = {}
  /\ closed = [i \in Ids |-> 0]

-----------------------------------------------------------------------------
Row(kind, email) ==
  [kind |-> kind, email |-> email,
   status |-> IF kind = "export" THEN "ready" ELSE "pending_erasure"]

Goto(r, step) == req' = [req EXCEPT ![r].step = step]
End(r) == req' = [req EXCEPT ![r] = Idle]

Stored == {s \in Stamps : log[s] # None}

(* Request ids contain the nanosecond: none is used twice. *)
Fresh(i) ==
  /\ exports[i] = None
  /\ \A r \in Requests : req[r].id # i
  /\ \A s \in Stored : log[s].about # i
  /\ i \notin blind \cup UNION together

Pending(email) ==
  {i \in Ids : exports[i] # None /\ exports[i].email = email
                                 /\ exports[i].status = "pending_erasure"}

-----------------------------------------------------------------------------
(* Exports. *)

(* The lookups of the user, the membership and the data change nothing; a   *)
(* request that they end is none.                                           *)
RequestExport(r, e, t, i) ==
  /\ req[r].step = "idle" /\ Fresh(i)
  /\ req' = [req EXCEPT ![r] = [Idle EXCEPT !.step = "store", !.kind = "export",
               !.email = e, !.tenant = t, !.id = i]]
  /\ UNCHANGED <<exports, log, history>>

StoreExport(r) ==
  /\ req[r].step = "store" /\ req[r].kind = "export"
  /\ exports' = [exports EXCEPT ![req[r].id] = Row("export", req[r].email)]
  /\ Goto(r, "last")
  /\ UNCHANGED <<log, history>>

(* GetExport marks a row that is out of date, erasures too, in a second     *)
(* call.  Every row is some day; before that GetExport changes nothing.     *)
GetExport(r, i) ==
  /\ req[r].step = "idle" /\ exports[i] # None
  /\ req' = [req EXCEPT ![r] = [Idle EXCEPT !.step = "expire", !.kind = "get", !.id = i]]
  /\ UNCHANGED <<exports, log, history>>

SetStatus(i, status) == exports' = [exports EXCEPT ![i].status = status]

(* The result of Update is ignored. *)
MarkExpired(r) ==
  /\ req[r].step = "expire"
  /\ SetStatus(req[r].id, "expired")
  /\ End(r)
  /\ UNCHANGED <<log, history>>

-----------------------------------------------------------------------------
(* Erasures. *)

FaultyRequestErasure(r, e, t, i) ==        \* an erasure under way not looked for
  /\ req[r].step = "idle" /\ Fresh(i)
  /\ req' = [req EXCEPT ![r] = [Idle EXCEPT !.step = "last", !.kind = "erasure",
               !.email = e, !.tenant = t, !.id = i]]
  /\ UNCHANGED <<exports, log, history>>
(* A pending erasure ends the request; an error of that lookup does not. *)
RequestErasure(r, e, t, i) ==
  /\ req[r].step = "idle" /\ Fresh(i)
  /\ \/ Pending(e) = {} /\ UNCHANGED blind
     \/ blind' = blind \cup {i}
  /\ req' = [req EXCEPT ![r] = [Idle EXCEPT !.step = "last", !.kind = "erasure",
               !.email = e, !.tenant = t, !.id = i]]
  /\ together' = together \cup {{i, req[q].id} : q \in {p \in Requests \ {r} :
       req[p].kind = "erasure" /\ req[p].email = e}}
  /\ UNCHANGED <<exports, log, closed>>

StoreErasure(r) ==
  /\ req[r].step = "store" /\ req[r].kind = "erasure"
  /\ exports' = [exports EXCEPT ![req[r].id] = Row("erasure", req[r].email)]
  /\ End(r)
  /\ UNCHANGED <<log, history>>

FaultyExecuteErasure(r, i) ==              \* the state not looked at
  /\ req[r].step = "idle"
  /\ exports[i] # None /\ exports[i].kind = "erasure"
  /\ req' = [req EXCEPT ![r] = [Idle EXCEPT !.step = "complete", !.kind = "execute", !.id = i]]
  /\ UNCHANGED <<exports, log, history>>
(* Nothing calls ExecuteErasure yet. *)
ExecuteErasure(r, i) ==
  /\ req[r].step = "idle"
  /\ exports[i] # None /\ exports[i].status = "pending_erasure"
  /\ req' = [req EXCEPT ![r] = [Idle EXCEPT !.step = "complete", !.kind = "execute", !.id = i]]
  /\ together' = together \cup {{i} : q \in {p \in Requests \ {r} :
       req[p].step = "complete" /\ req[p].id = i}}
  /\ UNCHANGED <<exports, log, blind, closed>>

(* The count is bounded by two. *)
CompleteErasure(r) ==
  /\ req[r].step = "complete"
  /\ SetStatus(req[r].id, "completed")
  /\ closed' = [closed EXCEPT ![req[r].id] = IF @ < 2 THEN @ + 1 ELSE @]
  /\ End(r)
  /\ UNCHANGED <<log, together, blind>>

-----------------------------------------------------------------------------
(* The audit log. *)

(* Any other event, by the functions of AuditLogService. *)
LogEvent(r, t) ==
  /\ req[r].step = "idle"
  /\ req' = [req EXCEPT ![r] = [Idle EXCEPT !.step = "last", !.kind = "event", !.tenant = t]]
  /\ UNCHANGED <<exports, log, history>>

EntriesOf(t) == {s \in Stored : log[s].tenant = t}

Latest(S) == {s \in S : \A u \in S : u <= s}

(* The clock was read between the lookup and the insertion: later than the  *)
(* entries that were there, and perhaps earlier than those that came since. *)
LaterThan(S) == {s \in Stamps : \A u \in S : u < s}

FaultyLastLog(t) == Latest(Stored)         \* the tenant left out of the query
LastLog(t) == Latest(EntriesOf(t))

(* The newest entry of the tenant; when there is none, or the lookup fails,  *)
(* the new entry is linked to nothing.  With none there the two are alike.   *)
FindLast(r) ==
  LET last == LastLog(req[r].tenant)
      Take(prev, failed) ==
        req' = [req EXCEPT ![r].step = "append", ![r].prev = prev,
                           ![r].seen = Stored, ![r].failed = failed]
  IN
  /\ req[r].step = "last" /\ LaterThan(Stored) # {}
  /\ \/ last = {} /\ Take(None, FALSE)
     \/ \E s \in last : Take(s, FALSE) \/ Take(None, TRUE)
  /\ UNCHANGED <<exports, log, history>>

Entry(r) == [tenant |-> req[r].tenant, prev |-> req[r].prev, about |-> req[r].id,
             seen |-> req[r].seen \cap EntriesOf(req[r].tenant), failed |-> req[r].failed]

Logged(r) ==
  IF req[r].kind # "erasure" THEN End(r)
  ELSE req' = [req EXCEPT ![r] = [Idle EXCEPT !.step = "store", !.kind = "erasure",
                 !.email = req[r].email, !.id = req[r].id]]

(* Both requests ignore the error of Create. *)
AppendEntry(r) ==
  /\ req[r].step = "append"
  /\ \/ \E s \in LaterThan(req[r].seen) \ Stored : log' = [log EXCEPT ![s] = Entry(r)]
     \/ UNCHANGED log
  /\ Logged(r)
  /\ UNCHANGED <<exports, history>>

(* An error of the database, or the end of the process. *)
Fail(r) ==
  /\ req[r].step # "idle"
  /\ End(r)
  /\ UNCHANGED <<exports, log, history>>

Next ==
  \E r \in Requests :
       \/ \E e \in Emails, t \in Tenants, i \in Ids :
            RequestExport(r, e, t, i) \/ RequestErasure(r, e, t, i)
       \/ \E i \in Ids : GetExport(r, i) \/ ExecuteErasure(r, i)
       \/ \E t \in Tenants : LogEvent(r, t)
       \/ StoreExport(r) \/ MarkExpired(r) \/ StoreErasure(r) \/ CompleteErasure(r)
       \/ FindLast(r) \/ AppendEntry(r) \/ Fail(r)

Spec == Init /\ [][Next]_vars

-----------------------------------------------------------------------------
(* Properties. *)

(* Every variable has its type. *)
TypeOK ==
  /\ exports \in [Ids -> Rows \cup {None}]
  /\ log \in [Stamps -> Entries \cup {None}]
  /\ req \in [Requests ->
       [step : {"idle", "store", "last", "append", "expire", "complete"},
        kind : {"export", "erasure", "event", "get", "execute", None},
        email : Emails \cup {None}, tenant : Tenants \cup {None},
        id : Ids \cup {None}, prev : Stamps \cup {None}, seen : SUBSET Stamps,
        failed : BOOLEAN]]
  /\ together \subseteq SUBSET Ids
  /\ blind \subseteq Ids
  /\ closed \in [Ids -> 0..2]

(* "erasure already in progress": an address has two pending erasures only  *)
(* when two requests looked for one at the same time or a lookup failed.    *)
OnePendingErasure ==
  \A e \in Emails : \A i, j \in Pending(e) :
    i # j => {i, j} \in together \/ i \in blind \/ j \in blind

(* The log of a tenant is a chain of hashes, whatever other tenants log in   *)
(* between: an entry is linked to an older entry of its own tenant, unless   *)
(* none was there as it looked for the newest one or that lookup failed; and *)
(* two entries are linked to the same one only when neither was stored as    *)
(* the other looked.                                                         *)
ChainUnlessRaced ==
  \A t \in Tenants : \A s \in EntriesOf(t) :
    \/ log[s].prev = None /\ (log[s].seen = {} \/ log[s].failed)
    \/ /\ log[s].prev < s /\ log[s].prev \in EntriesOf(t)
       /\ \A b \in EntriesOf(t) \ {s} : log[b].prev = log[s].prev => s \notin log[b].seen

(* "erasure not in pending state": an erasure is carried out once, whatever *)
(* GetExport marks meanwhile, unless two executions read the row together.  *)
ExecutedOnce == \A i \in Ids : closed[i] > 1 => {i} \in together
=============================================================================
