----------------------------- MODULE MFAMethods -----------------------------
(***************************************************************************)
(* The TOTP methods of users and their backup codes (internal/service/     *)
(* mfa.go and the mfa_methods table).  Every operation reads rows, changes *)
(* its copies and writes whole rows back, with other requests in between.  *)
(*                                                                         *)
(*   rows     the table: a function from the ids of the existing methods   *)
(*   issued   the ids that were ever given to a method                     *)
(*   req      req[r]: the request slot r is serving; seen are the rows as  *)
(*            it read them, todo those it has yet to write                 *)
(*   settled  history: the codes <<m, i>> that a request consumed while no *)
(*            other request had a copy of the row with the code in it      *)
(*                                                                         *)
(* Methods are numbers in the order of their random ids.                   *)
(***************************************************************************)
EXTENDS Naturals

CONSTANTS
  Users, Methods, Requests,
  Codes,  \* the backup codes of a method, ten in the code
  None    \* no user

ASSUME MethodParameters ==
  Methods \subseteq Nat /\ None \notin Users /\ Codes # {}

VARIABLES rows, issued, req, settled

vars == <<rows, issued, req, settled>>

Row == [user : Users, primary : BOOLEAN, codes : SUBSET Codes]
Tables == UNION {[S -> Row] : S \in SUBSET Methods}

Idle == [op |-> "idle", user |-> None, method |-> 0, code |-> None,
         seen |-> [m \in {} |-> None], todo |-> {}]

Init ==
  /\ rows = [m \in {} |-> None]
  /\ issued = {}
  /\ req = [r \in Requests |-> Idle]
  /\ settled = {}

-----------------------------------------------------------------------------
(* The repository. *)

FaultyFindByUser(u) == DOMAIN rows         \* the user left out of the query
FindByUser(u) == {m \in DOMAIN rows : rows[m].user = u}

FindByID(m) == m \in DOMAIN rows

(* First orders by the id. *)
FindPrimaryByUser(u) ==
  LET primary == {m \in FindByUser(u) : rows[m].primary}
  IN {m \in primary : \A n \in primary : m <= n}

FaultyUpdates(old, new) == new             \* every column written
(* A GORM Updates call with a struct skips a column that becomes FALSE.  The *)
(* list of codes is written as JSON, which is not empty even when it is.     *)
Updates(old, new) == [new EXCEPT !.primary = old.primary \/ new.primary]

-----------------------------------------------------------------------------
Start(r, op, u, m, c, read) ==
  /\ req[r].op = "idle"
  /\ req' = [req EXCEPT ![r] =
       [op |-> op, user |-> u, method |-> m, code |-> c,
        seen |-> [n \in read |-> rows[n]], todo |-> read]]
  /\ UNCHANGED <<rows, issued, settled>>

(* m is written, or the request ends with all that is left unwritten. *)
Written(r, m) ==
  LET left == req[r].todo \ {m}
  IN req' = [req EXCEPT ![r] = IF left = {} THEN Idle ELSE [req[r] EXCEPT !.todo = left]]

End(r) == req' = [req EXCEPT ![r] = Idle]

(* EnrollTOTP: one insert. *)
EnrollTOTP(u) ==
  \E m \in Methods \ issued :
    /\ rows' = [n \in DOMAIN rows \cup {m} |->
         IF n = m THEN [user |-> u, primary |-> TRUE, codes |-> Codes] ELSE rows[n]]
    /\ issued' = issued \cup {m}
    /\ UNCHANGED <<req, settled>>

(* VerifyTOTP with a valid code.  Without a primary method it dereferences  *)
(* nil; the panic is recovered and changes nothing.                         *)
VerifyTOTP(r, u) ==
  \/ \E m \in FindPrimaryByUser(u) : Start(r, "totp", u, m, None, {m})
  \/ FindPrimaryByUser(u) = {} /\ UNCHANGED vars

(* VerifyBackupCode: the codes are random, so one method has the code. *)
VerifyBackupCode(r, u) ==
  \E m \in FindByUser(u) : \E c \in rows[m].codes : Start(r, "backup", u, m, c, {m})

(* RemoveMethod compares the user of the row with that of the request. *)
RemoveMethod(r, u, m) ==
  FindByID(m) /\ rows[m].user = u /\ Start(r, "remove", u, m, None, {m})

(* SetPrimaryMethod takes any id. *)
SetPrimaryMethod(r, u, m) ==
  FindByUser(u) # {} /\ Start(r, "primary", u, m, None, FindByUser(u))

-----------------------------------------------------------------------------
FaultyChanged(r, m) == req[r].seen[m]      \* the code left in the list
(* The row as the request passes it to Update. *)
Changed(r, m) ==
  LET row == req[r].seen[m]
  IN CASE req[r].op = "backup"  -> [row EXCEPT !.codes = @ \ {req[r].code}]
       [] req[r].op = "primary" -> [row EXCEPT !.primary = (m = req[r].method)]
       [] OTHER                 -> row

(* Request q may still write the code c of method m back. *)
Holds(q, m, c) == m \in req[q].todo /\ c \in req[q].seen[m].codes

(* One UPDATE of a row that is there; a backup code is then accepted. *)
UpdateMethod(r) ==
  /\ req[r].op \in {"totp", "backup", "primary"}
  /\ \E m \in req[r].todo \cap DOMAIN rows :
       /\ rows' = [rows EXCEPT ![m] = Updates(@, Changed(r, m))]
       /\ settled' = settled \cup
            {<<m, c>> : c \in {c \in Codes : /\ req[r].op = "backup" /\ c = req[r].code
                                         /\ \A q \in Requests \ {r} : ~Holds(q, m, c)}}
       /\ Written(r, m)
  /\ UNCHANGED issued

(* The row is gone: RowsAffected is 0 and the operation ends in an error. *)
FaultyUpdateMissing(r) ==                  \* Save, which inserts what is not there
  /\ req[r].op \in {"totp", "backup", "primary"}
  /\ \E m \in req[r].todo \ DOMAIN rows :
       /\ rows' = [n \in DOMAIN rows \cup {m} |-> IF n = m THEN Changed(r, m) ELSE rows[n]]
       /\ Written(r, m)
  /\ UNCHANGED <<issued, settled>>
UpdateMissing(r) ==
  /\ req[r].op \in {"totp", "backup", "primary"}
  /\ ~(req[r].todo \subseteq DOMAIN rows)
  /\ End(r)
  /\ UNCHANGED <<rows, issued, settled>>

DeleteMethod(r) ==
  /\ req[r].op = "remove"
  /\ rows' = [n \in DOMAIN rows \ req[r].todo |-> rows[n]]
  /\ End(r)
  /\ UNCHANGED <<issued, settled>>

(* The database answers with an error, or the process ends. *)
Fail(r) ==
  /\ req[r].op # "idle"
  /\ End(r)
  /\ UNCHANGED <<rows, issued, settled>>

Next ==
  \/ \E u \in Users : EnrollTOTP(u)
  \/ \E r \in Requests, u \in Users :
       \/ VerifyTOTP(r, u) \/ VerifyBackupCode(r, u)
       \/ \E m \in Methods : RemoveMethod(r, u, m) \/ SetPrimaryMethod(r, u, m)
  \/ \E r \in Requests :
       UpdateMethod(r) \/ UpdateMissing(r) \/ DeleteMethod(r) \/ Fail(r)

Spec == Init /\ [][Next]_vars

-----------------------------------------------------------------------------
(* Properties. *)

(* Every variable has its type. *)
TypeOK ==
  /\ rows \in Tables
  /\ issued \in SUBSET Methods
  /\ settled \in SUBSET (Methods \X Codes)
  /\ req \in [Requests ->
       [op : {"idle", "totp", "backup", "primary", "remove"}, user : Users \cup {None},
        method : Methods \cup {0}, code : Codes \cup {None}, seen : Tables,
        todo : SUBSET Methods]]
  /\ \A r \in Requests : req[r].todo \subseteq DOMAIN req[r].seen

(* VerifyBackupCode: "remove used backup code".  A code consumed while no    *)
(* other request had a copy of its row is gone for good: whole-row writes of *)
(* later requests, of any kind, do not bring it back.                        *)
ConsumedIsGone ==
  \A m \in Methods, c \in Codes : <<m, c>> \in settled =>
    /\ m \in DOMAIN rows => c \notin rows[m].codes
    /\ \A r \in Requests : ~Holds(r, m, c)

(* FindPrimaryByUser finds something for whoever has a method, whatever the  *)
(* interleaving of enrolments, removals and changes of the primary method;   *)
(* VerifyTOTP relies on it and does not look.                                *)
PrimaryExists ==
  \A u \in Users : FindByUser(u) # {} => FindPrimaryByUser(u) # {}

(* RemoveMethod: a method that was removed stays removed, also when another  *)
(* request had read it before and writes it afterwards.                      *)
RemovedStaysRemoved ==
  [][issued \ DOMAIN rows \subseteq issued' \ DOMAIN rows']_vars

(* A user's methods are changed only by that user's requests: the handlers  *)
(* name the user of the token, UPDATE and DELETE the id of a row alone, and *)
(* SetPrimaryMethod takes any id.                                           *)
OwnMethods ==
  [][\A m \in DOMAIN rows : m \notin DOMAIN rows' \/ rows'[m] # rows[m] =>
       \E r \in Requests : req'[r] # req[r] /\ req[r].user = rows[m].user]_vars
=============================================================================
