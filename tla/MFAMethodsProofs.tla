-------------------------- MODULE MFAMethodsProofs --------------------------
(***************************************************************************)
(* MFAMethods, for any number of users, methods, codes and requests: a     *)
(* consumed code is gone, a removed method stays removed, and a user's     *)
(* methods are changed by that user's requests only.                       *)
(*                                                                         *)
(* The three rest on what the copies in the hands of a request may say:    *)
(* they are copies of rows of its user (CopiesOwned), of ids that are      *)
(* never given out again (Known), so that a write of one later is a write  *)
(* of the same method, and a code that nobody has a copy of cannot come    *)
(* back.                                                                   *)
(***************************************************************************)
EXTENDS MFAMethods, WellFoundedInduction, TLAPS

Slot ==
  [op : {"idle", "totp", "backup", "primary", "remove"}, user : Users \cup {None},
   method : Methods \cup {0}, code : Codes \cup {None}, seen : Tables, todo : SUBSET Methods]

(* Ids are given out once, and what a request has in its hands had one. *)
Known ==
  /\ DOMAIN rows \subseteq issued
  /\ \A r \in Requests : req[r].todo \subseteq issued
  /\ \A p \in settled : p[1] \in issued

CopiesOwned ==
  \A r \in Requests : \A m \in req[r].todo :
    /\ req[r].seen[m].user = req[r].user
    /\ m \in DOMAIN rows => rows[m].user = req[r].user

(* Every method is a primary one: Updates never takes the mark away. *)
AllPrimary == \A m \in DOMAIN rows : rows[m].primary

MethodInvariant ==
  TypeOK /\ Known /\ CopiesOwned /\ AllPrimary /\ ConsumedIsGone

-----------------------------------------------------------------------------
(* Tables. *)

LEMMA TableRow ==
  ASSUME NEW table \in Tables
  PROVE  /\ DOMAIN table \subseteq Methods
         /\ \A m \in DOMAIN table : table[m] \in Row
         /\ table \in [DOMAIN table -> Row]
<1>1. PICK S \in SUBSET Methods : table \in [S -> Row]
  BY DEF Tables
<1> QED
  BY <1>1

LEMMA IsTable ==
  ASSUME NEW S \in SUBSET Methods, NEW table \in [S -> Row]
  PROVE  table \in Tables /\ DOMAIN table = S
BY DEF Tables

(* A set of numbers has a least one. *)
LEMMA Least ==
  ASSUME NEW S, S \subseteq Nat, S # {}
  PROVE  \E m \in S : \A n \in S : m <= n
<1> DEFINE R == OpToRel(<, Nat)
<1>1. IsWellFoundedOn(R, Nat)
  BY NatLessThanWellFounded
<1> HIDE DEF R
<1>2. PICK m \in S : \A n \in S : <<n, m>> \notin R
  BY <1>1, WFMin
<1>3. ASSUME NEW n \in S
      PROVE  m <= n
  <2>1. n \in Nat /\ m \in Nat /\ <<n, m>> \notin R
    BY <1>2
  <2>2. n < m => <<n, m>> \in R
    BY <2>1 DEF R, OpToRel
  <2> QED
    BY <2>1, <2>2
<1> QED
  BY <1>3

-----------------------------------------------------------------------------
(* Requests that go on. *)

(* Request r has fewer rows left to write, and none of S. *)
Shrinks(r, S) ==
  /\ req' \in [Requests -> Slot]
  /\ \A q \in Requests : q # r => req'[q] = req[q]
  /\ req'[r].todo \subseteq req[r].todo \ S
  /\ req'[r].todo # {} => req'[r].seen = req[r].seen /\ req'[r].user = req[r].user

LEMMA IdleSlot == Idle \in Slot /\ Idle.todo = {} /\ Idle.user = None /\ Idle.op = "idle"
<1>1. [m \in {} |-> None] \in [{} -> Row]
  OBVIOUS
<1>2. [m \in {} |-> None] \in Tables
  BY <1>1, IsTable
<1> QED
  BY <1>2 DEF Idle, Slot

LEMMA SlotTyped ==
  ASSUME TypeOK, NEW r \in Requests
  PROVE  req[r] \in Slot /\ req[r].seen \in Tables
BY DEF TypeOK, Slot

LEMMA EndShrinks ==
  ASSUME TypeOK, NEW r \in Requests, End(r)
  PROVE  Shrinks(r, req[r].todo) /\ req'[r] = Idle
<1>1. /\ req \in [Requests -> Slot] /\ req' = [req EXCEPT ![r] = Idle]
  BY DEF TypeOK, Slot, End
<1>2. req' \in [Requests -> Slot] /\ req'[r] = Idle /\ \A q \in Requests : q # r => req'[q] = req[q]
  BY <1>1, IdleSlot
<1> QED
  BY <1>2, IdleSlot DEF Shrinks

LEMMA WrittenShrinks ==
  ASSUME TypeOK, NEW r \in Requests, NEW m \in req[r].todo, Written(r, m)
  PROVE  Shrinks(r, {m})
<1>1. req[r] \in Slot /\ req \in [Requests -> Slot]
  BY SlotTyped DEF TypeOK, Slot
<1>2. CASE req[r].todo \ {m} = {}
  <2>1. req' = [req EXCEPT ![r] = Idle]
    BY <1>2 DEF Written
  <2>2. Shrinks(r, req[r].todo)
    BY <2>1, EndShrinks DEF End
  <2> QED
    BY <1>2, <2>2
<1>3. CASE req[r].todo \ {m} # {}
  <2> DEFINE x == [req[r] EXCEPT !.todo = req[r].todo \ {m}]
  <2>1. x \in Slot /\ x.todo = req[r].todo \ {m} /\ x.seen = req[r].seen /\ x.user = req[r].user
    BY <1>1 DEF Slot
  <2>2. req' = [req EXCEPT ![r] = x]
    BY <1>3 DEF Written
  <2>3. /\ req' \in [Requests -> Slot] /\ req'[r] = x
        /\ \A q \in Requests : q # r => req'[q] = req[q]
    BY <1>1, <2>1, <2>2
  <2> QED
    BY <2>1, <2>3 DEF Shrinks
<1> QED
  BY <1>2, <1>3

(* What the invariant says of the copies is kept by such a step, if the     *)
(* rows that remain keep their users.                                       *)
LEMMA CopiesKept ==
  ASSUME MethodInvariant, NEW r \in Requests, NEW S, Shrinks(r, S),
         \A m \in DOMAIN rows' : m \in DOMAIN rows /\ rows'[m].user = rows[m].user
  PROVE  /\ CopiesOwned'
         /\ \A q \in Requests : req'[q].todo \subseteq DOMAIN req'[q].seen
         /\ \A q \in Requests : req'[q].todo \subseteq issued
         /\ \A q \in Requests : \A m, c : Holds(q, m, c)' => Holds(q, m, c)
<1>1. \A q \in Requests :
        /\ req'[q].todo \subseteq req[q].todo
        /\ req'[q].todo # {} => req'[q].seen = req[q].seen /\ req'[q].user = req[q].user
  BY DEF Shrinks
<1>2. CopiesOwned /\ \A q \in Requests : req[q].todo \subseteq DOMAIN req[q].seen /\ req[q].todo \subseteq issued
  BY DEF MethodInvariant, TypeOK, Known
<1>3. CopiesOwned'
  <2> SUFFICES ASSUME NEW q \in Requests, NEW m \in req'[q].todo
               PROVE  /\ req'[q].seen[m].user = req'[q].user
                      /\ m \in DOMAIN rows' => rows'[m].user = req'[q].user
    BY DEF CopiesOwned
  <2>1. m \in req[q].todo /\ req'[q].seen = req[q].seen /\ req'[q].user = req[q].user
    BY <1>1
  <2> QED
    BY <1>2, <2>1 DEF CopiesOwned
<1>4. \A q \in Requests : req'[q].todo \subseteq DOMAIN req'[q].seen
  <2> SUFFICES ASSUME NEW q \in Requests, NEW m \in req'[q].todo
               PROVE  m \in DOMAIN req'[q].seen
    OBVIOUS
  <2>1. m \in req[q].todo /\ req'[q].seen = req[q].seen
    BY <1>1
  <2> QED
    BY <1>2, <2>1
<1>5. ASSUME NEW q \in Requests, NEW m, NEW c, Holds(q, m, c)'
      PROVE  Holds(q, m, c)
  <2>1. m \in req'[q].todo /\ c \in req'[q].seen[m].codes
    BY <1>5 DEF Holds
  <2>2. m \in req[q].todo /\ req'[q].seen = req[q].seen
    BY <1>1, <2>1
  <2> QED
    BY <2>1, <2>2 DEF Holds
<1> QED
  BY <1>1, <1>2, <1>3, <1>4, <1>5

-----------------------------------------------------------------------------
(* The steps. *)

LEMMA InitMethods == Init => MethodInvariant
<1> SUFFICES ASSUME Init
             PROVE  MethodInvariant
  OBVIOUS
<1>1. rows \in Tables /\ DOMAIN rows = {} /\ issued = {} /\ settled = {}
  <2>1. [m \in {} |-> None] \in [{} -> Row]
    OBVIOUS
  <2> QED
    BY <2>1, IsTable DEF Init
<1>2. req \in [Requests -> Slot] /\ \A r \in Requests : req[r].todo = {}
  BY IdleSlot DEF Init
<1>3. TypeOK
  BY <1>1, <1>2 DEF TypeOK, Slot
<1>4. Known /\ CopiesOwned /\ AllPrimary /\ ConsumedIsGone
  BY <1>1, <1>2 DEF Known, CopiesOwned, AllPrimary, ConsumedIsGone
<1> QED
  BY <1>3, <1>4 DEF MethodInvariant

(* A request that reads rows of its user holds what is there now. *)
LEMMA StartStep ==
  ASSUME MethodInvariant, NEW r \in Requests, NEW op \in {"totp", "backup", "primary", "remove"},
         NEW u \in Users, NEW n \in Methods, NEW code \in Codes \cup {None},
         NEW read \in SUBSET FindByUser(u), Start(r, op, u, n, code, read)
  PROVE  MethodInvariant'
<1> DEFINE copies == [m \in read |-> rows[m]]
           x == [op |-> op, user |-> u, method |-> n, code |-> code, seen |-> copies, todo |-> read]
<1>1. /\ TypeOK /\ Known /\ CopiesOwned /\ AllPrimary /\ ConsumedIsGone
      /\ UNCHANGED <<rows, issued, settled>> /\ req' = [req EXCEPT ![r] = x]
  BY DEF MethodInvariant, Start
<1>2. /\ read \subseteq DOMAIN rows /\ read \subseteq Methods /\ read \subseteq issued
      /\ \A m \in read : rows[m] \in Row /\ rows[m].user = u
  BY <1>1, TableRow DEF FindByUser, TypeOK, Known
<1>3. copies \in Tables /\ DOMAIN copies = read
  <2>1. copies \in [read -> Row]
    BY <1>2
  <2> QED
    BY <1>2, <2>1, IsTable
<1>4. x \in Slot /\ x.todo = read /\ x.seen = copies /\ x.user = u
  BY <1>2, <1>3 DEF Slot
<1>5. req \in [Requests -> Slot]
  BY <1>1 DEF TypeOK, Slot
<1>6. /\ req' \in [Requests -> Slot] /\ req'[r] = x
      /\ \A q \in Requests : q # r => req'[q] = req[q]
  BY <1>1, <1>4, <1>5
<1>7. \A m \in read : copies[m] = rows[m]
  OBVIOUS
<1> HIDE DEF x, copies
<1>8. TypeOK'
  <2>1. \A q \in Requests : req'[q].todo \subseteq DOMAIN req'[q].seen
    BY <1>1, <1>3, <1>4, <1>6 DEF TypeOK
  <2> QED
    BY <1>1, <1>6, <2>1 DEF TypeOK, Slot
<1>9. Known'
  BY <1>1, <1>2, <1>4, <1>6 DEF Known
<1>10. CopiesOwned'
  BY <1>1, <1>2, <1>4, <1>6, <1>7 DEF CopiesOwned
<1>11. AllPrimary'
  BY <1>1 DEF AllPrimary
<1>12. ConsumedIsGone'
  <2> SUFFICES ASSUME NEW m \in Methods, NEW c \in Codes, <<m, c>> \in settled
               PROVE  /\ m \in DOMAIN rows => c \notin rows[m].codes
                      /\ \A q \in Requests : ~Holds(q, m, c)'
    BY <1>1 DEF ConsumedIsGone
  <2>1. /\ m \in DOMAIN rows => c \notin rows[m].codes
        /\ \A q \in Requests : ~Holds(q, m, c)
    BY <1>1 DEF ConsumedIsGone
  <2>2. ASSUME NEW q \in Requests
        PROVE  ~Holds(q, m, c)'
    <3>1. CASE q = r
      BY <1>2, <1>4, <1>6, <1>7, <2>1, <3>1 DEF Holds
    <3>2. CASE q # r
      BY <1>6, <2>1, <3>2 DEF Holds
    <3> QED
      BY <3>1, <3>2
  <2> QED
    BY <2>1, <2>2
<1> QED
  BY <1>8, <1>9, <1>10, <1>11, <1>12 DEF MethodInvariant

(* A method that is enrolled has an id of its own. *)
LEMMA EnrollStep ==
  ASSUME MethodInvariant, NEW u \in Users, EnrollTOTP(u)
  PROVE  MethodInvariant'
<1>1. /\ TypeOK /\ Known /\ CopiesOwned /\ AllPrimary /\ ConsumedIsGone
      /\ UNCHANGED <<req, settled>>
  BY DEF MethodInvariant, EnrollTOTP
<1>2. PICK m \in Methods \ issued :
        /\ rows' = [n \in DOMAIN rows \cup {m} |->
             IF n = m THEN [user |-> u, primary |-> TRUE, codes |-> Codes] ELSE rows[n]]
        /\ issued' = issued \cup {m}
  BY DEF EnrollTOTP
<1>3. m \notin DOMAIN rows
  BY <1>1 DEF Known
<1>4. /\ DOMAIN rows' = DOMAIN rows \cup {m}
      /\ rows'[m] = [user |-> u, primary |-> TRUE, codes |-> Codes]
      /\ \A n \in DOMAIN rows : rows'[n] = rows[n]
  BY <1>2, <1>3
<1>5. DOMAIN rows \subseteq Methods /\ \A n \in DOMAIN rows : rows[n] \in Row
  BY <1>1, TableRow DEF TypeOK
<1>6. rows' \in Tables
  <2>1. [user |-> u, primary |-> TRUE, codes |-> Codes] \in Row
    BY DEF Row
  <2>2. rows' \in [DOMAIN rows \cup {m} -> Row]
    BY <1>2, <1>5, <2>1
  <2> QED
    BY <1>5, <2>2, IsTable
<1>7. TypeOK'
  BY <1>1, <1>2, <1>6 DEF TypeOK
<1>8. Known'
  BY <1>1, <1>2, <1>4 DEF Known
<1>9. CopiesOwned'
  BY <1>1, <1>2, <1>4 DEF CopiesOwned, Known
<1>10. AllPrimary'
  BY <1>1, <1>4 DEF AllPrimary
<1>11. ConsumedIsGone'
  <2> SUFFICES ASSUME NEW n \in Methods, NEW c \in Codes, <<n, c>> \in settled
               PROVE  /\ n \in DOMAIN rows' => c \notin rows'[n].codes
                      /\ \A q \in Requests : ~Holds(q, n, c)'
    BY <1>1 DEF ConsumedIsGone
  <2>1. /\ n \in DOMAIN rows => c \notin rows[n].codes
        /\ \A q \in Requests : ~Holds(q, n, c)
    BY <1>1 DEF ConsumedIsGone
  <2>2. <<n, c>>[1] \in issued
    BY <1>1 DEF Known
  <2>3. n # m
    BY <1>2, <2>2
  <2>4. \A q \in Requests : ~Holds(q, n, c)'
    BY <1>1, <2>1 DEF Holds
  <2> QED
    BY <1>4, <2>1, <2>3, <2>4
<1> QED
  BY <1>7, <1>8, <1>9, <1>10, <1>11 DEF MethodInvariant

(* Rows may go, and requests may end. *)
LEMMA EndStep ==
  ASSUME MethodInvariant, NEW r \in Requests, End(r), rows' \in Tables,
         \A m \in DOMAIN rows' : m \in DOMAIN rows /\ rows'[m] = rows[m],
         UNCHANGED <<issued, settled>>
  PROVE  MethodInvariant'
<1>1. /\ TypeOK /\ Known /\ AllPrimary /\ ConsumedIsGone
      /\ Shrinks(r, req[r].todo)
  BY EndShrinks DEF MethodInvariant
<1>2. /\ CopiesOwned'
      /\ \A q \in Requests : req'[q].todo \subseteq DOMAIN req'[q].seen
      /\ \A q \in Requests : req'[q].todo \subseteq issued
      /\ \A q \in Requests : \A m, c : Holds(q, m, c)' => Holds(q, m, c)
  BY <1>1, CopiesKept
<1>3. TypeOK'
  BY <1>1, <1>2 DEF TypeOK, Shrinks, Slot
<1>4. Known'
  BY <1>1, <1>2 DEF Known
<1>5. AllPrimary'
  BY <1>1 DEF AllPrimary
<1>6. ConsumedIsGone'
  BY <1>1, <1>2 DEF ConsumedIsGone
<1> QED
  BY <1>2, <1>3, <1>4, <1>5, <1>6 DEF MethodInvariant

(* What is written is a row of the same user, primary as before, with no    *)
(* code that was not in the copy.                                           *)
LEMMA ChangedRow ==
  ASSUME MethodInvariant, NEW r \in Requests, NEW m \in req[r].todo \cap DOMAIN rows
  PROVE  /\ Updates(rows[m], Changed(r, m)) \in Row
         /\ Updates(rows[m], Changed(r, m)).user = rows[m].user
         /\ Updates(rows[m], Changed(r, m)).primary
         /\ \A c \in Updates(rows[m], Changed(r, m)).codes :
              Holds(r, m, c) /\ (req[r].op = "backup" => c # req[r].code)
<1>1. /\ req[r].seen[m] \in Row /\ rows[m] \in Row /\ rows[m].primary
      /\ req[r].seen[m].user = rows[m].user
  BY SlotTyped, TableRow DEF MethodInvariant, TypeOK, CopiesOwned, AllPrimary
<1>2. /\ Changed(r, m) \in Row /\ Changed(r, m).user = rows[m].user
      /\ Changed(r, m).codes \subseteq req[r].seen[m].codes
      /\ req[r].op = "backup" => req[r].code \notin Changed(r, m).codes
  <2> DEFINE copy == req[r].seen[m]
  <2>1. CASE req[r].op = "backup"
    <3>1. Changed(r, m) = [copy EXCEPT !.codes = copy.codes \ {req[r].code}]
      BY <2>1 DEF Changed
    <3> QED
      BY <1>1, <2>1, <3>1 DEF Row
  <2>2. CASE req[r].op = "primary"
    <3>1. Changed(r, m) = [copy EXCEPT !.primary = (m = req[r].method)]
      BY <2>2 DEF Changed
    <3> QED
      BY <1>1, <2>2, <3>1 DEF Row
  <2>3. CASE req[r].op \notin {"backup", "primary"}
    <3>1. Changed(r, m) = copy
      BY <2>3 DEF Changed
    <3> QED
      BY <1>1, <2>3, <3>1
  <2> QED
    BY <2>1, <2>2, <2>3
<1> DEFINE new == Changed(r, m)
           row == [new EXCEPT !.primary = rows[m].primary \/ new.primary]
<1>3. Updates(rows[m], Changed(r, m)) = row
  BY DEF Updates
<1> HIDE DEF new
<1>4. new \in Row /\ new.user = rows[m].user
  BY <1>2 DEF new
<1>5. row \in Row /\ row.user = rows[m].user /\ row.codes = new.codes
  BY <1>1, <1>4 DEF Row
<1>6. row.primary
  BY <1>1, <1>4 DEF Row
<1>7. \A c \in new.codes : Holds(r, m, c) /\ (req[r].op = "backup" => c # req[r].code)
  BY <1>2 DEF new, Holds
<1> QED
  BY <1>3, <1>5, <1>6, <1>7

LEMMA UpdateStep ==
  ASSUME MethodInvariant, NEW r \in Requests, UpdateMethod(r)
  PROVE  MethodInvariant'
<1>1. TypeOK /\ Known /\ AllPrimary /\ ConsumedIsGone /\ UNCHANGED issued
  BY DEF MethodInvariant, UpdateMethod
<1>2. PICK m \in req[r].todo \cap DOMAIN rows :
        /\ rows' = [rows EXCEPT ![m] = Updates(rows[m], Changed(r, m))]
        /\ settled' = settled \cup
             {<<m, c>> : c \in {c \in Codes : /\ req[r].op = "backup" /\ c = req[r].code
                                          /\ \A q \in Requests \ {r} : ~Holds(q, m, c)}}
        /\ Written(r, m)
  BY DEF UpdateMethod
<1>3. PICK row \in Row :
        /\ row = Updates(rows[m], Changed(r, m)) /\ row.user = rows[m].user /\ row.primary
        /\ \A c \in row.codes : Holds(r, m, c) /\ (req[r].op = "backup" => c # req[r].code)
  BY ChangedRow
<1>4. DOMAIN rows \subseteq Methods /\ rows \in [DOMAIN rows -> Row] /\ m \in issued
  BY <1>1, TableRow DEF TypeOK, Known
<1>5. /\ DOMAIN rows' = DOMAIN rows /\ rows'[m] = row
      /\ \A n \in DOMAIN rows : n # m => rows'[n] = rows[n]
  BY <1>2, <1>3
<1>6. rows' \in Tables
  <2>1. rows' \in [DOMAIN rows -> Row]
    BY <1>2, <1>3, <1>4
  <2> QED
    BY <1>4, <2>1, IsTable
<1>7. Shrinks(r, {m})
  BY <1>1, <1>2, WrittenShrinks
<1>8. /\ CopiesOwned'
      /\ \A q \in Requests : req'[q].todo \subseteq DOMAIN req'[q].seen
      /\ \A q \in Requests : req'[q].todo \subseteq issued
      /\ \A q \in Requests : \A n, c : Holds(q, n, c)' => Holds(q, n, c)
  BY <1>3, <1>5, <1>7, CopiesKept
<1>9. \A p \in settled' : p \in settled \/
        \E c \in Codes : /\ p = <<m, c>> /\ req[r].op = "backup" /\ c = req[r].code
                         /\ \A q \in Requests \ {r} : ~Holds(q, m, c)
  BY <1>2
<1>10. TypeOK'
  <2>1. settled' \subseteq Methods \X Codes
    BY <1>1, <1>4, <1>9 DEF TypeOK
  <2> QED
    BY <1>1, <1>6, <1>7, <1>8, <2>1 DEF TypeOK, Shrinks, Slot
<1>11. Known'
  BY <1>1, <1>4, <1>5, <1>8, <1>9 DEF Known
<1>12. AllPrimary'
  BY <1>1, <1>3, <1>5 DEF AllPrimary
<1>13. ConsumedIsGone'
  <2> SUFFICES ASSUME NEW n \in Methods, NEW c \in Codes, <<n, c>> \in settled'
               PROVE  /\ n \in DOMAIN rows' => c \notin rows'[n].codes
                      /\ \A q \in Requests : ~Holds(q, n, c)'
    BY DEF ConsumedIsGone
  <2>1. CASE <<n, c>> \in settled
    <3>1. /\ n \in DOMAIN rows => c \notin rows[n].codes
          /\ \A q \in Requests : ~Holds(q, n, c)
      BY <1>1, <2>1 DEF ConsumedIsGone
    <3>2. n = m => c \notin row.codes
      BY <1>3, <3>1
    <3> QED
      BY <1>5, <1>8, <3>1, <3>2
  <2>2. CASE /\ n = m /\ req[r].op = "backup" /\ c = req[r].code
             /\ \A q \in Requests \ {r} : ~Holds(q, m, c)
    <3>1. c \notin rows'[n].codes
      BY <1>3, <1>5, <2>2
    <3>2. m \notin req'[r].todo
      BY <1>7 DEF Shrinks
    <3>3. ~Holds(r, n, c)'
      BY <2>2, <3>2 DEF Holds
    <3>4. \A q \in Requests \ {r} : ~Holds(q, n, c)'
      BY <1>8, <2>2
    <3> QED
      BY <3>1, <3>3, <3>4
  <2> QED
    BY <1>9, <2>1, <2>2
<1> QED
  BY <1>8, <1>10, <1>11, <1>12, <1>13 DEF MethodInvariant

(* Only DeleteMethod takes a row out. *)
LEMMA DeleteStep ==
  ASSUME MethodInvariant, NEW r \in Requests, DeleteMethod(r)
  PROVE  MethodInvariant'
<1> DEFINE left == DOMAIN rows \ req[r].todo
<1>1. /\ TypeOK /\ End(r) /\ UNCHANGED <<issued, settled>>
      /\ rows' = [n \in left |-> rows[n]]
  BY DEF MethodInvariant, DeleteMethod
<1>2. DOMAIN rows \subseteq Methods /\ \A m \in DOMAIN rows : rows[m] \in Row
  BY <1>1, TableRow DEF TypeOK
<1>3. rows' \in Tables
  <2>1. rows' \in [left -> Row]
    BY <1>1, <1>2
  <2> QED
    BY <1>2, <2>1, IsTable
<1>4. \A m \in DOMAIN rows' : m \in DOMAIN rows /\ rows'[m] = rows[m]
  BY <1>1
<1> QED
  BY <1>1, <1>3, <1>4, EndStep

(* A request that starts, with what it reads. *)
LEMMA Started ==
  ASSUME MethodInvariant, NEW r \in Requests, NEW u \in Users,
         \/ VerifyTOTP(r, u) \/ VerifyBackupCode(r, u)
         \/ \E m \in Methods : RemoveMethod(r, u, m) \/ SetPrimaryMethod(r, u, m)
  PROVE  \/ UNCHANGED vars
         \/ \E op \in {"totp", "backup", "primary", "remove"}, n \in Methods,
               code \in Codes \cup {None}, read \in SUBSET FindByUser(u) :
              Start(r, op, u, n, code, read)
<1>1. DOMAIN rows \subseteq Methods /\ \A n \in DOMAIN rows : rows[n].codes \subseteq Codes
  BY TableRow DEF MethodInvariant, TypeOK, Row
<1>2. FindByUser(u) \subseteq DOMAIN rows /\ FindPrimaryByUser(u) \subseteq FindByUser(u)
  BY DEF FindByUser, FindPrimaryByUser
<1>3. CASE VerifyTOTP(r, u)
  <2>1. CASE UNCHANGED vars
    BY <2>1
  <2>2. ASSUME NEW n \in FindPrimaryByUser(u), Start(r, "totp", u, n, None, {n})
        PROVE  \E op \in {"totp", "backup", "primary", "remove"}, k \in Methods,
                  code \in Codes \cup {None}, read \in SUBSET FindByUser(u) :
                 Start(r, op, u, k, code, read)
    BY <1>1, <1>2, <2>2
  <2> QED
    BY <1>3, <2>1, <2>2 DEF VerifyTOTP
<1>4. CASE VerifyBackupCode(r, u)
  <2>1. PICK n \in FindByUser(u) : \E c \in rows[n].codes : Start(r, "backup", u, n, c, {n})
    BY <1>4 DEF VerifyBackupCode
  <2>2. PICK c \in rows[n].codes : Start(r, "backup", u, n, c, {n})
    BY <2>1
  <2>3. n \in Methods /\ c \in Codes \cup {None} /\ {n} \in SUBSET FindByUser(u)
    BY <1>1, <1>2
  <2> QED
    BY <2>2, <2>3
<1>5. ASSUME NEW m \in Methods, RemoveMethod(r, u, m)
      PROVE  \E read \in SUBSET FindByUser(u) : Start(r, "remove", u, m, None, read)
  <2>1. m \in FindByUser(u) /\ Start(r, "remove", u, m, None, {m})
    BY <1>5 DEF RemoveMethod, FindByID, FindByUser
  <2> QED
    BY <2>1
<1>6. ASSUME NEW m \in Methods, SetPrimaryMethod(r, u, m)
      PROVE  Start(r, "primary", u, m, None, FindByUser(u))
  BY <1>6 DEF SetPrimaryMethod
<1> QED
  BY <1>3, <1>4, <1>5, <1>6

LEMMA UnchangedMethods ==
  ASSUME MethodInvariant, UNCHANGED vars
  PROVE  MethodInvariant'
<1>1. /\ UNCHANGED <<rows, issued, req, settled>>
      /\ TypeOK /\ Known /\ CopiesOwned /\ AllPrimary /\ ConsumedIsGone
  BY DEF MethodInvariant, vars
<1> QED
  BY <1>1 DEF MethodInvariant, TypeOK, Known, CopiesOwned, AllPrimary, ConsumedIsGone, Holds

LEMMA NextMethods == MethodInvariant /\ [Next]_vars => MethodInvariant'
<1> SUFFICES ASSUME MethodInvariant, [Next]_vars
             PROVE  MethodInvariant'
  OBVIOUS
<1>1. CASE UNCHANGED vars
  BY <1>1, UnchangedMethods
<1>2. ASSUME NEW u \in Users, EnrollTOTP(u)
      PROVE  MethodInvariant'
  BY <1>2, EnrollStep
<1>3. ASSUME NEW r \in Requests, NEW u \in Users,
             \/ VerifyTOTP(r, u) \/ VerifyBackupCode(r, u)
             \/ \E m \in Methods : RemoveMethod(r, u, m) \/ SetPrimaryMethod(r, u, m)
      PROVE  MethodInvariant'
  <2>1. ASSUME NEW op \in {"totp", "backup", "primary", "remove"}, NEW n \in Methods,
               NEW code \in Codes \cup {None}, NEW read \in SUBSET FindByUser(u),
               Start(r, op, u, n, code, read)
        PROVE  MethodInvariant'
    BY <2>1, StartStep
  <2> QED
    BY <1>1, <1>3, <2>1, Started
<1>4. ASSUME NEW r \in Requests, UpdateMethod(r) \/ DeleteMethod(r)
      PROVE  MethodInvariant'
  BY <1>4, UpdateStep, DeleteStep
<1>5. ASSUME NEW r \in Requests, UpdateMissing(r) \/ Fail(r)
      PROVE  MethodInvariant'
  <2>1. End(r) /\ UNCHANGED <<rows, issued, settled>> /\ rows \in Tables
    BY <1>5 DEF UpdateMissing, Fail, MethodInvariant, TypeOK
  <2> QED
    BY <2>1, EndStep
<1> QED
  BY <1>1, <1>2, <1>3, <1>4, <1>5 DEF Next

-----------------------------------------------------------------------------
(* The invariant, and what follows from it. *)

(* The inductive invariant holds in every reachable state. *)
THEOREM MethodInvariantHolds == Spec => []MethodInvariant
BY InitMethods, NextMethods, PTL DEF Spec

(* However requests interleave their whole-row writes, a code consumed      *)
(* while nobody else had a copy of it is gone for good.                     *)
THEOREM AlwaysConsumed == Spec => []ConsumedIsGone
<1>1. MethodInvariant => ConsumedIsGone
  BY DEF MethodInvariant
<1> QED
  BY <1>1, MethodInvariantHolds, PTL

(* Whoever has a method has a primary one, and FindPrimaryByUser finds it.  *)
THEOREM AlwaysPrimary == Spec => []PrimaryExists
<1>1. MethodInvariant => PrimaryExists
  <2> SUFFICES ASSUME MethodInvariant, NEW u \in Users, FindByUser(u) # {}
               PROVE  FindPrimaryByUser(u) # {}
    BY DEF PrimaryExists
  <2> DEFINE primary == {m \in FindByUser(u) : rows[m].primary}
  <2>1. primary # {} /\ primary \subseteq Nat
    BY TableRow, MethodParameters
       DEF MethodInvariant, TypeOK, AllPrimary, FindByUser
  <2>2. FindPrimaryByUser(u) = {m \in primary : \A n \in primary : m <= n}
    BY DEF FindPrimaryByUser
  <2> HIDE DEF primary
  <2>3. \E m \in primary : \A n \in primary : m <= n
    BY <2>1, Least
  <2> QED
    BY <2>2, <2>3
<1> QED
  BY <1>1, MethodInvariantHolds, PTL

(* What a step does to the table: each row that changes or goes was in the  *)
(* hands of a request of its user, and a row that comes has a new id.       *)
LEMMA RowsChanged ==
  ASSUME MethodInvariant, [Next]_vars
  PROVE  /\ issued \subseteq issued'
         /\ \A m \in DOMAIN rows' : m \in DOMAIN rows \/ m \notin issued
         /\ \A m \in DOMAIN rows : m \notin DOMAIN rows' \/ rows'[m] # rows[m] =>
              \E r \in Requests : req'[r] # req[r] /\ req[r].user = rows[m].user
<1>1. TypeOK /\ Known /\ CopiesOwned
  BY DEF MethodInvariant
<1>2. CASE UNCHANGED <<rows, issued>>
  BY <1>2
<1>3. ASSUME NEW u \in Users, EnrollTOTP(u)
      PROVE  /\ issued \subseteq issued'
             /\ \A m \in DOMAIN rows' : m \in DOMAIN rows \/ m \notin issued
             /\ \A m \in DOMAIN rows : m \in DOMAIN rows' /\ rows'[m] = rows[m]
  BY <1>1, <1>3 DEF EnrollTOTP, Known
<1>4. ASSUME NEW r \in Requests, UpdateMethod(r)
      PROVE  /\ issued \subseteq issued' /\ DOMAIN rows' = DOMAIN rows
             /\ req'[r] # req[r]
             /\ \A m \in DOMAIN rows : rows'[m] # rows[m] => req[r].user = rows[m].user
  <2>1. PICK m \in req[r].todo \cap DOMAIN rows :
          rows' = [rows EXCEPT ![m] = Updates(rows[m], Changed(r, m))] /\ Written(r, m)
    BY <1>4 DEF UpdateMethod
  <2>2. /\ issued \subseteq issued' /\ DOMAIN rows' = DOMAIN rows
        /\ \A n \in DOMAIN rows : n # m => rows'[n] = rows[n]
    BY <1>4, <2>1 DEF UpdateMethod
  <2>3. req'[r] # req[r]
    BY <1>1, <2>1, WrittenShrinks DEF Shrinks
  <2>4. req[r].user = rows[m].user
    BY <1>1, <2>1 DEF CopiesOwned
  <2> QED
    BY <2>2, <2>3, <2>4
<1>5. ASSUME NEW r \in Requests, DeleteMethod(r)
      PROVE  /\ issued \subseteq issued' /\ DOMAIN rows' \subseteq DOMAIN rows
             /\ req'[r] # req[r]
             /\ \A m \in DOMAIN rows :
                  m \notin DOMAIN rows' \/ rows'[m] # rows[m] => req[r].user = rows[m].user
  <2>1. DOMAIN rows' = DOMAIN rows \ req[r].todo /\ issued' = issued
        /\ \A m \in DOMAIN rows' : rows'[m] = rows[m]
    BY <1>5 DEF DeleteMethod
  <2>2. req'[r] # req[r]
    BY <1>1, <1>5, EndShrinks, IdleSlot DEF DeleteMethod
  <2> QED
    BY <1>1, <2>1, <2>2 DEF CopiesOwned
<1> QED
  BY <1>2, <1>3, <1>4, <1>5
     DEF Next, vars, VerifyTOTP, VerifyBackupCode, RemoveMethod, SetPrimaryMethod, Start,
         UpdateMissing, Fail

(* A removed method stays removed, whoever had read it before.              *)
THEOREM AlwaysRemoved == Spec => RemovedStaysRemoved
<1>1. MethodInvariant /\ [Next]_vars => issued \ DOMAIN rows \subseteq issued' \ DOMAIN rows'
  BY RowsChanged
<1> QED
  BY <1>1, MethodInvariantHolds, PTL DEF Spec, RemovedStaysRemoved

(* A user's methods are changed by that user's requests only, whatever ids  *)
(* the requests of others name.                                             *)
THEOREM AlwaysOwn == Spec => OwnMethods
<1> DEFINE Own == \A m \in DOMAIN rows : m \notin DOMAIN rows' \/ rows'[m] # rows[m] =>
                    \E r \in Requests : req'[r] # req[r] /\ req[r].user = rows[m].user
<1>1. MethodInvariant /\ [Next]_vars => Own
  BY RowsChanged
<1> QED
  BY <1>1, MethodInvariantHolds, PTL DEF Spec, OwnMethods
=============================================================================
