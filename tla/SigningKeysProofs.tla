------------------------- MODULE SigningKeysProofs -------------------------
(***************************************************************************)
(* Proofs about SigningKeys, for any processes, requests and keys.         *)
(***************************************************************************)
EXTENDS SigningKeys, TLAPS

(* A key is saved before anybody can hold it, and stays active for ever. *)
KeysKnown ==
  /\ \A k \in stored : active[k]
  /\ \A n \in Nodes : current[n] # None => current[n] \in stored
  /\ \A r \in Requests : pc[r] = "sign" => key[r] \in stored
  /\ \A token \in tokens : token.key \in stored

(* Whoever is past the mutex holds it. *)
HoldersHold == \A p \in Procs : pc[p] \in Holding => mutex[NodeOf(p)] = p

(* The inductive invariant. *)
KeyInvariant == TypeOK /\ KeysKnown /\ HoldersHold /\ FreshSigner

LEMMA NodeType == \A p \in Procs : NodeOf(p) \in Nodes
BY KeyParameters DEF NodeOf, Procs

LEMMA Initially == Init => KeyInvariant
<1> SUFFICES ASSUME Init PROVE KeyInvariant
  OBVIOUS
<1> USE KeyParameters DEF Init
<1>1. TypeOK
  BY DEF TypeOK, Procs, RequestSteps, RotatorSteps
<1>2. KeysKnown /\ FreshSigner
  BY DEF KeysKnown, FreshSigner, Procs
<1>3. HoldersHold
  BY DEF HoldersHold, Holding
<1>4. QED
  BY <1>1, <1>2, <1>3 DEF KeyInvariant

LEMMA FoundStored == FindActive \subseteq stored
BY DEF FindActive

(* The variables that RotateReturns sets keep their types. *)
LEMMA ReturnTyped ==
  ASSUME TypeOK, NEW p \in Procs, NEW failed \in BOOLEAN, RotateReturns(p, failed)
  PROVE  /\ mutex' \in [Nodes -> Procs \cup {None}]
         /\ pc' \in [Procs -> RequestSteps \cup RotatorSteps]
         /\ serving' \in [Nodes -> BOOLEAN]
         /\ late' \in [Procs -> BOOLEAN]
<1>1. mutex' \in [Nodes -> Procs \cup {None}]
  BY NodeType DEF RotateReturns, Return, TypeOK
<1>2. pc' \in [Procs -> RequestSteps \cup RotatorSteps]
  BY DEF RotateReturns, Return, Goto, TypeOK, RequestSteps, RotatorSteps
<1>3. serving' \in [Nodes -> BOOLEAN]
  <2>1. \A n \in Nodes : (serving[n] \/ n = p) \in BOOLEAN
    BY DEF TypeOK
  <2>2. QED
    BY <2>1, Zenon DEF RotateReturns
<1>4. late' \in [Procs -> BOOLEAN]
  BY DEF RotateReturns, TypeOK
<1>5. QED
  BY <1>1, <1>2, <1>3, <1>4

(* RotateReturns sets p free or, without an error, lets it sign. *)
LEMMA ReturnOthers ==
  ASSUME TypeOK, NEW p \in Procs, NEW failed \in BOOLEAN, RotateReturns(p, failed)
  PROVE  \A r \in Requests :
           /\ pc'[r] = "sign" => pc[r] = "sign" \/ (r = p /\ ~failed)
           /\ r # p => pc'[r] = pc[r] /\ late'[r] = late[r]
           /\ r = p /\ failed => pc'[r] # "sign"
BY DEF RotateReturns, Return, Goto, TypeOK, Procs

(* A rotation that saves a new key keeps the types. *)
LEMMA CreateTyped ==
  ASSUME TypeOK, NEW p \in Procs, CreateKey(p)
  PROVE  TypeOK'
<1>1. CASE RotateReturns(p, TRUE) /\ UNCHANGED <<rows, current, key>>
  BY <1>1, ReturnTyped DEF CreateKey, TypeOK, rows
<1>2. ASSUME NEW k \in Keys \ stored,
             stored' = stored \cup {k},
             active' = [active EXCEPT ![k] = TRUE],
             expires' = [expires EXCEPT ![k] = now + Lifetime],
             current' = [current EXCEPT ![NodeOf(p)] = k],
             key' = Returned(p, k),
             RotateReturns(p, FALSE)
      PROVE  TypeOK'
  <2>1. now + Lifetime \in 0..(MaxNow + Lifetime)
    BY KeyParameters DEF TypeOK
  <2>2. key' \in [Requests -> Keys \cup {None}]
    BY <1>2 DEF Returned, TypeOK
  <2>3. QED
    BY <1>2, <2>1, <2>2, ReturnTyped DEF CreateKey, TypeOK
<1>3. QED
  BY <1>1, <1>2 DEF CreateKey

(* The type invariant is preserved by every step. *)
LEMMA StepTyped == KeyInvariant /\ [Next]_vars => TypeOK'
<1> SUFFICES ASSUME KeyInvariant, [Next]_vars PROVE TypeOK'
  OBVIOUS
<1> USE KeyParameters, NodeType DEF KeyInvariant, TypeOK, rows, Procs, RequestSteps, RotatorSteps
<1>1. ASSUME NEW p \in Procs, Lock(p) PROVE TypeOK'
  BY <1>1 DEF Lock, Goto
<1>2. ASSUME NEW p \in Procs, Deactivate(p) PROVE TypeOK'
  <2>1. ASSUME NEW k \in Keys PROVE Updates(active[k], FALSE) \in BOOLEAN
    BY DEF Updates
  <2>2. active' \in [Keys -> BOOLEAN]
    <3>1. CASE current[NodeOf(p)] = None
      BY <1>2, <3>1 DEF Deactivate
    <3>2. CASE current[NodeOf(p)] # None
      <4>1. current[NodeOf(p)] \in Keys
        BY <3>2
      <4>2. \/ active' = active
            \/ active' = [active EXCEPT ![current[NodeOf(p)]] =
                                         Updates(active[current[NodeOf(p)]], FALSE)]
        BY ONLY <1>2, <3>2 DEF Deactivate
      <4>3. QED
        BY ONLY <2>1, <4>1, <4>2, TypeOK DEF TypeOK
    <3>3. QED
      BY <3>1, <3>2
  <2>3. CASE Goto(p, "create") /\ UNCHANGED <<mutex, serving, late>>
    BY <1>2, <2>2, <2>3 DEF Deactivate, Goto
  <2>4. CASE RotateReturns(p, TRUE)
    BY <1>2, <2>2, <2>4, ReturnTyped DEF Deactivate
  <2>5. QED
    BY <1>2, <2>3, <2>4 DEF Deactivate
<1>3. ASSUME NEW p \in Procs, CreateKey(p) PROVE TypeOK'
  BY <1>3, CreateTyped
<1>4. ASSUME NEW n \in Nodes, Boot(n) PROVE TypeOK'
  <2>1. current' \in [Nodes -> Keys \cup {None}]
    BY <1>4, FoundStored DEF Boot
  <2>2. pc' \in [Procs -> RequestSteps \cup RotatorSteps]
    BY <1>4 DEF Boot, Goto
  <2>3. serving' \in [Nodes -> BOOLEAN]
    BY <1>4 DEF Boot
  <2>4. QED
    BY <1>4, <2>1, <2>2, <2>3 DEF Boot
<1>5. ASSUME NEW n \in Nodes, Wake(n) PROVE TypeOK'
  BY <1>5 DEF Wake, Goto
<1>6. ASSUME NEW n \in Nodes, Restart(n) PROVE TypeOK'
  BY <1>6 DEF Restart
<1>7. ASSUME NEW r \in Requests, StartSign(r) PROVE TypeOK'
  BY <1>7 DEF StartSign, Goto
<1>8. ASSUME NEW r \in Requests, UseCurrent(r) PROVE TypeOK'
  BY <1>8 DEF UseCurrent, Usable, Return, Goto
<1>9. ASSUME NEW r \in Requests, FindKey(r) PROVE TypeOK'
  <2> DEFINE Kept == UNCHANGED <<rows, serving, due, late, tokens, now, restarts>>
  <2>1. ASSUME NEW k \in FindActive, Kept, current' = [current EXCEPT ![On[r]] = k],
               key' = [key EXCEPT ![r] = k], Return(r, "sign")
        PROVE  TypeOK'
    <3>1. k \in Keys
      BY FoundStored
    <3>2. current' \in [Nodes -> Keys \cup {None}] /\ key' \in [Requests -> Keys \cup {None}]
      BY <2>1, <3>1
    <3>3. QED
      BY <2>1, <3>2 DEF Return, Goto
  <2>2. CASE Kept /\ Goto(r, "relock") /\ UNCHANGED <<current, mutex, key>>
    BY <2>2 DEF Goto
  <2>3. CASE Kept /\ Return(r, "idle") /\ UNCHANGED <<current, key>>
    BY <2>3 DEF Return, Goto
  <2>4. QED
    BY <1>9, <2>1, <2>2, <2>3 DEF FindKey
<1>10. ASSUME NEW r \in Requests, Sign(r) PROVE TypeOK'
  <2>1. key[r] \in Keys
    BY <1>10 DEF Sign, KeysKnown
  <2>2. [key |-> key[r], at |-> now] \in [key : Keys, at : 0..MaxNow]
    BY <2>1
  <2>3. QED
    BY <1>10, <2>2 DEF Sign, Goto
<1>11. CASE Tick
  BY <1>11 DEF Tick
<1>12. CASE UNCHANGED vars
  BY <1>12 DEF vars
<1>13. QED
  BY <1>1, <1>2, <1>3, <1>4, <1>5, <1>6, <1>7, <1>8, <1>9, <1>10, <1>11, <1>12
     DEF Next, Step, Rotator, Request

(* Every step keeps the keys in the database that are in use. *)
LEMMA StepKnown == KeyInvariant /\ [Next]_vars => KeysKnown'
<1> SUFFICES ASSUME KeyInvariant, [Next]_vars PROVE KeysKnown'
  OBVIOUS
<1> USE KeyParameters, NodeType, FoundStored DEF KeyInvariant, TypeOK, KeysKnown, rows, Procs
<1>1. ASSUME NEW p \in Procs, Lock(p) PROVE KeysKnown'
  BY <1>1 DEF Lock, Goto
<1>2. ASSUME NEW p \in Procs, Deactivate(p) PROVE KeysKnown'
  <2>1. \A k \in stored : active'[k]
    BY <1>2 DEF Deactivate, Updates
  <2>2. \A r \in Requests : pc'[r] = "sign" => pc[r] = "sign"
    <3>1. CASE Goto(p, "create")
      BY <3>1 DEF Goto
    <3>2. CASE RotateReturns(p, TRUE)
      BY <3>2, ReturnOthers
    <3>3. QED
      BY <1>2, <3>1, <3>2 DEF Deactivate
  <2>3. QED
    BY <1>2, <2>1, <2>2 DEF Deactivate
<1>3. ASSUME NEW p \in Procs, CreateKey(p) PROVE KeysKnown'
  <2>1. CASE RotateReturns(p, TRUE) /\ UNCHANGED <<rows, current, key>>
    <3>1. \A r \in Requests : pc'[r] = "sign" => pc[r] = "sign"
      BY <2>1, ReturnOthers
    <3>2. QED
      BY <1>3, <2>1, <3>1 DEF CreateKey
  <2>2. ASSUME NEW k \in Keys \ stored,
               stored' = stored \cup {k},
               active' = [active EXCEPT ![k] = TRUE],
               current' = [current EXCEPT ![NodeOf(p)] = k],
               key' = Returned(p, k),
               RotateReturns(p, FALSE)
        PROVE  KeysKnown'
    <3>1. \A r \in Requests : pc'[r] = "sign" => pc[r] = "sign" \/ r = p
      BY <2>2 DEF RotateReturns, Return, Goto
    <3>2. \A r \in Requests : pc'[r] = "sign" => key'[r] \in stored'
      BY <2>2, <3>1 DEF Returned
    <3>3. tokens' = tokens
      BY <1>3 DEF CreateKey
    <3>4. QED
      BY <2>2, <3>2, <3>3
  <2>3. QED
    BY <1>3, <2>1, <2>2 DEF CreateKey
<1>4. ASSUME NEW n \in Nodes, Boot(n) PROVE KeysKnown'
  BY <1>4 DEF Boot, Goto
<1>5. ASSUME NEW n \in Nodes, Wake(n) PROVE KeysKnown'
  BY <1>5 DEF Wake, Goto
<1>6. ASSUME NEW n \in Nodes, Restart(n) PROVE KeysKnown'
  BY <1>6 DEF Restart, NodeOf
<1>7. ASSUME NEW r \in Requests, StartSign(r) PROVE KeysKnown'
  BY <1>7 DEF StartSign, Goto
<1>8. ASSUME NEW r \in Requests, UseCurrent(r) PROVE KeysKnown'
  BY <1>8 DEF UseCurrent, Usable, Return, Goto
<1>9. ASSUME NEW r \in Requests, FindKey(r) PROVE KeysKnown'
  BY <1>9 DEF FindKey, Return, Goto
<1>10. ASSUME NEW r \in Requests, Sign(r) PROVE KeysKnown'
  BY <1>10 DEF Sign, Goto
<1>11. CASE Tick
  BY <1>11 DEF Tick
<1>12. CASE UNCHANGED vars
  BY <1>12 DEF vars
<1>13. QED
  BY <1>1, <1>2, <1>3, <1>4, <1>5, <1>6, <1>7, <1>8, <1>9, <1>10, <1>11, <1>12
     DEF Next, Step, Rotator, Request

(* Every step leaves the mutex with whoever is past it. *)
LEMMA StepHeld == KeyInvariant /\ [Next]_vars => HoldersHold'
<1> SUFFICES ASSUME KeyInvariant, [Next]_vars PROVE HoldersHold'
  OBVIOUS
<1> USE KeyParameters, NodeType DEF KeyInvariant, TypeOK, HoldersHold, Holding, Procs
(* Whoever gives the mutex back held it, so no one else did. *)
<1>0. ASSUME NEW p \in Procs, pc[p] \in Holding, NEW step \in Resting \cup {"sign"},
             Return(p, step)
      PROVE  HoldersHold'
  BY <1>0 DEF Return, Goto, Resting
<1>1. ASSUME NEW p \in Procs, Lock(p) PROVE HoldersHold'
  BY <1>1 DEF Lock, Goto
<1>2. ASSUME NEW p \in Procs, Deactivate(p) PROVE HoldersHold'
  <2>1. CASE Goto(p, "create") /\ UNCHANGED mutex
    BY <1>2, <2>1 DEF Deactivate, Goto
  <2>2. CASE RotateReturns(p, TRUE)
    BY <1>2, <2>2, <1>0 DEF Deactivate, RotateReturns, Resting
  <2>3. QED
    BY <1>2, <2>1, <2>2 DEF Deactivate
<1>3. ASSUME NEW p \in Procs, CreateKey(p) PROVE HoldersHold'
  <2>1. \E failed \in BOOLEAN : RotateReturns(p, failed)
    BY <1>3 DEF CreateKey
  <2>2. QED
    BY <1>3, <2>1, <1>0 DEF CreateKey, RotateReturns, Resting
<1>4. ASSUME NEW n \in Nodes, Boot(n) PROVE HoldersHold'
  BY <1>4 DEF Boot, Goto
<1>5. ASSUME NEW n \in Nodes, Wake(n) PROVE HoldersHold'
  BY <1>5 DEF Wake, Goto
<1>6. ASSUME NEW n \in Nodes, Restart(n) PROVE HoldersHold'
  BY <1>6 DEF Restart
<1>7. ASSUME NEW r \in Requests, StartSign(r) PROVE HoldersHold'
  BY <1>7 DEF StartSign, Goto
<1>8. ASSUME NEW r \in Requests, UseCurrent(r) PROVE HoldersHold'
  <2>1. CASE Return(r, "sign")
    BY <1>8, <2>1, <1>0 DEF UseCurrent
  <2>2. CASE Goto(r, "find") /\ UNCHANGED mutex
    BY <1>8, <2>2 DEF UseCurrent, Goto
  <2>3. QED
    BY <1>8, <2>1, <2>2 DEF UseCurrent
<1>9. ASSUME NEW r \in Requests, FindKey(r) PROVE HoldersHold'
  <2>1. CASE Return(r, "sign")
    BY <1>9, <2>1, <1>0 DEF FindKey
  <2>2. CASE Return(r, "idle")
    BY <1>9, <2>2, <1>0 DEF FindKey, Resting
  <2>3. CASE Goto(r, "relock") /\ UNCHANGED mutex
    BY <1>9, <2>3 DEF FindKey, Goto
  <2>4. QED
    BY <1>9, <2>1, <2>2, <2>3 DEF FindKey
<1>10. ASSUME NEW r \in Requests, Sign(r) PROVE HoldersHold'
  BY <1>10 DEF Sign, Goto
<1>11. CASE Tick
  BY <1>11 DEF Tick
<1>12. CASE UNCHANGED vars
  BY <1>12 DEF vars
<1>13. QED
  BY <1>1, <1>2, <1>3, <1>4, <1>5, <1>6, <1>7, <1>8, <1>9, <1>10, <1>11, <1>12
     DEF Next, Step, Rotator, Request

(* A key chosen for a signature was good when the request began: a tick is   *)
(* seen at most once by a request, and no row is written a second time.      *)
LEMMA StepFresh == KeyInvariant /\ [Next]_vars => FreshSigner'
<1> SUFFICES ASSUME KeyInvariant, [Next]_vars PROVE FreshSigner'
  OBVIOUS
<1> USE KeyParameters, NodeType DEF KeyInvariant, TypeOK, KeysKnown, FreshSigner, rows, Procs
<1>0. \A r \in Requests : pc[r] = "sign" => key[r] \in stored /\ key[r] \in Keys
  OBVIOUS
<1>1. ASSUME NEW p \in Procs, Lock(p) PROVE FreshSigner'
  BY <1>1 DEF Lock, Goto
<1>2. ASSUME NEW p \in Procs, Deactivate(p) PROVE FreshSigner'
  <2>1. \A r \in Requests : pc'[r] = "sign" => pc[r] = "sign" /\ late'[r] = late[r]
    <3>1. CASE Goto(p, "create") /\ UNCHANGED late
      BY <3>1 DEF Goto
    <3>2. CASE RotateReturns(p, TRUE)
      BY <3>2, ReturnOthers
    <3>3. QED
      BY <1>2, <3>1, <3>2 DEF Deactivate
  <2>2. QED
    BY <1>2, <2>1 DEF Deactivate
<1>3. ASSUME NEW p \in Procs, CreateKey(p) PROVE FreshSigner'
  <2>1. CASE RotateReturns(p, TRUE) /\ UNCHANGED <<rows, current, key>>
    <3>1. \A r \in Requests : pc'[r] = "sign" => pc[r] = "sign" /\ late'[r] = late[r]
      BY <2>1, ReturnOthers
    <3>2. QED
      BY <1>3, <2>1, <3>1 DEF CreateKey
  <2>2. ASSUME NEW k \in Keys \ stored,
               expires' = [expires EXCEPT ![k] = now + Lifetime],
               key' = Returned(p, k),
               RotateReturns(p, FALSE)
        PROVE  FreshSigner'
    <3>1. now' = now
      BY <1>3 DEF CreateKey
    <3>2. ASSUME NEW r \in Requests, pc'[r] = "sign"
          PROVE  IF late'[r] THEN now' - 1 < expires'[key'[r]] ELSE now' < expires'[key'[r]]
      <4>1. CASE r = p
        BY <2>2, <3>1, <3>2, <4>1 DEF Returned
      <4>2. CASE r # p
        <5>1. pc[r] = "sign" /\ late'[r] = late[r] /\ key'[r] = key[r]
          <6>1. pc'[r] = pc[r] /\ late'[r] = late[r]
            BY <2>2, <4>2, ReturnOthers
          <6>2. key'[r] = key[r]
            BY <2>2, <4>2 DEF Returned
          <6>3. QED
            BY <3>2, <6>1, <6>2
        <5>2. key[r] # k /\ key[r] \in Keys
          BY <1>0, <2>2, <5>1
        <5>3. QED
          BY <2>2, <3>1, <5>1, <5>2
      <4>3. QED
        BY <4>1, <4>2
    <3>3. QED
      BY <3>2
  <2>3. QED
    BY <1>3, <2>1, <2>2 DEF CreateKey
<1>4. ASSUME NEW n \in Nodes, Boot(n) PROVE FreshSigner'
  BY <1>4 DEF Boot, Goto
<1>5. ASSUME NEW n \in Nodes, Wake(n) PROVE FreshSigner'
  BY <1>5 DEF Wake, Goto
<1>6. ASSUME NEW n \in Nodes, Restart(n) PROVE FreshSigner'
  BY <1>6 DEF Restart, NodeOf
<1>7. ASSUME NEW r \in Requests, StartSign(r) PROVE FreshSigner'
  BY <1>7 DEF StartSign, Goto
<1>8. ASSUME NEW r \in Requests, UseCurrent(r) PROVE FreshSigner'
  <2>1. /\ UNCHANGED <<expires, late, now>>
        /\ \A q \in Requests \ {r} : key'[q] = key[q] /\ pc'[q] = pc[q]
    BY <1>8 DEF UseCurrent, Return, Goto
  <2>2. pc'[r] = "sign" => now < expires[key'[r]]
    BY <1>8 DEF UseCurrent, Usable, Before, Return, Goto
  <2>3. expires[key'[r]] \in Nat \/ pc'[r] # "sign"
    <3>1. key'[r] \in Keys \/ pc'[r] # "sign"
      BY <1>8 DEF UseCurrent, Usable, Return, Goto
    <3>2. \A k \in Keys : expires[k] \in Nat
      BY <1>8
    <3>3. QED
      BY <3>1, <3>2, Zenon
  <2>4. QED
    BY <2>1, <2>2, <2>3
<1>9. ASSUME NEW r \in Requests, FindKey(r) PROVE FreshSigner'
  BY <1>9, FoundStored DEF FindKey, Before, Return, Goto
<1>10. ASSUME NEW r \in Requests, Sign(r) PROVE FreshSigner'
  BY <1>10 DEF Sign, Goto
<1>11. CASE Tick
  <2>1. ASSUME NEW r \in Requests, pc'[r] = "sign"
        PROVE  late'[r] /\ now < expires[key[r]]
    BY <1>11, <2>1 DEF Tick, Resting
  <2>2. now' - 1 = now /\ UNCHANGED <<expires, key>>
    BY <1>11 DEF Tick
  <2>3. QED
    BY <2>1, <2>2
<1>12. CASE UNCHANGED vars
  BY <1>12 DEF vars
<1>13. QED
  BY <1>1, <1>2, <1>3, <1>4, <1>5, <1>6, <1>7, <1>8, <1>9, <1>10, <1>11, <1>12
     DEF Next, Step, Rotator, Request

(* The invariant is inductive. *)
THEOREM KeyInvariantHolds == Spec => []KeyInvariant
<1>1. KeyInvariant /\ [Next]_vars => KeyInvariant'
  BY StepTyped, StepKnown, StepHeld, StepFresh DEF KeyInvariant
<1>2. QED
  BY Initially, <1>1, PTL DEF Spec

(* Every variable keeps its type. *)
THEOREM KeysTyped == Spec => []TypeOK
<1>1. KeyInvariant => TypeOK
  BY DEF KeyInvariant
<1>2. QED
  BY <1>1, KeyInvariantHolds, PTL

(* The key of every live token is published. *)
THEOREM AlwaysVerifiable == Spec => []TokensVerifiable
<1>1. KeyInvariant => TokensVerifiable
  BY DEF KeyInvariant, KeysKnown, TokensVerifiable, Published
<1>2. QED
  BY <1>1, KeyInvariantHolds, PTL

(* No token is signed with a key that had expired when the request began. *)
THEOREM AlwaysFresh == Spec => []FreshSigner
<1>1. KeyInvariant => FreshSigner
  BY DEF KeyInvariant
<1>2. QED
  BY <1>1, KeyInvariantHolds, PTL

(* One goroutine of a process at a time replaces its key. *)
THEOREM AlwaysOneHolder == Spec => []OneHolder
<1>1. KeyInvariant => OneHolder
  BY DEF KeyInvariant, HoldersHold, OneHolder
<1>2. QED
  BY <1>1, KeyInvariantHolds, PTL
=============================================================================
