---------------------------- MODULE SigningKeys ----------------------------
(***************************************************************************)
(* The RSA keys of the identity provider (internal/service/jwks.go and the *)
(* signing_keys table).  Several processes of the API share the table.  In *)
(* each of them requests sign ID tokens with the current key and a ticker  *)
(* rotates it, both under one mutex that its holder must not take again.   *)
(*                                                                         *)
(*   stored   the keys with a row; a row is never deleted                  *)
(*   active   the column is_active                                         *)
(*   expires  the column expires_at, in ticks                              *)
(*   current  current[n]: JWKSService.currentKey of process n, or None     *)
(*   mutex    mutex[n]: who holds keyMutex of n, or None                   *)
(*   pc       where a request or, for a node, its rotation goroutine is    *)
(*   key      key[r]: the key that GetActiveKey returned to request r      *)
(*   serving  serving[n]: Initialize has returned, n answers requests      *)
(*   due      due[n]: a tick of the rotation ticker is waiting             *)
(*   late     late[p]: a tick passed since p began                         *)
(*   tokens   the ID tokens of this tick and the one before                *)
(*                                                                         *)
(* Keys are numbers in the order of their random row ids.                  *)
(***************************************************************************)
EXTENDS Naturals

CONSTANTS
  Nodes, Requests,
  On,          \* On[r]: the process that serves request r
  Keys,
  Lifetime,    \* 90 days, in ticks of the rotation ticker
  MaxNow,      \* bound: the last tick
  MaxRestarts, \* bound: restarts of processes
  StoreFails,  \* whether calls to the database may fail
  None

Procs == Nodes \cup Requests

ASSUME KeyParameters ==
  /\ On \in [Requests -> Nodes] /\ Nodes \cap Requests = {}
  /\ Keys \subseteq Nat /\ None \notin Keys \cup Procs
  /\ Lifetime \in Nat \ {0} /\ MaxNow \in Nat /\ MaxRestarts \in Nat
  /\ StoreFails \in BOOLEAN

VARIABLES stored, active, expires, current, mutex, pc, key, serving, due, late,
          tokens, now, restarts

rows == <<stored, active, expires>>
vars == <<stored, active, expires, current, mutex, pc, key, serving, due, late,
          tokens, now, restarts>>

NodeOf(p) == IF p \in Nodes THEN p ELSE On[p]

(* A rotator sleeps in "wait", a request slot is free in "idle". *)
Resting == {"idle", "wait"}
RequestSteps == {"idle", "lock", "current", "find", "relock", "deactivate", "create", "sign"}
RotatorSteps == {"boot", "wait", "lock", "deactivate", "create"}

-----------------------------------------------------------------------------
(* time.Now() against expires_at; neither holds at the very instant. *)
Before(k) == now < expires[k]
After(k) == now > expires[k]

(* A GORM Updates call with a struct skips columns that become FALSE. *)
Updates(old, new) == IF new THEN new ELSE old

(* First orders by the row id: of several active rows always the same one is *)
(* found, and if that one has expired there is no active key.                *)
FindActive ==
  LET found == {k \in stored : active[k] /\ \A j \in stored : active[j] => k <= j}
  IN {k \in found : ~After(k)}

(* The keys that GetJWKS publishes. *)
FaultyPublished == {k \in stored : active[k] /\ ~After(k)} \* "or" for "and"
Published == {k \in stored : ~(~active[k] /\ After(k))}

-----------------------------------------------------------------------------
Init ==
  /\ stored = {}
  /\ active = [k \in Keys |-> FALSE]
  /\ expires = [k \in Keys |-> 0]
  /\ current = [n \in Nodes |-> None]
  /\ mutex = [n \in Nodes |-> None]
  /\ pc = [p \in Procs |-> IF p \in Nodes THEN "boot" ELSE "idle"]
  /\ key = [r \in Requests |-> None]
  /\ serving = [n \in Nodes |-> FALSE]
  /\ due = [n \in Nodes |-> FALSE]
  /\ late = [p \in Procs |-> FALSE]
  /\ tokens = {}
  /\ now = 0 /\ restarts = 0

Goto(p, step) == pc' = [pc EXCEPT ![p] = step]

FaultyReturn(p, step) ==                   \* the mutex never given back
  /\ UNCHANGED mutex
  /\ Goto(p, step)

(* p returns and its deferred function gives the mutex back. *)
Return(p, step) ==
  /\ mutex' = [mutex EXCEPT ![NodeOf(p)] = None]
  /\ Goto(p, step)

(* Initialize: any result but a missing key lets the process go on. *)
Boot(n) ==
  /\ pc[n] = "boot"
  /\ \/ /\ FindActive # {}
        /\ \E k \in FindActive : current' = [current EXCEPT ![n] = k]
        /\ Goto(n, "wait")
        /\ serving' = [serving EXCEPT ![n] = TRUE]
     \/ /\ StoreFails
        /\ Goto(n, "wait")
        /\ serving' = [serving EXCEPT ![n] = TRUE]
        /\ UNCHANGED current
     \/ /\ FindActive = {}
        /\ Goto(n, "lock")
        /\ UNCHANGED <<current, serving>>
  /\ UNCHANGED <<rows, mutex, key, due, late, tokens, now, restarts>>

(* The ticker fires. *)
Wake(n) ==
  /\ pc[n] = "wait" /\ due[n]
  /\ due' = [due EXCEPT ![n] = FALSE]
  /\ Goto(n, "lock")
  /\ UNCHANGED <<rows, current, mutex, key, serving, late, tokens, now, restarts>>

(* SignToken is called. *)
StartSign(r) ==
  /\ pc[r] = "idle" /\ serving[On[r]]
  /\ Goto(r, "lock")
  /\ late' = [late EXCEPT ![r] = FALSE]
  /\ UNCHANGED <<rows, current, mutex, key, serving, due, tokens, now, restarts>>

(* GetActiveKey and RotateKey take the mutex; GetActiveKey calls RotateKey   *)
(* while it holds the mutex.                                                 *)
FaultyLock(p) ==                           \* RotateKey without the mutex
  /\ pc[p] \in {"lock", "relock"}
  /\ p \in Requests => mutex[NodeOf(p)] = None
  /\ mutex' = [mutex EXCEPT ![NodeOf(p)] = p]
  /\ Goto(p, IF p \in Nodes \/ pc[p] = "relock" THEN "deactivate" ELSE "current")
  /\ UNCHANGED <<rows, current, key, serving, due, late, tokens, now, restarts>>

Lock(p) ==
  /\ pc[p] \in {"lock", "relock"}
  /\ mutex[NodeOf(p)] = None
  /\ mutex' = [mutex EXCEPT ![NodeOf(p)] = p]
  /\ Goto(p, IF p \in Nodes \/ pc[p] = "relock" THEN "deactivate" ELSE "current")
  /\ UNCHANGED <<rows, current, key, serving, due, late, tokens, now, restarts>>

FaultyUsable(k) == k # None                \* the expiry of the cached key ignored
Usable(k) == k # None /\ Before(k)

(* GetActiveKey with a usable key in memory. *)
UseCurrent(r) ==
  LET k == current[On[r]]
  IN
  /\ pc[r] = "current"
  /\ \/ Usable(k) /\ key' = [key EXCEPT ![r] = k] /\ Return(r, "sign")
     \/ ~Usable(k) /\ Goto(r, "find") /\ UNCHANGED <<mutex, key>>
  /\ UNCHANGED <<rows, current, serving, due, late, tokens, now, restarts>>

(* GetActiveKey goes to the database, and on to RotateKey. *)
FindKey(r) ==
  LET valid == {k \in FindActive : Before(k)}
  IN
  /\ pc[r] = "find"
  /\ \/ \E k \in valid :
          /\ current' = [current EXCEPT ![On[r]] = k]
          /\ key' = [key EXCEPT ![r] = k]
          /\ Return(r, "sign")
     \/ /\ valid = {}
        /\ Goto(r, "relock")
        /\ UNCHANGED <<current, mutex, key>>
     \/ /\ StoreFails
        /\ Return(r, "idle")
        /\ UNCHANGED <<current, key>>
  /\ UNCHANGED <<rows, serving, due, late, tokens, now, restarts>>

(* Where RotateKey returns to, with or without an error. *)
RotateReturns(p, failed) ==
  /\ Return(p, IF p \in Nodes THEN "wait" ELSE IF failed THEN "idle" ELSE "sign")
  /\ serving' = [n \in Nodes |-> serving[n] \/ n = p]
  /\ late' = [late EXCEPT ![p] = FALSE]

(* RotateKey marks the current key inactive and saves it. *)
Deactivate(p) ==
  LET k == current[NodeOf(p)]
  IN
  /\ pc[p] = "deactivate"
  /\ \/ /\ active' = IF k = None THEN active
                     ELSE [active EXCEPT ![k] = Updates(@, FALSE)]
        /\ Goto(p, "create")
        /\ UNCHANGED <<mutex, serving, late>>
     \/ /\ StoreFails /\ k # None
        /\ RotateReturns(p, TRUE)
        /\ UNCHANGED active
  /\ UNCHANGED <<stored, expires, current, key, due, tokens, now, restarts>>

(* GetActiveKey passes the new key on to the request. *)
Returned(p, k) == [r \in Requests |-> IF r = p THEN k ELSE key[r]]

(* RotateKey saves a new key and only then makes it current. *)
CreateKey(p) ==
  /\ pc[p] = "create"
  /\ \/ \E k \in Keys \ stored :
          /\ stored' = stored \cup {k}
          /\ active' = [active EXCEPT ![k] = TRUE]
          /\ expires' = [expires EXCEPT ![k] = now + Lifetime]
          /\ current' = [current EXCEPT ![NodeOf(p)] = k]
          /\ key' = Returned(p, k)
          /\ RotateReturns(p, FALSE)
     \/ /\ StoreFails
        /\ RotateReturns(p, TRUE)
        /\ UNCHANGED <<rows, current, key>>
  /\ UNCHANGED <<due, tokens, now, restarts>>

Sign(r) ==
  /\ pc[r] = "sign"
  /\ tokens' = tokens \cup {[key |-> key[r], at |-> now]}
  /\ key' = [key EXCEPT ![r] = None]
  /\ Goto(r, "idle")
  /\ UNCHANGED <<rows, current, mutex, serving, due, late, now, restarts>>

(* A process ends, with everything it has in memory, and starts again. *)
Restart(n) ==
  /\ restarts < MaxRestarts
  /\ restarts' = restarts + 1
  /\ current' = [current EXCEPT ![n] = None]
  /\ mutex' = [mutex EXCEPT ![n] = None]
  /\ pc' = [p \in Procs |-> IF NodeOf(p) # n THEN pc[p] ELSE IF p = n THEN "boot" ELSE "idle"]
  /\ key' = [r \in Requests |-> IF On[r] = n THEN None ELSE key[r]]
  /\ serving' = [serving EXCEPT ![n] = FALSE]
  /\ due' = [due EXCEPT ![n] = FALSE]
  /\ late' = [p \in Procs |-> late[p] /\ NodeOf(p) # n]
  /\ UNCHANGED <<rows, tokens, now>>

(* A day passes.  Nothing takes longer than a day (bound). *)
Tick ==
  /\ now < MaxNow
  /\ \A p \in Procs : pc[p] \in Resting \/ ~late[p]
  /\ \A n \in Nodes : ~due[n]
  /\ now' = now + 1
  /\ due' = [n \in Nodes |-> serving[n]]
  /\ late' = [p \in Procs |-> pc[p] \notin Resting]
  /\ tokens' = {token \in tokens : token.at = now}
  /\ UNCHANGED <<rows, current, mutex, pc, key, serving, restarts>>

Step(p) == Lock(p) \/ Deactivate(p) \/ CreateKey(p)
Rotator(n) == Boot(n) \/ Wake(n)
Request(r) == UseCurrent(r) \/ FindKey(r) \/ Sign(r)

Next ==
  \/ \E p \in Procs : Step(p)
  \/ \E n \in Nodes : Rotator(n) \/ Restart(n)
  \/ \E r \in Requests : StartSign(r) \/ Request(r)
  \/ Tick

Spec == Init /\ [][Next]_vars

(* Goroutines run on, and those that wait for a channel are served in turn. *)
Fairness ==
  /\ \A p \in Procs : SF_vars(Lock(p)) /\ WF_vars(Deactivate(p) \/ CreateKey(p))
  /\ \A n \in Nodes : WF_vars(Rotator(n))
  /\ \A r \in Requests : WF_vars(Request(r))

FairSpec == Spec /\ Fairness

-----------------------------------------------------------------------------
(* Properties. *)

(* Every variable has its type. *)
TypeOK ==
  /\ stored \in SUBSET Keys
  /\ active \in [Keys -> BOOLEAN]
  /\ expires \in [Keys -> 0..(MaxNow + Lifetime)]
  /\ current \in [Nodes -> Keys \cup {None}]
  /\ mutex \in [Nodes -> Procs \cup {None}]
  /\ pc \in [Procs -> RequestSteps \cup RotatorSteps]
  /\ key \in [Requests -> Keys \cup {None}]
  /\ serving \in [Nodes -> BOOLEAN]
  /\ due \in [Nodes -> BOOLEAN]
  /\ late \in [Procs -> BOOLEAN]
  /\ tokens \in SUBSET [key : Keys, at : 0..MaxNow]
  /\ now \in 0..MaxNow /\ restarts \in 0..MaxRestarts

(* Integrating services validate tokens against the JWKS endpoint (PRD 6):   *)
(* whatever rotations, failures and restarts came after it was signed, the   *)
(* key of a token that has not expired is published.                         *)
TokensVerifiable == \A token \in tokens : token.key \in Published

(* GetActiveKey: no token is signed with a key that had expired before the   *)
(* request that asked for it began.                                          *)
FreshSigner ==
  \A r \in Requests : pc[r] = "sign" =>
    IF late[r] THEN now - 1 < expires[key[r]] ELSE now < expires[key[r]]

(* keyMutex: a key is replaced by one goroutine of a process at a time, so   *)
(* that no rotation undoes another.                                          *)
Holding == {"current", "find", "relock", "deactivate", "create"}

OneHolder ==
  \A p, q \in Procs :
    pc[p] \in Holding /\ pc[q] \in Holding /\ NodeOf(p) = NodeOf(q) => p = q

(* A request for a signature gets its answer, a token or an error. *)
SignerAnswers == \A r \in Requests : pc[r] = "lock" ~> pc[r] = "idle"

(* Whatever the database does and whoever is served first, a request waits   *)
(* for ever only in a process in which GetActiveKey called RotateKey.        *)
Stuck(n) == mutex[n] # None /\ pc[mutex[n]] = "relock"

AnswersUnlessStuck ==
  \A r \in Requests : pc[r] = "lock" ~> pc[r] = "idle" \/ Stuck(On[r])
=============================================================================
