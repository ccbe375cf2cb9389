---------------------------- MODULE OneTimeToken ----------------------------
(***************************************************************************)
(* What a token for one sign-in promises when the requests that present it *)
(* overlap: a token is issued once and spent once; an attempt is admitted  *)
(* while its token is fresh; an admitted attempt signs in at most once,    *)
(* with the token it was admitted with; and with a token of Strict a       *)
(* sign-in comes after the token was spent.                                *)
(***************************************************************************)
CONSTANTS Tokens, Strict, Requests, None

VARIABLES fresh, spent, attempt, signed

vars == <<fresh, spent, attempt, signed>>

Init ==
  /\ fresh = {} /\ spent = {}
  /\ attempt = [r \in Requests |-> None]
  /\ signed = {}

Issue(k) ==
  /\ k \notin fresh \cup spent
  /\ fresh' = fresh \cup {k}
  /\ UNCHANGED <<spent, attempt, signed>>

Admit(r, k) ==
  /\ attempt[r] = None /\ k \in fresh
  /\ attempt' = [attempt EXCEPT ![r] = k]
  /\ UNCHANGED <<fresh, spent, signed>>

(* Used, deleted or expired. *)
Spend(S) ==
  /\ S # {} /\ S \subseteq fresh
  /\ fresh' = fresh \ S
  /\ spent' = spent \cup S
  /\ UNCHANGED <<attempt, signed>>

SignIn(r) ==
  /\ attempt[r] # None
  /\ attempt[r] \in Strict => attempt[r] \in spent
  /\ signed' = signed \cup {attempt[r]}
  /\ attempt' = [attempt EXCEPT ![r] = None]
  /\ UNCHANGED <<fresh, spent>>

GiveUp(r) ==
  /\ attempt[r] # None
  /\ attempt' = [attempt EXCEPT ![r] = None]
  /\ UNCHANGED <<fresh, spent, signed>>

Next ==
  \/ \E k \in Tokens : Issue(k) \/ \E r \in Requests : Admit(r, k)
  \/ \E S \in SUBSET Tokens : Spend(S)
  \/ \E r \in Requests : SignIn(r) \/ GiveUp(r)

Spec == Init /\ [][Next]_vars
=============================================================================
