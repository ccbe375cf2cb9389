-------------------------- MODULE AuthzStaleness --------------------------
(***************************************************************************)
(* How long a cached decision outlives the rows it was computed from, and  *)
(* what the Invalidate functions of internal/service/authz_cache.go do     *)
(* about it.  Each lists the keys that match a pattern (KEYS) and then     *)
(* deletes them (DEL); checks go on between the two.  Nothing in the       *)
(* program calls them, whatever is written: they sweep for an operator.    *)
(*                                                                         *)
(*   sweep     the keys listed and yet to be deleted, with the pattern's   *)
(*             scope, or None                                              *)
(*   gone      history: gone[u][t] counts the ticks since user u was last  *)
(*             a member of tenant t and since anything in t last granted   *)
(*             the permission                                              *)
(*   clean     history: how far the sweep of u in t has come that began    *)
(*             after the last grant was gone                               *)
(*   old       history: the checks that ran when the keys were listed      *)
(*   late      history: the pairs for which one of them stored an allow    *)
(***************************************************************************)
EXTENDS Authz

CONSTANT Scopes    \* the sets of pairs of user and tenant the patterns match

Pairs == Users \X Tenants

ASSUME SweepParameters == Scopes \subseteq SUBSET Pairs

VARIABLES sweep, gone, clean, old, late

history == <<gone, clean, old, late>>
allVars == <<vars, sweep, history>>

(* Anything that may allow, whoever asks. *)
Grantable(u, t) ==
  \/ memberships[u][t] # NoRow /\ memberships[u][t] \cap Granting # {}
  \/ \E g \in TeamsIn(u, t) : teamMemberships[u][g] \cap Granting # {}
  \/ \E s \in Subjects : acl[t][s] = "allow"
  \/ \E p \in Active(t) : Verdict[p] = "allow"

LongGone == TTL + Patience

-----------------------------------------------------------------------------
(* Invalidate, InvalidateByResource, InvalidateByTenant and InvalidateAll   *)
(* match the entries of one pair, of all pairs, of a tenant, of all pairs.  *)
(* The pattern of InvalidateBySubject has the subject's type where the keys *)
(* have the user's id, and matches none.                                    *)
Cached(u, t) == cache[u][t] # NoEntry

FaultyMatched(scope) == {}                 \* the pattern of InvalidateBySubject
Matched(scope) == {pair \in scope : Cached(pair[1], pair[2])}

StartSweep(scope) ==
  /\ sweep = None
  /\ sweep' = [scope |-> scope, keys |-> Matched(scope)]
  /\ UNCHANGED vars

FinishSweep ==
  /\ sweep # None
  /\ cache' = [u \in Users |-> [t \in Tenants |->
       IF <<u, t>> \in sweep.keys THEN NoEntry ELSE cache[u][t]]]
  /\ sweep' = None
  /\ UNCHANGED <<tables, prepared, check, age>>

SweepFails ==
  /\ sweep # None
  /\ sweep' = None
  /\ UNCHANGED vars

-----------------------------------------------------------------------------
(* A count goes up with each tick, and starts again while the fact holds. *)
Count(holds, ticked, n) ==
  IF holds THEN 0 ELSE IF ticked /\ n < LongGone THEN n + 1 ELSE n

CountTicks(ticked) ==
  gone' = [u \in Users |-> [t \in Tenants |->
    [member |-> Count((memberships[u][t] # NoRow)', ticked, gone[u][t].member),
     grant  |-> Count(Grantable(u, t)', ticked, gone[u][t].grant)]]]

Running(scope) ==
  {c \in Checks : check[c].step # "idle" /\ <<check[c].user, check[c].tenant>> \in scope}

ObserveStart(scope) ==
  /\ CountTicks(FALSE)
  /\ clean' = [u \in Users |-> [t \in Tenants |->
       IF <<u, t>> \in scope /\ ~Grantable(u, t) THEN "listed" ELSE clean[u][t]]]
  /\ old' = old \cup Running(scope)
  /\ late' = late \ scope

ObserveFinish ==
  /\ CountTicks(FALSE)
  /\ clean' = [u \in Users |-> [t \in Tenants |->
       IF <<u, t>> \in sweep.scope /\ clean[u][t] = "listed" THEN "swept" ELSE clean[u][t]]]
  /\ UNCHANGED <<old, late>>

(* Every other step: a new grant makes the sweep pointless. *)
ObserveNext ==
  /\ CountTicks(Tick)
  /\ clean' = [u \in Users |-> [t \in Tenants |->
       IF Grantable(u, t)' THEN "no" ELSE clean[u][t]]]
  /\ old' = {c \in old : check'[c].step # "idle"}
  /\ late' = late \cup {<<check[c].user, check[c].tenant>> :
       c \in {c \in old : StoreDecision(c) /\ check[c].result.allowed}}

StalenessInit ==
  /\ Init
  /\ sweep = None
  /\ gone = [u \in Users |-> [t \in Tenants |-> [member |-> LongGone, grant |-> LongGone]]]
  /\ clean = [u \in Users |-> [t \in Tenants |-> "no"]]
  /\ old = {} /\ late = {}

StalenessNext ==
  \/ Next /\ UNCHANGED sweep /\ ObserveNext
  \/ \E scope \in Scopes : StartSweep(scope) /\ ObserveStart(scope)
  \/ FinishSweep /\ ObserveFinish
  \/ SweepFails /\ CountTicks(FALSE) /\ UNCHANGED <<clean, old, late>>

(* Time goes on, and a running check gets its answers from the stores. *)
Fairness ==
  /\ WF_allVars(Tick /\ UNCHANGED sweep /\ ObserveNext)
  /\ \A c \in Checks : WF_allVars(ContinueCheck(c) /\ UNCHANGED sweep /\ ObserveNext)

StalenessSpec == StalenessInit /\ [][StalenessNext]_allVars /\ Fairness

-----------------------------------------------------------------------------
(* An allow outlives the membership and the last grant by less than the time *)
(* to live of the cache and the duration of the check that computed it.      *)
StalenessBounded ==
  \A u \in Users, t \in Tenants :
    LET entry == cache[u][t]
    IN entry.result.allowed =>
         /\ gone[u][t].member < TTL + entry.took
         /\ gone[u][t].grant < TTL + entry.took

(* The decision of a user who has left a tenant for good is one day no       *)
(* longer an allow: the cache forgets, and no running check revives it.      *)
RevocationHonoured ==
  \A u \in Users, t \in Tenants :
    <>[](memberships[u][t] = NoRow) => <>[](~cache[u][t].result.allowed)

(* A sweep that began when nothing granted the permission any more leaves no *)
(* allow behind, unless a check that was running when the keys were listed   *)
(* stores one afterwards: a key that is not there when KEYS looks survives   *)
(* the DEL.                                                                  *)
SweptUnlessLate ==
  \A u \in Users, t \in Tenants :
    clean[u][t] = "swept" /\ cache[u][t].result.allowed => <<u, t>> \in late

(* "A revoked permission remaining honored for even a few seconds is         *)
(* unacceptable" (docs/PRD 188): no request is answered with a cached allow  *)
(* a tick after its user left the tenant or the last grant was revoked.      *)
HonoursRevocation ==
  \A c \in Checks :
    check[c].step = "done" /\ check[c].hit /\ check[c].result.allowed =>
      LET since == gone[check[c].user][check[c].tenant]
      IN since.member = 0 /\ since.grant = 0
=============================================================================
