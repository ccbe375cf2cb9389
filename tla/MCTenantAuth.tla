---------------------------- MODULE MCTenantAuth ----------------------------
(* The TLC instance of TenantAuth: its symmetry and what is left out of it. *)
EXTENDS TenantAuth, Naturals, FiniteSets, TLC

Symmetric == Permutations(Tenants) \cup Permutations(Requests)

Busy == {r \in Requests : req[r].step # "idle"}
Created == {t \in Tenants : status[t] # "none"}

(* Two requests race each other while one tenant and no team was created;    *)
(* with more rows than that they run one after the other.                    *)
RaceOrRows ==
  Cardinality(Busy) <= 1 \/ (Cardinality(Created) <= 1 /\ \A g \in Teams : teams[g] = None)
=============================================================================
