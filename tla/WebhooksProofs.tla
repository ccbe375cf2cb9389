--------------------------- MODULE WebhooksProofs ---------------------------
(***************************************************************************)
(* Webhooks: every variable keeps its type, updates that do not overlap    *)
(* are all kept, and a delivery is started only for a webhook its tenant   *)
(* wanted.                                                                 *)
(*                                                                         *)
(* UpdatesKept is not inductive: the row that an update will write back is *)
(* the one it read, so the argument needs that what an update of an        *)
(* unraced webhook has read is still the row (UpdatesFresh), which holds   *)
(* because a second update of the same webhook makes it raced              *)
(* (OverlapsRaced), and because a deleted id is never registered again     *)
(* (MadeOnly).                                                             *)
(***************************************************************************)
EXTENDS Webhooks, TLAPS

(* The update of slot w is under way. *)
Active(w) == updates[w] # None

MadeOnly ==
  /\ \A h \in Hooks : h \notin made => rows[h] = None
  /\ \A w \in Updaters : Active(w) => updates[w].hook \in made

UpdatesFresh ==
  \A w \in Updaters : Active(w) /\ updates[w].hook \notin raced =>
    rows[updates[w].hook] \in {updates[w].read, None}

OverlapsRaced ==
  \A v, w \in Updaters :
    Active(v) /\ Active(w) /\ v # w /\ updates[v].hook = updates[w].hook =>
      updates[v].hook \in raced

(* What was stored was meant, and what was deleted is gone from both. *)
BothStored == \A h \in Hooks : rows[h] \in Webhook => intended[h] \in Webhook

WebhookInvariant ==
  TypeOK /\ MadeOnly /\ BothStored /\ UpdatesFresh /\ OverlapsRaced /\ UpdatesKept /\ PostsWanted

-----------------------------------------------------------------------------
(* A patch of a webhook is a webhook. *)
LEMMA ApplyType ==
  ASSUME NEW patch \in Patches, NEW webhook \in Webhook
  PROVE  Apply(patch, webhook) \in Webhook
<1>1. /\ patch.endpoint \in Endpoints \cup {None}
      /\ patch.events \in (SUBSET EventTypes) \cup {None}
      /\ patch.enabled \in BOOLEAN \cup {None}
      /\ patch.retries \in Retries \cup {None}
  BY DEF Patches, NoChange
<1>2. /\ Given(patch.endpoint, webhook.endpoint) \in Endpoints
      /\ Given(patch.events, webhook.events) \in SUBSET EventTypes
      /\ Given(patch.retries, webhook.retries) \in Retries
      /\ webhook.tenant \in Tenants
  BY <1>1 DEF Given, Webhook
<1>3. Given(patch.enabled, webhook.enabled) \in BOOLEAN
  BY <1>1 DEF Given, Webhook
<1> QED
  BY <1>2, <1>3 DEF Apply, Webhook

-----------------------------------------------------------------------------
LEMMA InitInvariant == Init => WebhookInvariant
BY WebhookParameters
   DEF Init, WebhookInvariant, TypeOK, MadeOnly, BothStored, UpdatesFresh, OverlapsRaced,
       UpdatesKept, PostsWanted, Active

(* Registering, updating and deleting. *)
LEMMA ConfigureStep == WebhookInvariant /\ Configure => WebhookInvariant'
<1> SUFFICES ASSUME WebhookInvariant, Configure
             PROVE  WebhookInvariant'
  OBVIOUS
<1> USE DEF WebhookInvariant
<1>1. ASSUME NEW h \in Hooks, NEW webhook \in Webhook, Register(h, webhook)
      PROVE  WebhookInvariant'
  <2>1. TypeOK'
    BY <1>1 DEF TypeOK, Register
  <2>2. MadeOnly'
    BY <1>1 DEF TypeOK, MadeOnly, Active, Register
  <2>3. UpdatesFresh'
    BY <1>1 DEF TypeOK, MadeOnly, UpdatesFresh, Active, Register
  <2>4. OverlapsRaced' /\ PostsWanted'
    BY <1>1 DEF OverlapsRaced, PostsWanted, Active, Register
  <2>5. UpdatesKept'
    BY <1>1 DEF TypeOK, UpdatesKept, Register
  <2>6. BothStored'
    BY <1>1 DEF TypeOK, BothStored, Register
  <2> QED
    BY <2>1, <2>2, <2>3, <2>4, <2>5, <2>6
<1>2. ASSUME NEW h \in Hooks, NEW w \in Updaters, NEW patch \in Patches,
             FindByID(w, h, patch)
      PROVE  WebhookInvariant'
  <2> DEFINE update == [hook |-> h, patch |-> patch, read |-> rows[h]]
  <2>1. /\ h \in made /\ rows[h] \in Webhook
        /\ updates' = [updates EXCEPT ![w] = update]
        /\ update \in [hook : Hooks, patch : Patches, read : Webhook]
    BY <1>2 DEF TypeOK, MadeOnly, FindByID
  <2>2. \A v \in Updaters : updates'[v] = IF v = w THEN update ELSE updates[v]
    BY <2>1 DEF TypeOK
  <2>3. raced \subseteq raced'
    BY <1>2 DEF FindByID
  <2>4. TypeOK'
    <3>1. updates' \in [Updaters -> [hook : Hooks, patch : Patches, read : Webhook] \cup {None}]
      BY <2>1 DEF TypeOK
    <3> QED
      BY <1>2, <2>1, <3>1 DEF TypeOK, FindByID
  <2>5. MadeOnly'
    BY <1>2, <2>1, <2>2 DEF MadeOnly, Active, FindByID
  <2>6. UpdatesFresh'
    BY <1>2, <2>2, <2>3 DEF UpdatesFresh, Active, FindByID
  <2>7. OverlapsRaced'
    <3> SUFFICES ASSUME NEW v1 \in Updaters, NEW v2 \in Updaters,
                        Active(v1)', Active(v2)', v1 # v2, updates'[v1].hook = updates'[v2].hook
                 PROVE  updates'[v1].hook \in raced'
      BY DEF OverlapsRaced
    <3>1. CASE v1 # w /\ v2 # w
      BY <2>2, <2>3, <3>1 DEF OverlapsRaced, Active
    <3>2. CASE v1 = w
      <4>1. updates[v2] # None /\ updates[v2].hook = h
        BY <2>2, <3>2 DEF Active
      <4> QED
        BY <1>2, <2>2, <3>2, <4>1 DEF FindByID
    <3>3. CASE v2 = w
      <4>1. updates[v1] # None /\ updates[v1].hook = h
        BY <2>2, <3>3 DEF Active
      <4> QED
        BY <1>2, <2>2, <3>3, <4>1 DEF FindByID
    <3> QED
      BY <3>1, <3>2, <3>3
  <2>8. UpdatesKept' /\ PostsWanted' /\ BothStored'
    BY <1>2, <2>3 DEF UpdatesKept, PostsWanted, BothStored, FindByID
  <2> QED
    BY <2>4, <2>5, <2>6, <2>7, <2>8
<1>3. ASSUME NEW h \in Hooks, Delete(h)
      PROVE  WebhookInvariant'
  <2>1. TypeOK'
    BY <1>3 DEF TypeOK, Delete
  <2>2. \A g \in Hooks : /\ rows'[g] = IF g = h THEN None ELSE rows[g]
                         /\ intended'[g] = IF g = h THEN None ELSE intended[g]
    BY <1>3 DEF TypeOK, Delete
  <2>3. MadeOnly' /\ OverlapsRaced'
    BY <1>3, <2>2 DEF MadeOnly, OverlapsRaced, Active, Delete
  <2>4. UpdatesFresh'
    BY <1>3, <2>2 DEF TypeOK, UpdatesFresh, Active, Delete
  <2>5. UpdatesKept' /\ PostsWanted'
    BY <1>3, <2>2 DEF UpdatesKept, PostsWanted, Delete
  <2>6. BothStored'
    BY <2>2 DEF BothStored
  <2> QED
    BY <2>1, <2>3, <2>4, <2>5, <2>6
<1>4. ASSUME NEW w \in Updaters, Update(w)
      PROVE  WebhookInvariant'
  <2> DEFINE h == updates[w].hook
             patch == updates[w].patch
             read == updates[w].read
  <2>1. h \in Hooks /\ patch \in Patches /\ read \in Webhook /\ Active(w)
    BY <1>4 DEF TypeOK, Update, Active
  <2>2. /\ updates' = [updates EXCEPT ![w] = None]
        /\ UNCHANGED <<made, requests, deliveries, crashes, raced>>
    BY <1>4 DEF Update
  <2>3. \A v \in Updaters : Active(v)' => v # w /\ Active(v) /\ updates'[v] = updates[v]
    BY <2>2 DEF TypeOK, Active
  <2>4. CASE rows[h] = None /\ UNCHANGED <<rows, intended>>
    <3>1. TypeOK'
      BY <2>2, <2>4 DEF TypeOK
    <3>2. MadeOnly' /\ UpdatesFresh' /\ OverlapsRaced'
      BY <2>2, <2>3, <2>4 DEF MadeOnly, UpdatesFresh, OverlapsRaced
    <3>3. UpdatesKept' /\ PostsWanted' /\ BothStored'
      BY <2>2, <2>4 DEF UpdatesKept, PostsWanted, BothStored
    <3> QED
      BY <3>1, <3>2, <3>3
  <2>5. CASE /\ rows[h] # None
             /\ rows' = [rows EXCEPT ![h] = Apply(patch, read)]
             /\ intended' = [intended EXCEPT ![h] = Apply(patch, intended[h])]
    <3>1. /\ rows[h] \in Webhook /\ intended[h] \in Webhook
          /\ Apply(patch, read) \in Webhook /\ Apply(patch, intended[h]) \in Webhook
      BY <2>1, <2>5, ApplyType DEF TypeOK, BothStored
    <3>2. /\ rows'[h] = Apply(patch, read) /\ intended'[h] = Apply(patch, intended[h])
          /\ \A g \in Hooks \ {h} : rows'[g] = rows[g] /\ intended'[g] = intended[g]
      BY <2>1, <2>5 DEF TypeOK
    <3>3. TypeOK'
      BY <2>1, <2>2, <2>5, <3>1 DEF TypeOK
    <3>4. MadeOnly' /\ OverlapsRaced'
      BY <2>1, <2>2, <2>3, <3>2 DEF MadeOnly, OverlapsRaced
    <3>5. UpdatesFresh'
      <4> SUFFICES ASSUME NEW v \in Updaters, Active(v)', updates'[v].hook \notin raced'
                   PROVE  rows'[updates'[v].hook] \in {updates'[v].read, None}
        BY DEF UpdatesFresh
      <4>1. /\ v # w /\ Active(v) /\ updates'[v] = updates[v]
            /\ updates[v].hook \in Hooks /\ updates[v].hook \notin raced
        BY <2>2, <2>3 DEF TypeOK, Active
      <4>2. updates[v].hook # h
        BY <2>1, <4>1 DEF OverlapsRaced
      <4> QED
        BY <3>2, <4>1, <4>2 DEF UpdatesFresh
    <3>6. UpdatesKept'
      <4>1. h \notin raced => read = rows[h] /\ intended[h] = rows[h]
        BY <2>1, <2>5 DEF UpdatesFresh, UpdatesKept
      <4> QED
        BY <2>1, <2>2, <3>2, <4>1 DEF UpdatesKept
    <3>7. BothStored' /\ PostsWanted'
      BY <2>1, <2>2, <3>1, <3>2 DEF BothStored, PostsWanted
    <3> QED
      BY <3>3, <3>4, <3>5, <3>6, <3>7
  <2> QED
    BY <1>4, <2>4, <2>5 DEF Update
<1>5. ASSUME NEW w \in Updaters, UpdateFails(w)
      PROVE  WebhookInvariant'
  <2>1. /\ updates' = [updates EXCEPT ![w] = None]
        /\ UNCHANGED <<made, rows, requests, deliveries, crashes, intended, raced>>
    BY <1>5 DEF UpdateFails
  <2>2. \A v \in Updaters : Active(v)' => Active(v) /\ updates'[v] = updates[v]
    BY <2>1 DEF TypeOK, Active
  <2>3. TypeOK'
    BY <2>1 DEF TypeOK
  <2>4. MadeOnly' /\ UpdatesFresh' /\ OverlapsRaced'
    BY <2>1, <2>2 DEF MadeOnly, UpdatesFresh, OverlapsRaced
  <2>5. UpdatesKept' /\ PostsWanted' /\ BothStored'
    BY <2>1 DEF UpdatesKept, PostsWanted, BothStored
  <2> QED
    BY <2>3, <2>4, <2>5
<1> QED
  BY <1>1, <1>2, <1>3, <1>4, <1>5 DEF Configure

(* What a step leaves of the invariant that touches deliveries and requests *)
(* only.                                                                    *)
LEMMA RowsKept ==
  ASSUME WebhookInvariant, UNCHANGED <<made, rows, updates, intended, raced>>
  PROVE  MadeOnly' /\ BothStored' /\ UpdatesFresh' /\ OverlapsRaced' /\ UpdatesKept'
BY DEF WebhookInvariant, MadeOnly, BothStored, UpdatesFresh, OverlapsRaced, UpdatesKept,
       Active

(* A delivery in the state after its own step. *)
LEMMA DeliverStep ==
  ASSUME WebhookInvariant, NEW r \in Requests, NEW h \in Hooks, Deliver(r, h)
  PROVE  WebhookInvariant'
<1> DEFINE Delivery == [step : Running \cup Ended, webhook : Webhook, wanted : BOOLEAN]
<1>1. /\ UNCHANGED <<made, rows, updates, requests, crashes, intended, raced>>
      /\ deliveries[r][h] # None
      /\ \E step \in Running \cup Ended :
           deliveries' = [deliveries EXCEPT ![r][h].step = step]
  <2>1. CASE Post(r, h)
    BY <2>1 DEF Post, Running
  <2>2. CASE Complete(r, h)
    BY <2>2 DEF Complete, Ended
  <2>3. CASE Fail(r, h)
    <3>1. Outcomes(deliveries[r][h]) \subseteq Ended
      BY DEF Outcomes, ScheduleRetry, Ended
    <3> QED
      BY <2>3, <3>1 DEF Fail
  <2> QED
    BY <2>1, <2>2, <2>3 DEF Deliver
<1>2. PICK step \in Running \cup Ended :
        deliveries' = [deliveries EXCEPT ![r][h].step = step]
  BY <1>1
<1>3. deliveries[r][h] \in Delivery
  BY <1>1 DEF WebhookInvariant, TypeOK
<1>4. [deliveries[r][h] EXCEPT !.step = step] \in Delivery
  BY <1>3
<1>5. TypeOK'
  <2>1. deliveries' \in [Requests -> [Hooks -> Delivery \cup {None}]]
    BY <1>2, <1>4 DEF WebhookInvariant, TypeOK
  <2> QED
    BY <1>1, <2>1 DEF WebhookInvariant, TypeOK
<1>6. PostsWanted'
  <2>1. deliveries'[r][h].wanted = deliveries[r][h].wanted
    BY <1>2, <1>3 DEF WebhookInvariant, TypeOK
  <2>2. \A q \in Requests, g \in Hooks :
          q # r \/ g # h => deliveries'[q][g] = deliveries[q][g]
    BY <1>2 DEF WebhookInvariant, TypeOK
  <2> QED
    BY <1>1, <2>1, <2>2 DEF WebhookInvariant, PostsWanted
<1> QED
  BY <1>1, <1>5, <1>6, RowsKept DEF WebhookInvariant

LEMMA RequestStep ==
  ASSUME WebhookInvariant, NEW r \in Requests,
         \/ \E t \in Tenants, e \in EventTypes : Dispatch(r, t, e)
         \/ EndRequest(r)
         \/ \E h \in Hooks : Deliver(r, h)
  PROVE  WebhookInvariant'
<1>1. ASSUME NEW t \in Tenants, NEW e \in EventTypes, Dispatch(r, t, e)
      PROVE  WebhookInvariant'
  <2> DEFINE begun == [h \in Hooks |->
               IF h \in Chosen(t, e)
                 THEN [step |-> "posting", webhook |-> rows[h],
                       wanted |-> Wanted(h, t, e) \/ h \in raced]
                 ELSE None]
  <2>1. /\ UNCHANGED <<made, rows, updates, crashes, intended, raced>>
        /\ requests' = [requests EXCEPT ![r] = "running"]
        /\ deliveries' = [deliveries EXCEPT ![r] = begun]
    BY <1>1 DEF Dispatch
  <2>2. \A h \in Chosen(t, e) : /\ h \in Hooks /\ rows[h] \in Webhook
                                /\ Wanted(h, t, e) \/ h \in raced
    BY DEF WebhookInvariant, TypeOK, UpdatesKept, Chosen, FindByTenantAndEvent, Wanted
  <2>3. TypeOK'
    <3>1. ASSUME NEW h \in Hooks
          PROVE  begun[h] \in
            [step : Running \cup Ended, webhook : Webhook, wanted : BOOLEAN] \cup {None}
      <4>1. (Wanted(h, t, e) \/ h \in raced) \in BOOLEAN
        BY DEF Wanted
      <4> QED
        BY <2>2, <4>1 DEF Running
    <3>2. deliveries' \in [Requests -> [Hooks ->
            [step : Running \cup Ended, webhook : Webhook, wanted : BOOLEAN] \cup {None}]]
      BY <2>1, <3>1 DEF WebhookInvariant, TypeOK
    <3> QED
      BY <2>1, <3>2 DEF WebhookInvariant, TypeOK
  <2>4. PostsWanted'
    <3> SUFFICES ASSUME NEW q \in Requests, NEW h \in Hooks, deliveries'[q][h] # None
                 PROVE  deliveries'[q][h].wanted
      BY DEF PostsWanted
    <3>1. CASE q = r
      <4>1. deliveries'[q][h] = begun[h] /\ h \in Chosen(t, e)
        BY <2>1, <3>1 DEF WebhookInvariant, TypeOK
      <4>2. (Wanted(h, t, e) \/ h \in raced) = TRUE
        BY <2>2, <4>1
      <4> HIDE DEF begun
      <4>3. begun[h] = [step |-> "posting", webhook |-> rows[h], wanted |-> TRUE]
        BY <4>1, <4>2 DEF begun
      <4> QED
        BY <4>1, <4>3
    <3>2. CASE q # r
      BY <2>1, <3>2 DEF WebhookInvariant, TypeOK, PostsWanted
    <3> QED
      BY <3>1, <3>2
  <2> QED
    BY <2>1, <2>3, <2>4, RowsKept DEF WebhookInvariant
<1>2. CASE EndRequest(r)
  <2>1. TypeOK' /\ PostsWanted'
    BY <1>2 DEF WebhookInvariant, TypeOK, PostsWanted, EndRequest
  <2> QED
    BY <1>2, <2>1, RowsKept DEF WebhookInvariant, EndRequest
<1> QED
  BY <1>1, <1>2, DeliverStep

LEMMA CrashStep == WebhookInvariant /\ Crash => WebhookInvariant'
<1> SUFFICES ASSUME WebhookInvariant, Crash
             PROVE  WebhookInvariant'
  OBVIOUS
<1>1. \A w \in Updaters : ~Active(w)'
  BY DEF Crash, Active
<1>2. TypeOK'
  BY WebhookParameters DEF WebhookInvariant, TypeOK, Crash
<1>3. MadeOnly' /\ UpdatesFresh' /\ OverlapsRaced'
  BY <1>1 DEF WebhookInvariant, MadeOnly, UpdatesFresh, OverlapsRaced, Crash
<1>4. BothStored' /\ UpdatesKept' /\ PostsWanted'
  BY DEF WebhookInvariant, BothStored, UpdatesKept, PostsWanted, Crash
<1> QED
  BY <1>2, <1>3, <1>4 DEF WebhookInvariant

-----------------------------------------------------------------------------
(* The inductive invariant holds in every reachable state. *)
THEOREM WebhookInvariantHolds == Spec => []WebhookInvariant
<1>1. Init => WebhookInvariant
  BY InitInvariant
<1>2. WebhookInvariant /\ [Next]_vars => WebhookInvariant'
  <2> SUFFICES ASSUME WebhookInvariant, [Next]_vars
               PROVE  WebhookInvariant'
    OBVIOUS
  <2>1. CASE Configure
    BY <2>1, ConfigureStep
  <2>2. ASSUME NEW r \in Requests,
               \/ \E t \in Tenants, e \in EventTypes : Dispatch(r, t, e)
               \/ EndRequest(r)
               \/ \E h \in Hooks : Deliver(r, h)
        PROVE  WebhookInvariant'
    BY <2>2, RequestStep
  <2>3. CASE Crash
    BY <2>3, CrashStep
  <2>4. CASE UNCHANGED vars
    <3>1. TypeOK' /\ PostsWanted'
      BY <2>4 DEF WebhookInvariant, TypeOK, PostsWanted, vars
    <3> QED
      BY <2>4, <3>1, RowsKept DEF WebhookInvariant, vars
  <2> QED
    BY <2>1, <2>2, <2>3, <2>4 DEF Next
<1> QED
  BY <1>1, <1>2, PTL DEF Spec

(* However many webhooks, updates and requests there are, a row is what the *)
(* updates of its webhook said unless two of them overlapped: no delete,    *)
(* failed write or restart loses or revives one.                            *)
THEOREM UpdatesAlwaysKept == Spec => []UpdatesKept
<1>1. WebhookInvariant => UpdatesKept
  BY DEF WebhookInvariant
<1> QED
  BY <1>1, WebhookInvariantHolds, PTL

(* No delivery is started that the tenant's own updates do not ask for,     *)
(* whatever is written between an event and its dispatch.                   *)
THEOREM PostsAlwaysWanted == Spec => []PostsWanted
<1>1. WebhookInvariant => PostsWanted
  BY DEF WebhookInvariant
<1> QED
  BY <1>1, WebhookInvariantHolds, PTL

(* Every variable keeps its type. *)
THEOREM WebhooksTyped == Spec => []TypeOK
<1>1. WebhookInvariant => TypeOK
  BY DEF WebhookInvariant
<1> QED
  BY <1>1, WebhookInvariantHolds, PTL
=============================================================================
