------------------------------ MODULE Webhooks ------------------------------
(***************************************************************************)
(* Webhooks (internal/service/webhook.go): the rows tenants register, the  *)
(* updates that read a row and write it back, and the deliveries a         *)
(* dispatched event starts, each on a goroutine of its own with the context *)
(* of the request that dispatched it.  Nothing but the rows is stored: the  *)
(* delivery repository is never called, so a crash forgets every delivery. *)
(* The repository is an interface without an implementation here; it is    *)
(* taken to read and write one row per call.                               *)
(*                                                                         *)
(*   made        the ids handed out (an id is never reused)                *)
(*   rows        rows[h]: the stored webhook, or None                      *)
(*   updates     updates[w]: the Update call of slot w, or None            *)
(*   requests    requests[r]: whether the request that dispatches event r  *)
(*               has yet to, is running, or has ended and cancelled its    *)
(*               context                                                   *)
(*   deliveries  deliveries[r][h]: what became of event r for webhook h,    *)
(*               or None                                                   *)
(*   crashes     how often the server has been restarted                   *)
(*   intended    history: the row as its updates were meant, each applied   *)
(*               whole when it was written                                 *)
(*   raced       history: the webhooks two updates of which overlapped     *)
(***************************************************************************)
EXTENDS Naturals

CONSTANTS
  Hooks,      \* webhook ids
  Tenants,    \* tenant ids
  EventTypes, \* event types
  Endpoints,  \* a URL with the secret its receiver knows
  Retries,    \* values of RetryPolicy.MaxRetries
  Updaters,   \* slots of concurrent Update calls
  Requests,   \* requests that dispatch one event each
  MaxCrashes, \* bound on restarts
  None        \* no webhook, update or delivery

ASSUME WebhookParameters == Retries \subseteq Nat /\ MaxCrashes \in Nat

VARIABLES made, rows, updates, requests, deliveries, crashes, intended, raced

vars == <<made, rows, updates, requests, deliveries, crashes, intended, raced>>

Webhook ==
  [tenant : Tenants, endpoint : Endpoints, events : SUBSET EventTypes,
   enabled : BOOLEAN, retries : Retries]

(* What Update accepts: any fields but the tenant; one field per patch is    *)
(* enough for two updates to get in each other's way.                        *)
NoChange == [endpoint |-> None, events |-> None, enabled |-> None, retries |-> None]

Patches ==
  {[NoChange EXCEPT !.endpoint = e] : e \in Endpoints}
    \cup {[NoChange EXCEPT !.events = es] : es \in SUBSET EventTypes}
    \cup {[NoChange EXCEPT !.enabled = b] : b \in BOOLEAN}
    \cup {[NoChange EXCEPT !.retries = n] : n \in Retries}

Running == {"posting", "received"}
Ended == {"completed", "failed", "retryDue"}

-----------------------------------------------------------------------------
Init ==
  /\ made = {}
  /\ rows = [h \in Hooks |-> None]
  /\ updates = [w \in Updaters |-> None]
  /\ requests = [r \in Requests |-> "none"]
  /\ deliveries = [r \in Requests |-> [h \in Hooks |-> None]]
  /\ crashes = 0
  /\ intended = rows
  /\ raced = {}

Register(h, webhook) ==
  /\ h \notin made
  /\ webhook.enabled /\ webhook.events # {}
  /\ made' = made \cup {h}
  /\ rows' = [rows EXCEPT ![h] = webhook]
  /\ intended' = [intended EXCEPT ![h] = webhook]
  /\ UNCHANGED <<updates, requests, deliveries, crashes, raced>>

(* Update: FindByID.  The patch is applied to the row found and the whole   *)
(* row written back by a second call.                                       *)
FindByID(w, h, patch) ==
  /\ updates[w] = None
  /\ rows[h] # None
  /\ updates' = [updates EXCEPT ![w] = [hook |-> h, patch |-> patch, read |-> rows[h]]]
  /\ raced' = IF \E v \in Updaters : updates[v] # None /\ updates[v].hook = h
                THEN raced \cup {h} ELSE raced
  /\ UNCHANGED <<made, rows, requests, deliveries, crashes, intended>>

Given(new, old) == IF new = None THEN old ELSE new

Apply(patch, webhook) ==
  [tenant   |-> webhook.tenant,
   endpoint |-> Given(patch.endpoint, webhook.endpoint),
   events   |-> Given(patch.events, webhook.events),
   enabled  |-> Given(patch.enabled, webhook.enabled),
   retries  |-> Given(patch.retries, webhook.retries)]

FaultyUpdate(w) ==                         \* the write puts a deleted row back
  /\ updates[w] # None
  /\ LET h == updates[w].hook
         patch == updates[w].patch
     IN /\ rows' = [rows EXCEPT ![h] = Apply(patch, updates[w].read)]
        /\ intended' = IF rows[h] = None THEN intended
                       ELSE [intended EXCEPT ![h] = Apply(patch, @)]
  /\ updates' = [updates EXCEPT ![w] = None]
  /\ UNCHANGED <<made, requests, deliveries, crashes, raced>>

(* The write finds no row to change once the webhook was deleted. *)
Update(w) ==
  /\ updates[w] # None
  /\ LET h == updates[w].hook
         patch == updates[w].patch
     IN \/ rows[h] = None /\ UNCHANGED <<rows, intended>>
        \/ /\ rows[h] # None
           /\ rows' = [rows EXCEPT ![h] = Apply(patch, updates[w].read)]
           /\ intended' = [intended EXCEPT ![h] = Apply(patch, @)]
  /\ updates' = [updates EXCEPT ![w] = None]
  /\ UNCHANGED <<made, requests, deliveries, crashes, raced>>

UpdateFails(w) ==
  /\ updates[w] # None
  /\ updates' = [updates EXCEPT ![w] = None]
  /\ UNCHANGED <<made, rows, requests, deliveries, crashes, intended, raced>>

Delete(h) ==
  /\ rows[h] # None
  /\ rows' = [rows EXCEPT ![h] = None]
  /\ intended' = [intended EXCEPT ![h] = None]
  /\ UNCHANGED <<made, updates, requests, deliveries, crashes, raced>>

-----------------------------------------------------------------------------
(* Dispatch lists the tenant's webhooks for the event, skips those that are *)
(* disabled and starts a delivery of the row it read for each of the others. *)
FindByTenantAndEvent(t, e) ==
  {h \in Hooks : rows[h] # None /\ rows[h].tenant = t /\ e \in rows[h].events}

FaultyChosen(t, e) == FindByTenantAndEvent(t, e)     \* the Enabled test forgotten
Chosen(t, e) == {h \in FindByTenantAndEvent(t, e) : rows[h].enabled}

(* Whether the tenant, going by its updates alone, wants event e of t there. *)
Wanted(h, t, e) ==
  /\ intended[h] # None
  /\ intended[h].tenant = t /\ e \in intended[h].events /\ intended[h].enabled

Dispatch(r, t, e) ==
  /\ requests[r] = "none"
  /\ requests' = [requests EXCEPT ![r] = "running"]
  /\ deliveries' = [deliveries EXCEPT ![r] = [h \in Hooks |->
       IF h \in Chosen(t, e)
         THEN [step |-> "posting", webhook |-> rows[h],
               wanted |-> Wanted(h, t, e) \/ h \in raced]
         ELSE None]]
  /\ UNCHANGED <<made, rows, updates, crashes, intended, raced>>

(* The handler answers; whatever its deliveries still wait for is cancelled. *)
EndRequest(r) ==
  /\ requests[r] = "running"
  /\ requests' = [requests EXCEPT ![r] = "ended"]
  /\ UNCHANGED <<made, rows, updates, deliveries, crashes, intended, raced>>

(* The signed request reaches the receiver. *)
Post(r, h) ==
  /\ requests[r] = "running"
  /\ deliveries[r][h] # None /\ deliveries[r][h].step = "posting"
  /\ deliveries' = [deliveries EXCEPT ![r][h].step = "received"]
  /\ UNCHANGED <<made, rows, updates, requests, crashes, intended, raced>>

Complete(r, h) ==
  /\ deliveries[r][h] # None /\ deliveries[r][h].step = "received"
  /\ deliveries' = [deliveries EXCEPT ![r][h].step = "completed"]
  /\ UNCHANGED <<made, rows, updates, requests, crashes, intended, raced>>

(* scheduleRetry after the first attempt: it works out when the next one is  *)
(* due, prints it and returns; nothing makes that attempt.                   *)
ScheduleRetry(webhook) == IF 1 >= webhook.retries THEN "failed" ELSE "retryDue"

(* The client's timeout, the cancelled context, a connection error, or an    *)
(* answer other than 2xx; a URL that does not parse is given up without one. *)
Outcomes(delivery) ==
  {ScheduleRetry(delivery.webhook)}
    \cup (IF delivery.step = "posting" THEN {"failed"} ELSE {})

FaultyFail(r, h) ==                        \* only a refusing answer ends a delivery
  /\ deliveries[r][h] # None /\ deliveries[r][h].step = "received"
  /\ \E outcome \in Outcomes(deliveries[r][h]) :
       deliveries' = [deliveries EXCEPT ![r][h].step = outcome]
  /\ UNCHANGED <<made, rows, updates, requests, crashes, intended, raced>>
Fail(r, h) ==
  /\ deliveries[r][h] # None /\ deliveries[r][h].step \in Running
  /\ \E outcome \in Outcomes(deliveries[r][h]) :
       deliveries' = [deliveries EXCEPT ![r][h].step = outcome]
  /\ UNCHANGED <<made, rows, updates, requests, crashes, intended, raced>>

(* The server stops: the rows are all that is left of what it was doing. *)
Crash ==
  /\ crashes < MaxCrashes
  /\ crashes' = crashes + 1
  /\ updates' = [w \in Updaters |-> None]
  /\ deliveries' = [r \in Requests |-> [h \in Hooks |-> None]]
  /\ requests' = [r \in Requests |-> IF requests[r] = "none" THEN "none" ELSE "ended"]
  /\ UNCHANGED <<made, rows, intended, raced>>

-----------------------------------------------------------------------------
Deliver(r, h) == Post(r, h) \/ Complete(r, h) \/ Fail(r, h)

Configure ==
  \/ \E h \in Hooks :
       \/ \E webhook \in Webhook : Register(h, webhook)
       \/ \E w \in Updaters, patch \in Patches : FindByID(w, h, patch)
       \/ Delete(h)
  \/ \E w \in Updaters : Update(w) \/ UpdateFails(w)

Next ==
  \/ Configure
  \/ \E r \in Requests :
       \/ \E t \in Tenants, e \in EventTypes : Dispatch(r, t, e)
       \/ EndRequest(r)
       \/ \E h \in Hooks : Deliver(r, h)
  \/ Crash

(* A goroutine that can take a step takes one; the client gives up on its    *)
(* own after its timeout.  Nothing else is bound to happen.                  *)
Spec ==
  /\ Init
  /\ [][Next]_vars
  /\ \A r \in Requests, h \in Hooks : WF_vars(Deliver(r, h))

-----------------------------------------------------------------------------
(* Properties. *)

(* Every variable has its type. *)
TypeOK ==
  /\ made \in SUBSET Hooks
  /\ rows \in [Hooks -> Webhook \cup {None}]
  /\ updates \in [Updaters ->
       [hook : Hooks, patch : Patches, read : Webhook] \cup {None}]
  /\ requests \in [Requests -> {"none", "running", "ended"}]
  /\ deliveries \in [Requests -> [Hooks ->
       [step : Running \cup Ended, webhook : Webhook, wanted : BOOLEAN] \cup {None}]]
  /\ crashes \in 0..MaxCrashes
  /\ intended \in [Hooks -> Webhook \cup {None}]
  /\ raced \in SUBSET made

(* Update reads a row and writes it back whole, so of two that overlap the   *)
(* later write undoes the earlier one.  Only those that overlap do: as long  *)
(* as updates of a webhook come one after the other, with failures, deletes  *)
(* and restarts in between, its row is what they say.                        *)
UpdatesKept == \A h \in Hooks : h \notin raced => rows[h] = intended[h]

(* A delivery is started only for a webhook whose tenant, going by its own   *)
(* updates when the event was dispatched, wanted it: the tenant's own event, *)
(* subscribed to, not switched off, not deleted.  Overlapping updates void   *)
(* this: the one that undoes a switch-off brings the deliveries back.        *)
PostsWanted ==
  \A r \in Requests, h \in Hooks : deliveries[r][h] # None => deliveries[r][h].wanted

(* Every delivery comes to an end, one way or the other. *)
EveryDeliveryEnds ==
  \A r \in Requests, h \in Hooks :
    [](deliveries[r][h] # None => <>(deliveries[r][h] = None \/ deliveries[r][h].step \in Ended))
=============================================================================
