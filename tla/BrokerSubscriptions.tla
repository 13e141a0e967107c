------------------------- MODULE BrokerSubscriptions -------------------------
(* Subscriptions of the Cepheus broker: Subscriptions (the live map),      *)
(* SubscriptionsRepository (its table), and NgsiController, which makes    *)
(* and ends subscriptions and turns an update of the context into          *)
(* notifications.                                                          *)
(*                                                                         *)
(* HTTP threads take no lock, the scheduler's thread purges, and a killed  *)
(* broker starts again from the table.  One action is what a thread does   *)
(* between two accesses to the map or the table.  A subscription is named  *)
(* by the call that made it.  Every subscription matches every update's    *)
(* first element, the only one the controller looks at.  local.url is set, *)
(* as in the application.properties the broker is shipped with: without it *)
(* the controller notifies nobody.                                         *)
EXTENDS Naturals, FiniteSets

CONSTANTS
    Sub,            \* the calls of subscribeContext (bound)
    Unsub,          \* the calls of unsubscribeContext (bound)
    Update,         \* the calls of updateContext (bound)
    MaxFaults,      \* how many statements may fail (bound)
    MaxCrashes,     \* how often the broker is killed (bound)
    None

ASSUME BrokerAssumption ==
    /\ None \notin Sub
    /\ {MaxFaults, MaxCrashes} \subseteq Nat

VARIABLES
    subscriptions,  \* the ids in the map; None when it could not be loaded
    table,          \* the rows of t_subscriptions
    expired,        \* subscriptions whose date has passed
    subscribe,      \* where each call of subscribeContext is
    unsubscribe,    \* each call of unsubscribeContext, and what it ends
    update,         \* each call of updateContext, and whom it has to notify
    purged,         \* the purge has taken it from the map, not from the table
    faults, crashes

vars == <<subscriptions, table, expired, subscribe, unsubscribe, update, purged, faults, crashes>>
calls == <<subscribe, unsubscribe, update>>

Loaded == subscriptions # None

NoUnsub == [sub |-> None, at |-> "idle"]

\* left: still to be visited; found: about to be notified; then three sets for
\* the properties: whom it has notified, whom it must and whom it must not.
NoUpdate == [at |-> "idle", left |-> {}, found |-> None, notified |-> {}, due |-> {}, gone |-> {}]

Init ==
    /\ subscriptions = {} /\ table = {} /\ expired = {}
    /\ subscribe = [s \in Sub |-> "idle"]
    /\ unsubscribe = [u \in Unsub |-> NoUnsub]
    /\ update = [p \in Update |-> NoUpdate]
    /\ purged = None
    /\ faults = 0 /\ crashes = 0

\* The loop over the map and each statement may throw.
Fault == faults < MaxFaults /\ faults' = faults + 1

Unsubscribed(s) == \E u \in Unsub : unsubscribe[u].sub = s /\ unsubscribe[u].at = "ok"
Contested(s) == \E u \in Unsub : unsubscribe[u].sub = s

---------------------------------------------------------------------------
(* addSubscription: refused for its duration or its patterns, or saved.    *)
Refuse(s) ==
    /\ subscribe[s] = "idle"
    /\ subscribe' = [subscribe EXCEPT ![s] = "error"]
    /\ UNCHANGED <<subscriptions, table, expired, unsubscribe, update, purged, faults, crashes>>

(* A variant to be told apart: the row is left for later.                  *)
InsertLater(s) == table
Inserted(s) == table \union {s}

SaveSubscription(s) ==
    /\ subscribe[s] = "idle"
    /\ \/ /\ table' = Inserted(s)
          /\ subscribe' = [subscribe EXCEPT ![s] = "saved"]
          /\ UNCHANGED faults
       \/ /\ Fault
          /\ table' \in {table, Inserted(s)}
          /\ subscribe' = [subscribe EXCEPT ![s] = "error"]
    /\ UNCHANGED <<subscriptions, expired, unsubscribe, update, purged, crashes>>

(* Without a map this throws, and the row stays.                           *)
PutSubscription(s) ==
    /\ subscribe[s] = "saved"
    /\ IF Loaded
         THEN /\ subscriptions' = subscriptions \union {s}
              /\ subscribe' = [subscribe EXCEPT ![s] = "put"]
         ELSE /\ subscribe' = [subscribe EXCEPT ![s] = "error"]
              /\ UNCHANGED subscriptions
    /\ UNCHANGED <<table, expired, unsubscribe, update, purged, faults, crashes>>

(* subscribeContext looks the subscription up again for its answer: it may *)
(* be gone, which throws.                                                  *)
AnswerSubscribe(s) ==
    /\ subscribe[s] = "put"
    /\ subscribe' = [subscribe EXCEPT ![s] = IF s \in subscriptions THEN "ok" ELSE "error"]
    /\ UNCHANGED <<subscriptions, table, expired, unsubscribe, update, purged, faults, crashes>>

---------------------------------------------------------------------------
(* deleteSubscription: the row, then the map's entry, whose absence is     *)
(* answered with 470.  The client knows the id from its answer.            *)

(* A variant to be told apart: the row stays.                              *)
RowsKept(s) == table
RowsWithout(s) == table \ {s}

DeleteRow(u, s) ==
    /\ unsubscribe[u].at = "idle" /\ subscribe[s] = "ok"
    /\ \/ /\ table' = RowsWithout(s)
          /\ unsubscribe' = [unsubscribe EXCEPT ![u] = [sub |-> s, at |-> "deleted"]]
          /\ UNCHANGED faults
       \/ /\ Fault
          /\ table' \in {table, RowsWithout(s)}
          /\ unsubscribe' = [unsubscribe EXCEPT ![u] = [sub |-> s, at |-> "error"]]
    /\ UNCHANGED <<subscriptions, expired, subscribe, update, purged, crashes>>

RemoveFromMap(u) ==
    LET s == unsubscribe[u].sub
    IN  /\ unsubscribe[u].at = "deleted"
        /\ subscriptions' = IF Loaded THEN subscriptions \ {s} ELSE None
        /\ unsubscribe' = [unsubscribe EXCEPT ![u].at =
                             IF ~ Loaded THEN "error"
                             ELSE IF s \in subscriptions THEN "ok" ELSE "unknown"]
        /\ UNCHANGED <<table, expired, subscribe, update, purged, faults, crashes>>

---------------------------------------------------------------------------
(* updateContext: an update that a registration matches is forwarded and   *)
(* notifies nobody.  Otherwise the map is walked, each entry judged when   *)
(* it is reached; entries made meanwhile may be reached or not.            *)
ForwardUpdate(p) ==
    /\ update[p].at = "idle"
    /\ update' = [update EXCEPT ![p].at = "forwarded"]
    /\ UNCHANGED <<subscriptions, table, expired, subscribe, unsubscribe, purged, faults, crashes>>

FindSubscriptions(p) ==
    /\ update[p].at = "idle"
    /\ update' = [update EXCEPT ![p] =
         IF ~ Loaded THEN [NoUpdate EXCEPT !.at = "error"]
         ELSE [NoUpdate EXCEPT !.at = "walking", !.left = subscriptions,
                 !.due = {s \in Sub : subscribe[s] = "ok" /\ ~ Contested(s) /\ s \notin expired},
                 !.gone = {s \in Sub : Unsubscribed(s) \/ s \in expired}]]
    /\ UNCHANGED <<subscriptions, table, expired, subscribe, unsubscribe, purged, faults, crashes>>

(* A variant to be told apart: the entry is judged by its presence alone.  *)
StillThere(s) == s \in subscriptions
Matches(s) == s \in subscriptions /\ s \notin expired

VisitEntry(p) ==
    /\ update[p].at = "walking" /\ update[p].found = None
    /\ \E s \in update[p].left \union subscriptions :
         /\ s \notin update[p].notified
         /\ update' = [update EXCEPT ![p].left = @ \ {s},
                                     ![p].found = IF Matches(s) THEN s ELSE None]
         /\ update'[p] # update[p]
    /\ UNCHANGED <<subscriptions, table, expired, subscribe, unsubscribe, purged, faults, crashes>>

NotifyContext(p) ==
    /\ update[p].found # None
    /\ update' = [update EXCEPT ![p].notified = @ \union {update[p].found}, ![p].found = None]
    /\ UNCHANGED <<subscriptions, table, expired, subscribe, unsubscribe, purged, faults, crashes>>

AnswerUpdate(p) ==
    /\ update[p].at = "walking" /\ update[p].found = None /\ update[p].left = {}
    /\ update' = [update EXCEPT ![p].at = "ok"]
    /\ UNCHANGED <<subscriptions, table, expired, subscribe, unsubscribe, purged, faults, crashes>>

---------------------------------------------------------------------------
(* purgeExpiredSubscriptions, entry by entry.                              *)

(* A variant to be told apart: whatever is in the map.                     *)
AnyEntry == subscriptions
ExpiredEntries == subscriptions \intersect expired

PurgeFromMap ==
    /\ Loaded /\ purged = None
    /\ \E s \in ExpiredEntries :
         /\ subscriptions' = subscriptions \ {s}
         /\ purged' = s
    /\ UNCHANGED <<table, expired, calls, faults, crashes>>

PurgeRow ==
    /\ purged # None
    /\ \/ table' = RowsWithout(purged) /\ UNCHANGED faults
       \/ Fault /\ table' \in {table, RowsWithout(purged)}
    /\ purged' = None
    /\ UNCHANGED <<subscriptions, expired, calls, crashes>>

(* The date of a subscription that was made passes.                        *)
Expire(s) ==
    /\ subscribe[s] # "idle" /\ s \notin expired
    /\ expired' = expired \union {s}
    /\ UNCHANGED <<subscriptions, table, calls, purged, faults, crashes>>

---------------------------------------------------------------------------
(* The broker is killed: calls under way are lost.  It starts again, and   *)
(* loadSubscriptionsOnStartup may fail, which it only logs.                *)
Ended == {"idle", "ok", "error", "unknown", "forwarded", "lost"}
Lost(at) == IF at \in Ended THEN at ELSE "lost"

Restart ==
    /\ crashes < MaxCrashes /\ crashes' = crashes + 1
    /\ \/ subscriptions' = table /\ UNCHANGED faults
       \/ Fault /\ subscriptions' = None
    /\ subscribe' = [s \in Sub |-> Lost(subscribe[s])]
    /\ unsubscribe' = [u \in Unsub |-> [unsubscribe[u] EXCEPT !.at = Lost(@)]]
    /\ update' = [p \in Update |-> [update[p] EXCEPT !.at = Lost(@), !.found = None]]
    /\ purged' = None
    /\ UNCHANGED <<table, expired>>

---------------------------------------------------------------------------
SubscribeStep(s) ==
    Refuse(s) \/ SaveSubscription(s) \/ PutSubscription(s) \/ AnswerSubscribe(s) \/ Expire(s)
UpdateStep(p) ==
    \/ ForwardUpdate(p) \/ FindSubscriptions(p) \/ VisitEntry(p) \/ NotifyContext(p)
    \/ AnswerUpdate(p)

Next ==
    \/ \E s \in Sub : SubscribeStep(s)
    \/ \E u \in Unsub : RemoveFromMap(u) \/ \E s \in Sub : DeleteRow(u, s)
    \/ \E p \in Update : UpdateStep(p)
    \/ PurgeFromMap \/ PurgeRow \/ Restart

Spec == Init /\ [][Next]_vars

---------------------------------------------------------------------------
UnsubCall == [sub : Sub \union {None}, at : Ended \union {"deleted"}]
UpdateCall == [at : Ended \union {"walking"}, left : SUBSET Sub, found : Sub \union {None},
               notified : SUBSET Sub, due : SUBSET Sub, gone : SUBSET Sub]

(* Every variable holds values of its kind, and what the purge is busy     *)
(* with has expired.                                                       *)
TypeOK ==
    /\ subscriptions = None \/ subscriptions \subseteq Sub
    /\ table \subseteq Sub /\ expired \subseteq Sub
    /\ purged \in expired \union {None}
    /\ subscribe \in [Sub -> Ended \union {"saved", "put"}]
    /\ unsubscribe \in [Unsub -> UnsubCall]
    /\ update \in [Update -> UpdateCall]
    /\ faults \in 0 .. MaxFaults /\ crashes \in 0 .. MaxCrashes

(* An update that completes has notified every subscription that was       *)
(* answered before it, of this life of the broker or an earlier one, and   *)
(* which nobody has asked to end and whose date has not passed             *)
(* (findSubscriptions, loadSubscriptionsOnStartup).                        *)
EveryoneNotified ==
    \A p \in Update : update[p].at = "ok" =>
        \A s \in update[p].due : s \in update[p].notified \/ Contested(s) \/ s \in expired

(* An update notifies nobody whose subscription had ended when it began:   *)
(* unsubscribed with an answer of 200, or expired, even where the row      *)
(* could not be deleted and the broker has loaded it again                 *)
(* (unsubscribeContext, findSubscriptions).                                *)
EndedStaysSilent ==
    \A p \in Update : update[p].notified \intersect update[p].gone = {}
==============================================================================
