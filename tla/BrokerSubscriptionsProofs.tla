---------------------- MODULE BrokerSubscriptionsProofs ----------------------
(***************************************************************************)
(* Proofs about BrokerSubscriptions, for any number of calls, failing      *)
(* statements and restarts: its types, that an update notifies everybody   *)
(* it must, and nobody whose subscription had ended when it began.         *)
(***************************************************************************)
EXTENDS BrokerSubscriptions, TLAPS

\* The map can be relied on: it was loaded, or an update walks it.
Reliable == Loaded \/ \E p \in Update : update[p].at = "walking"

\* A call that has not begun asks to end nothing.
NothingAsked == \A u \in Unsub : unsubscribe[u].at = "idle" => unsubscribe[u].sub = None

\* TypeOK is not inductive: what an update walks must be a map.
TypeInv ==
  /\ TypeOK
  /\ NothingAsked
  /\ Reliable => subscriptions \subseteq Sub

Active(s) == ~ Contested(s) /\ s \notin expired

----------------------------------------------------------------------------
\* Why whoever has ended is silent.

\* An id whose row was deleted was given to a client, and no row comes back.
RowsDeleted ==
  \A u \in Unsub : unsubscribe[u].at \in {"deleted", "ok"} =>
    /\ subscribe[unsubscribe[u].sub] = "ok"
    /\ unsubscribe[u].sub \in Sub \ table

\* Nor does an entry of the map.
EntriesRemoved ==
  Reliable => \A u \in Unsub : unsubscribe[u].at = "ok" => unsubscribe[u].sub \notin subscriptions

\* What an update took for ended has ended, and is not about to be notified.
GoneIsOver ==
  \A p \in Update :
    /\ \A s \in update[p].gone : Unsubscribed(s) \/ s \in expired
    /\ update[p].found \notin update[p].gone

SilentInv == RowsDeleted /\ EntriesRemoved /\ GoneIsOver /\ EndedStaysSilent

----------------------------------------------------------------------------
\* Why everybody is notified.

\* A subscription keeps its row from the insertion on ...
RowsKeptWhileActive ==
  \A s \in Sub : subscribe[s] \in {"saved", "put", "ok"} /\ Active(s) => s \in table

\* ... and its entry from the moment it is in the map, restarts included.
EntriesKeptWhileActive ==
  Reliable => \A s \in Sub : subscribe[s] \in {"put", "ok"} /\ Active(s) => s \in subscriptions

\* A client asks to end what it was given the id of.
ContestedWasAnswered == \A s \in Sub : Contested(s) => subscribe[s] = "ok"

\* Whom an update must notify, it has notified, or will.
DueIsAhead ==
  \A p \in Update : update[p].at \in {"walking", "ok"} =>
    \A s \in update[p].due : Active(s) =>
      \/ s \in update[p].notified
      \/ update[p].at = "walking" /\ (s \in update[p].left \/ s = update[p].found)

DueWasAnswered == \A p \in Update : \A s \in update[p].due : subscribe[s] = "ok"

NotifyInv ==
  /\ ContestedWasAnswered /\ RowsKeptWhileActive /\ EntriesKeptWhileActive
  /\ DueWasAnswered /\ DueIsAhead

----------------------------------------------------------------------------
\* What a restart makes of a call: one that had ended is left as it was.
LEMMA Losing ==
  /\ \A at : /\ Lost(at) \in Ended /\ Lost(at) \in {at, "lost"}
             /\ at \in Ended => Lost(at) = at
  /\ "ok" \in Ended /\ "lost" # "ok"
BY DEF Lost, Ended

\* A restart takes the map from the table, if it can, and loses the calls that had
\* not ended, and no other: of the subscriptions ...
LEMMA RestartSubscriptions ==
  ASSUME TypeInv, Restart
  PROVE  /\ subscriptions' \in {table, None} /\ table' = table /\ expired' = expired
         /\ purged' = None /\ faults' \in 0 .. MaxFaults /\ crashes' \in 0 .. MaxCrashes
         /\ subscribe' \in [Sub -> Ended]
         /\ \A s \in Sub : /\ subscribe[s] \in Ended => subscribe'[s] = subscribe[s]
                           /\ subscribe'[s] = "ok" => subscribe[s] = "ok"
<1>1. /\ faults \in 0 .. MaxFaults /\ crashes \in 0 .. MaxCrashes
      /\ MaxFaults \in Nat /\ MaxCrashes \in Nat
  BY BrokerAssumption DEF TypeInv, TypeOK
<1>2. /\ crashes < MaxCrashes /\ crashes' = crashes + 1
      /\ \/ subscriptions' = table /\ faults' = faults
         \/ subscriptions' = None /\ faults < MaxFaults /\ faults' = faults + 1
  BY DEF Restart, Fault
<1>3. /\ subscriptions' \in {table, None} /\ faults' \in 0 .. MaxFaults
      /\ crashes' \in 0 .. MaxCrashes
  BY <1>1, <1>2
<1>4. table' = table /\ expired' = expired /\ purged' = None
  BY DEF Restart
<1>5. subscribe' \in [Sub -> Ended] /\ \A s \in Sub : subscribe'[s] = Lost(subscribe[s])
  BY Losing DEF Restart
<1> QED
  BY <1>3, <1>4, <1>5, Losing

\* ... of the calls that end one ...
LEMMA RestartUnsubscribes ==
  ASSUME TypeInv, Restart
  PROVE  /\ unsubscribe' \in [Unsub -> [sub : Sub \union {None}, at : Ended]]
         /\ \A u \in Unsub : /\ unsubscribe'[u].sub = unsubscribe[u].sub
                             /\ unsubscribe'[u].at \in {unsubscribe[u].at, "lost"}
                             /\ unsubscribe[u].at = "ok" => unsubscribe'[u].at = "ok"
<1>1. unsubscribe' = [u \in Unsub |-> [unsubscribe[u] EXCEPT !.at = Lost(unsubscribe[u].at)]]
  BY DEF Restart
<1>2. \A u \in Unsub :
        unsubscribe[u] \in [sub : Sub \union {None}, at : Ended \union {"deleted"}]
  BY DEF TypeInv, TypeOK, UnsubCall
<1>3. /\ unsubscribe' \in [Unsub -> [sub : Sub \union {None}, at : Ended]]
      /\ \A u \in Unsub : /\ unsubscribe'[u].sub = unsubscribe[u].sub
                          /\ unsubscribe'[u].at = Lost(unsubscribe[u].at)
  BY <1>1, <1>2, Losing
<1> QED
  BY <1>3, Losing

\* ... and of the updates, whose progress stays as it was for the properties.
LEMMA RestartUpdates ==
  ASSUME TypeInv, Restart
  PROVE  /\ update' \in [Update -> [at : Ended, left : SUBSET Sub, found : {None},
                                    notified : SUBSET Sub, due : SUBSET Sub, gone : SUBSET Sub]]
         /\ \A p \in Update : /\ update'[p].notified = update[p].notified
                              /\ update'[p].due = update[p].due
                              /\ update'[p].gone = update[p].gone
                              /\ update'[p].at \in {update[p].at, "lost"}
<1>1. update' = [p \in Update |->
                   [update[p] EXCEPT !.at = Lost(update[p].at), !.found = None]]
  BY DEF Restart
<1>2. \A p \in Update :
        update[p] \in [at : Ended \union {"walking"}, left : SUBSET Sub,
                       found : Sub \union {None}, notified : SUBSET Sub,
                       due : SUBSET Sub, gone : SUBSET Sub]
  BY DEF TypeInv, TypeOK, UpdateCall
<1>3. /\ update' \in [Update -> [at : Ended, left : SUBSET Sub, found : {None},
                                notified : SUBSET Sub, due : SUBSET Sub, gone : SUBSET Sub]]
      /\ \A p \in Update : /\ update'[p].notified = update[p].notified
                           /\ update'[p].due = update[p].due
                           /\ update'[p].gone = update[p].gone
                           /\ update'[p].at = Lost(update[p].at)
  BY <1>1, <1>2, Losing
<1> QED
  BY <1>3, Losing

LEMMA InitType == Init => TypeInv
BY BrokerAssumption DEF Init, TypeInv, TypeOK, UnsubCall, UpdateCall, NothingAsked, Ended, Reliable, NoUnsub, NoUpdate

LEMMA RestartType == ASSUME TypeInv, Restart PROVE TypeInv'
<1>1. "walking" \notin Ended /\ "idle" \in Ended
  BY DEF Ended
<1>2. TypeOK /\ NothingAsked /\ table \subseteq Sub
  BY DEF TypeInv, TypeOK
<1>3. TypeOK'
  BY <1>2, RestartSubscriptions, RestartUnsubscribes, RestartUpdates, BrokerAssumption
     DEF TypeOK, UnsubCall, UpdateCall
<1>4. NothingAsked' /\ (Reliable => subscriptions \subseteq Sub)'
  BY <1>1, <1>2, RestartSubscriptions, RestartUnsubscribes, RestartUpdates
     DEF NothingAsked, Reliable, Loaded
<1> QED
  BY <1>3, <1>4 DEF TypeInv

LEMMA RestartSilent == ASSUME TypeInv, SilentInv, Restart PROVE SilentInv'
<1>1. "walking" \notin Ended /\ "ok" \in Ended /\ "deleted" \notin Ended
  BY DEF Ended
<1>2. RowsDeleted /\ EntriesRemoved /\ GoneIsOver /\ EndedStaysSilent
  BY DEF SilentInv
<1>3. update \in [Update -> UpdateCall]
  BY DEF TypeInv, TypeOK
<1>4. RowsDeleted'
  BY <1>1, <1>2, RestartSubscriptions, RestartUnsubscribes, RestartUpdates
     DEF RowsDeleted
<1>5. EntriesRemoved'
  BY <1>1, <1>4, RestartSubscriptions, RestartUnsubscribes, RestartUpdates
     DEF EntriesRemoved, RowsDeleted, Reliable, Loaded
<1>6. GoneIsOver'
  BY <1>2, <1>3, RestartSubscriptions, RestartUnsubscribes, RestartUpdates, BrokerAssumption
     DEF GoneIsOver, Unsubscribed, UpdateCall
<1>7. EndedStaysSilent'
  BY <1>2, RestartSubscriptions, RestartUnsubscribes, RestartUpdates
     DEF EndedStaysSilent
<1> QED
  BY <1>4, <1>5, <1>6, <1>7 DEF SilentInv

LEMMA RestartNotify == ASSUME TypeInv, NotifyInv, Restart PROVE NotifyInv'
<1>1. "walking" \notin Ended /\ {"saved", "put"} \intersect Ended = {} /\ "ok" \in Ended
  BY DEF Ended
<1>2. NotifyInv
  OBVIOUS
<1>3. ContestedWasAnswered' /\ DueWasAnswered'
  BY <1>1, <1>2, RestartSubscriptions, RestartUnsubscribes, RestartUpdates
     DEF NotifyInv, ContestedWasAnswered, DueWasAnswered, Contested, TypeInv, TypeOK
<1>4. RowsKeptWhileActive'
  BY <1>1, <1>2, RestartSubscriptions, RestartUnsubscribes, RestartUpdates
     DEF NotifyInv, RowsKeptWhileActive, Active, Contested
<1>5. EntriesKeptWhileActive'
  BY <1>1, <1>4, RestartSubscriptions, RestartUnsubscribes, RestartUpdates
     DEF RowsKeptWhileActive, EntriesKeptWhileActive, Reliable, Loaded
<1>6. DueIsAhead'
  BY <1>1, <1>2, RestartSubscriptions, RestartUnsubscribes, RestartUpdates
     DEF NotifyInv, DueIsAhead, Active, Contested
<1> QED
  BY <1>3, <1>4, <1>5, <1>6 DEF NotifyInv

\* A visited entry is about to be notified only when it is in the map.
LEMMA VisitType == ASSUME TypeInv, NEW p \in Update, VisitEntry(p) PROVE TypeInv'
<1> DEFINE Visited(s) == [update[p] EXCEPT !.left = @ \ {s},
                                           !.found = IF Matches(s) THEN s ELSE None]
<1>1. PICK s \in update[p].left \union subscriptions :
        update' = [update EXCEPT ![p].left = @ \ {s},
                                 ![p].found = IF Matches(s) THEN s ELSE None]
  BY DEF VisitEntry
<1>2. /\ update[p].at = "walking"
      /\ UNCHANGED <<subscriptions, table, expired, subscribe, unsubscribe, purged, faults, crashes>>
  BY DEF VisitEntry
<1>3. update \in [Update -> UpdateCall] /\ subscriptions \subseteq Sub /\ TypeOK /\ NothingAsked
  BY <1>2 DEF TypeInv, TypeOK, Reliable
<1>4. (IF Matches(s) THEN s ELSE None) \in Sub \union {None}
  BY <1>3 DEF Matches
<1>5. Visited(s) \in UpdateCall
  <2>1. update[p] \in UpdateCall
    BY <1>3
  <2> HIDE DEF Matches
  <2> QED
    BY <1>4, <2>1 DEF UpdateCall
<1>6. update' = [update EXCEPT ![p] = Visited(s)]
  BY <1>1
<1>7. update' \in [Update -> UpdateCall]
  <2> HIDE DEF Visited
  <2> QED
    BY <1>3, <1>5, <1>6
<1>8. TypeOK' /\ NothingAsked'
  BY <1>2, <1>3, <1>7 DEF TypeOK, NothingAsked
<1>9. (Reliable => subscriptions \subseteq Sub)'
  BY <1>2, <1>3
<1> QED
  BY <1>8, <1>9 DEF TypeInv

\* Every step keeps the types.
LEMMA NextType ==
  ASSUME TypeInv, [Next]_vars
  PROVE  TypeInv'
<1> USE BrokerAssumption DEF TypeInv, TypeOK, UnsubCall, UpdateCall, NothingAsked, Ended, Loaded,
           Reliable
<1>1. ASSUME NEW s \in Sub, Refuse(s)
     PROVE  TypeInv'
  BY <1>1 DEF Refuse
<1>2. ASSUME NEW s \in Sub, SaveSubscription(s)
     PROVE  TypeInv'
  BY <1>2 DEF SaveSubscription, Fault, Inserted
<1>3. ASSUME NEW s \in Sub, PutSubscription(s)
     PROVE  TypeInv'
  BY <1>3 DEF PutSubscription
<1>4. ASSUME NEW s \in Sub, AnswerSubscribe(s)
     PROVE  TypeInv'
  BY <1>4 DEF AnswerSubscribe
<1>5. ASSUME NEW s \in Sub, Expire(s)
     PROVE  TypeInv'
  BY <1>5 DEF Expire, calls
<1>6. ASSUME NEW u \in Unsub, RemoveFromMap(u)
     PROVE  TypeInv'
  BY <1>6 DEF RemoveFromMap
<1>7. ASSUME NEW s \in Sub, NEW u \in Unsub, DeleteRow(u, s)
     PROVE  TypeInv'
  BY <1>7 DEF DeleteRow, Fault, RowsWithout
<1>8. ASSUME NEW p \in Update, ForwardUpdate(p)
     PROVE  TypeInv'
  BY <1>8 DEF ForwardUpdate
<1>9. ASSUME NEW p \in Update, FindSubscriptions(p)
     PROVE  TypeInv'
  BY <1>9 DEF FindSubscriptions, NoUpdate
<1>10. ASSUME NEW p \in Update, VisitEntry(p)
     PROVE  TypeInv'
  BY <1>10, VisitType
<1>11. ASSUME NEW p \in Update, NotifyContext(p)
     PROVE  TypeInv'
  BY <1>11 DEF NotifyContext
<1>12. ASSUME NEW p \in Update, AnswerUpdate(p)
     PROVE  TypeInv'
  BY <1>12 DEF AnswerUpdate
<1>13. ASSUME PurgeFromMap
     PROVE  TypeInv'
  BY <1>13 DEF PurgeFromMap, ExpiredEntries, calls
<1>14. ASSUME PurgeRow
     PROVE  TypeInv'
  BY <1>14 DEF PurgeRow, Fault, RowsWithout, calls
<1>15. ASSUME Restart
     PROVE  TypeInv'
  BY <1>15, RestartType
<1>16. CASE UNCHANGED vars
  BY <1>16 DEF vars
<1> QED
  BY <1>1, <1>2, <1>3, <1>4, <1>5, <1>6, <1>7, <1>8, <1>9, <1>10, <1>11, <1>12, <1>13, <1>14, <1>15, <1>16
     DEF Next, SubscribeStep, UpdateStep

\* What has ended stays ended: neither a failing statement nor a restart brings a
\* deleted row or a removed entry back.
LEMMA NextSilent ==
  ASSUME TypeInv, SilentInv, [Next]_vars
  PROVE  SilentInv'
<1> USE BrokerAssumption DEF TypeInv, TypeOK, UnsubCall, UpdateCall, NothingAsked, Ended, Loaded,
           Reliable, Unsubscribed,
           SilentInv, RowsDeleted, EntriesRemoved, GoneIsOver, EndedStaysSilent
<1>1. ASSUME NEW s \in Sub, Refuse(s)
     PROVE  SilentInv'
  BY <1>1 DEF Refuse
<1>2. ASSUME NEW s \in Sub, SaveSubscription(s)
     PROVE  SilentInv'
  BY <1>2 DEF SaveSubscription, Fault, Inserted
<1>3. ASSUME NEW s \in Sub, PutSubscription(s)
     PROVE  SilentInv'
  BY <1>3 DEF PutSubscription
<1>4. ASSUME NEW s \in Sub, AnswerSubscribe(s)
     PROVE  SilentInv'
  BY <1>4 DEF AnswerSubscribe
<1>5. ASSUME NEW s \in Sub, Expire(s)
     PROVE  SilentInv'
  BY <1>5 DEF Expire, calls
<1>6. ASSUME NEW u \in Unsub, RemoveFromMap(u)
     PROVE  SilentInv'
  BY <1>6 DEF RemoveFromMap
<1>7. ASSUME NEW s \in Sub, NEW u \in Unsub, DeleteRow(u, s)
     PROVE  SilentInv'
  <2>1. RowsDeleted' /\ EntriesRemoved'
    BY <1>7 DEF DeleteRow, Fault, RowsWithout
  <2>2. \A r : Unsubscribed(r) => Unsubscribed(r)'
    BY <1>7 DEF DeleteRow, Fault
  <2>3. UNCHANGED <<update, expired>>
    BY <1>7 DEF DeleteRow
  <2>4. GoneIsOver'
    <3> HIDE DEF Unsubscribed
    <3> QED
      BY <2>2, <2>3
  <2>5. EndedStaysSilent'
    BY <2>3
  <2> QED
    BY <2>1, <2>4, <2>5
<1>8. ASSUME NEW p \in Update, ForwardUpdate(p)
     PROVE  SilentInv'
  BY <1>8 DEF ForwardUpdate
<1>9. ASSUME NEW p \in Update, FindSubscriptions(p)
     PROVE  SilentInv'
  BY <1>9 DEF FindSubscriptions, NoUpdate
<1>10. ASSUME NEW p \in Update, VisitEntry(p)
     PROVE  SilentInv'
  BY <1>10 DEF VisitEntry, Matches
<1>11. ASSUME NEW p \in Update, NotifyContext(p)
     PROVE  SilentInv'
  BY <1>11 DEF NotifyContext
<1>12. ASSUME NEW p \in Update, AnswerUpdate(p)
     PROVE  SilentInv'
  BY <1>12 DEF AnswerUpdate
<1>13. ASSUME PurgeFromMap
     PROVE  SilentInv'
  BY <1>13 DEF PurgeFromMap, ExpiredEntries, calls
<1>14. ASSUME PurgeRow
     PROVE  SilentInv'
  BY <1>14 DEF PurgeRow, Fault, RowsWithout, calls
<1>15. ASSUME Restart
     PROVE  SilentInv'
  BY <1>15, RestartSilent
<1>16. CASE UNCHANGED vars
  BY <1>16 DEF vars
<1> QED
  BY <1>1, <1>2, <1>3, <1>4, <1>5, <1>6, <1>7, <1>8, <1>9, <1>10, <1>11, <1>12, <1>13, <1>14, <1>15, <1>16
     DEF Next, SubscribeStep, UpdateStep

\* What is active keeps its row and its entry, and stays ahead of an update that
\* must notify it.
LEMMA NextNotify ==
  ASSUME TypeInv, NotifyInv, [Next]_vars
  PROVE  NotifyInv'
<1> USE BrokerAssumption DEF TypeInv, TypeOK, UnsubCall, UpdateCall, NothingAsked, Ended, Loaded,
           Reliable, Active, Contested,
           NotifyInv, ContestedWasAnswered, RowsKeptWhileActive, EntriesKeptWhileActive,
           DueIsAhead, DueWasAnswered
<1>1. ASSUME NEW s \in Sub, Refuse(s)
     PROVE  NotifyInv'
  BY <1>1 DEF Refuse
<1>2. ASSUME NEW s \in Sub, SaveSubscription(s)
     PROVE  NotifyInv'
  BY <1>2 DEF SaveSubscription, Fault, Inserted
<1>3. ASSUME NEW s \in Sub, PutSubscription(s)
     PROVE  NotifyInv'
  BY <1>3 DEF PutSubscription
<1>4. ASSUME NEW s \in Sub, AnswerSubscribe(s)
     PROVE  NotifyInv'
  BY <1>4 DEF AnswerSubscribe
<1>5. ASSUME NEW s \in Sub, Expire(s)
     PROVE  NotifyInv'
  BY <1>5 DEF Expire, calls
<1>6. ASSUME NEW u \in Unsub, RemoveFromMap(u)
     PROVE  NotifyInv'
  BY <1>6 DEF RemoveFromMap
<1>7. ASSUME NEW s \in Sub, NEW u \in Unsub, DeleteRow(u, s)
     PROVE  NotifyInv'
  <2>1. ContestedWasAnswered' /\ DueWasAnswered'
    BY <1>7 DEF DeleteRow, Fault
  <2>2. RowsKeptWhileActive' /\ EntriesKeptWhileActive'
    BY <1>7 DEF DeleteRow, Fault, RowsWithout
  <2>3. DueIsAhead'
    BY <1>7 DEF DeleteRow, Fault
  <2> QED
    BY <2>1, <2>2, <2>3
<1>8. ASSUME NEW p \in Update, ForwardUpdate(p)
     PROVE  NotifyInv'
  BY <1>8 DEF ForwardUpdate
<1>9. ASSUME NEW p \in Update, FindSubscriptions(p)
     PROVE  NotifyInv'
  BY <1>9 DEF FindSubscriptions, NoUpdate
<1>10. ASSUME NEW p \in Update, VisitEntry(p)
     PROVE  NotifyInv'
  BY <1>10 DEF VisitEntry, Matches
<1>11. ASSUME NEW p \in Update, NotifyContext(p)
     PROVE  NotifyInv'
  BY <1>11 DEF NotifyContext
<1>12. ASSUME NEW p \in Update, AnswerUpdate(p)
     PROVE  NotifyInv'
  BY <1>12 DEF AnswerUpdate
<1>13. ASSUME PurgeFromMap
     PROVE  NotifyInv'
  BY <1>13 DEF PurgeFromMap, ExpiredEntries, calls
<1>14. ASSUME PurgeRow
     PROVE  NotifyInv'
  BY <1>14 DEF PurgeRow, Fault, RowsWithout, calls
<1>15. ASSUME Restart
     PROVE  NotifyInv'
  BY <1>15, RestartNotify
<1>16. CASE UNCHANGED vars
  BY <1>16 DEF vars
<1> QED
  BY <1>1, <1>2, <1>3, <1>4, <1>5, <1>6, <1>7, <1>8, <1>9, <1>10, <1>11, <1>12, <1>13, <1>14, <1>15, <1>16
     DEF Next, SubscribeStep, UpdateStep

----------------------------------------------------------------------------
LEMMA Typing == Spec => []TypeInv
<1>1. Init => TypeInv
  BY InitType
<1>2. TypeInv /\ [Next]_vars => TypeInv'
  BY NextType
<1> QED
  BY <1>1, <1>2, PTL DEF Spec

\* Every variable holds values of its kind, whatever fails and however often the
\* broker is killed.
THEOREM TypeCorrect == Spec => []TypeOK
<1>1. TypeInv => TypeOK
  BY DEF TypeInv
<1> QED
  BY <1>1, Typing, PTL

\* However many clients, failing statements and restarts there are, and wherever
\* they come between the table and the map (deleteSubscription, the purge,
\* loadSubscriptionsOnStartup), no update notifies whoever had ended when it began.
THEOREM EndedAreSilent == Spec => []EndedStaysSilent
<1>1. Init => SilentInv
  BY DEF Init, SilentInv, RowsDeleted, EntriesRemoved, GoneIsOver, EndedStaysSilent,
         NoUnsub, NoUpdate
<1>2. TypeInv /\ SilentInv /\ [Next]_vars => SilentInv'
  BY NextSilent
<1>3. SilentInv => EndedStaysSilent
  BY DEF SilentInv
<1> QED
  BY <1>1, <1>2, <1>3, Typing, PTL DEF Spec

\* And each update that completes has notified everybody who was answered before it
\* and neither asked to end nor expired meanwhile: the walk over the map (findSubscriptions)
\* misses nobody, and a restart finds the rows of all of them.
THEOREM AllAreNotified == Spec => []EveryoneNotified
<1>1. Init => NotifyInv
  BY BrokerAssumption
  DEF Init, NotifyInv, ContestedWasAnswered, RowsKeptWhileActive, EntriesKeptWhileActive,
      DueWasAnswered, DueIsAhead, Contested, NoUnsub, NoUpdate
<1>2. TypeInv /\ NotifyInv /\ [Next]_vars => NotifyInv'
  BY NextNotify
<1>3. NotifyInv => EveryoneNotified
  BY DEF NotifyInv, DueIsAhead, EveryoneNotified, Active
<1> QED
  BY <1>1, <1>2, <1>3, Typing, PTL DEF Spec
==============================================================================
