--------------------------- MODULE DeviceService ---------------------------
(***************************************************************************)
(* The device directory of the IoT Agent node library: deviceService.js    *)
(* and subscriptionService.js over the in-memory registry of               *)
(* deviceRegistryMemory.js (the default), as driven by the provisioning    *)
(* API and by the library's own callers.                                   *)
(*                                                                         *)
(* The agent is one event loop.  Every operation is an async.waterfall     *)
(* whose tasks run on separate turns of the loop (async 0.9 defers each    *)
(* task with setImmediate) and which waits for the Context Broker between  *)
(* some of them, so the tasks of different calls interleave.  One action   *)
(* here is one task or callback; tasks that touch nothing shared are       *)
(* merged with the task before them.                                       *)
(*                                                                         *)
(* The memory registry hands out the object it stores, so which object a   *)
(* call holds matters.  A call creates at most one device object and one   *)
(* subscription array: both are named by the call.  Context Broker         *)
(* registrations and subscriptions are named by the call that made the     *)
(* broker create them.                                                     *)
(***************************************************************************)
EXTENDS Naturals, Sequences

CONSTANTS
  DeviceId,       \* device ids; entity name and type are fixed by the id
  Attr,           \* names of active attributes
  Req,            \* the calls clients may make: each is made once (bound)
  Ops,            \* which operations the clients of this instance call
  Overlap,        \* may a client call about a device before the last answer?
  MaxFailures,    \* how many calls to the Context Broker may fail (bound)
  MayClearLazy,   \* may a PUT leave a device without lazy attributes?
  None            \* JavaScript's undefined

OpNames == {"register", "unregister", "put", "updateRegister", "subscribe",
            "unsubscribe", "clear"}

ASSUME ConstantsAssumption ==
  /\ None \notin Req \cup DeviceId
  /\ Ops \subseteq OpNames
  /\ {Overlap, MayClearLazy} \subseteq BOOLEAN
  /\ MaxFailures \in Nat

VARIABLES
  registered,     \* registeredDevices: the object stored under each id
  heap,           \* device objects, by the call that created them
  lists,          \* subscription arrays, by the call that created them
  call,           \* where each call is in its waterfall
  sent,           \* requests on their way to the Context Broker
  answers,        \* its answers on their way back
  registrations,  \* live registrations in the Context Broker
  subscriptions,  \* live subscriptions in the Context Broker
  entity,         \* attributes of each device's entity there
  failures        \* how many calls to it have failed so far

agentVars == <<registered, heap, lists, call>>
brokerVars == <<registrations, subscriptions, entity, failures>>
vars == <<registered, heap, lists, call, sent, answers,
          registrations, subscriptions, entity, failures>>

Ref == Req \cup {None}

Device == [active : SUBSET Attr, lazy : BOOLEAN, registrationId : Ref, subscriptions : Ref]

\* Where a call is: "idle" before it is made; then the task it runs next, or
\* the answer it waits for; then how it ended ("lost": an exception was
\* swallowed by the process and nobody answers the client).
Ended == {"ok", "error", "lost"}
Stage == {"idle", "registering", "creating", "get", "difference", "combining", "update",
          "updating", "clone", "replace", "unsubscribe", "unsubscribing", "expire",
          "expiring", "remove", "subscribing"} \cup Ended

Call == [op : Ops \cup {"none"}, dev : DeviceId \cup {None}, old : Ref, new : Ref, at : Stage]

MsgKind == {"register", "expire", "entity", "subscribe", "unsubscribe"}
Message == [req : Req, kind : MsgKind, id : Ref, attrs : SUBSET Attr]

\* "empty" is a response without a body, which the handlers treat apart.
Result == {"ok", "fail", "empty"}
Answer == [req : Req, kind : MsgKind, id : Req, result : Result]

NoDevice == [active |-> {}, lazy |-> FALSE, registrationId |-> None, subscriptions |-> None]
NoCall == [op |-> "none", dev |-> None, old |-> None, new |-> None, at |-> "idle"]

Init ==
  /\ registered = [d \in DeviceId |-> None]
  /\ heap = [r \in Req |-> NoDevice]
  /\ lists = [r \in Req |-> <<>>]
  /\ call = [r \in Req |-> NoCall]
  /\ sent = {}
  /\ answers = {}
  /\ registrations = {}
  /\ subscriptions = {}
  /\ entity = [d \in DeviceId |-> {}]
  /\ failures = 0

Busy(r) == call[r].at \notin {"idle"} \cup Ended

Msg(r, kind, id, attrs) == [req |-> r, kind |-> kind, id |-> id, attrs |-> attrs]

\* sendRegistrations, lines 127-129: the request names the registration to
\* change if the device has one.
KnownRegistration(dv) == dv.registrationId

\* extractDeviceDifference, lines 436-443: the active attributes to create.
NewAttributesReversed(new, old) == old \ new
NewAttributes(new, old) == new \ old

\* storeDevice of the memory registry, lines 38-39.
StorableAlways(d) == TRUE
Storable(d) == registered[d] = None

\* The handlers' branches on the Context Broker's response: registration and
\* entity requests need a body without errors, unsubscriptions pass an empty
\* response on as a callback without an error.
SucceededUnlessError(result) == result # "fail"
Succeeded(result) == result = "ok"
PassedOn(result) == result # "fail"

\* A task that fails ends the waterfall: its callback answers the client.
Move(r, stage) == [call EXCEPT ![r].at = stage]

----------------------------------------------------------------------------
\* Calls by clients

MayStart(r, op, d) ==
  /\ op \in Ops
  /\ call[r].at = "idle"
  /\ Overlap \/ \A q \in Req : call[q].dev = d => ~Busy(q)

Begin(r, op, d, old, new, stage) ==
  call' = [call EXCEPT ![r] = [op |-> op, dev |-> d, old |-> old, new |-> new, at |-> stage]]

\* registerDevice up to its first request: the registration, or the entity
\* when there is no lazy attribute or command to register.
RegisterDevice(r, d, active, lazy) ==
  /\ MayStart(r, "register", d)
  /\ heap' = [heap EXCEPT ![r] = [NoDevice EXCEPT !.active = active, !.lazy = lazy]]
  /\ IF lazy
       THEN /\ sent' = sent \cup {Msg(r, "register", None, {})}
            /\ Begin(r, "register", d, None, r, "registering")
       ELSE /\ sent' = sent \cup {Msg(r, "entity", None, active)}
            /\ Begin(r, "register", d, None, r, "creating")
  /\ UNCHANGED <<registered, lists, answers, brokerVars>>

\* unregisterDevice looks the device up at once; an unknown id leaves
\* `device` undefined and the next task throws on it, out of any caller.
UnregisterDevice(r, d) ==
  /\ MayStart(r, "unregister", d)
  /\ Begin(r, "unregister", d, registered[d], None,
           IF registered[d] = None THEN "lost" ELSE "unsubscribe")
  /\ UNCHANGED <<registered, heap, lists, sent, answers, brokerVars>>

\* handleUpdateDevice (PUT): the fields are written into the object the
\* registry holds, before updateRegisterDevice starts.  The loop over
\* pairs[0] always takes two turns: a body with one field throws on the
\* second, inside the route, and Express answers an error.
PutDevice(r, d, active, lazy, fields) ==
  LET o == registered[d] IN
  /\ MayStart(r, "put", d)
  /\ IF o = None
       THEN Begin(r, "put", d, None, None, "error") /\ UNCHANGED heap
       ELSE /\ fields = 1 => active = heap[o].active \/ lazy = heap[o].lazy
            /\ lazy \/ MayClearLazy \/ ~heap[o].lazy
            /\ heap' = [heap EXCEPT ![o].active = active, ![o].lazy = lazy]
            /\ Begin(r, "put", d, None, o, IF fields = 1 THEN "error" ELSE "get")
  /\ UNCHANGED <<registered, lists, sent, answers, brokerVars>>

\* updateRegisterDevice called by a library user with an object of its own.
UpdateDevice(r, d, active, lazy) ==
  /\ MayStart(r, "updateRegister", d)
  /\ heap' = [heap EXCEPT ![r] = [NoDevice EXCEPT !.active = active, !.lazy = lazy]]
  /\ Begin(r, "updateRegister", d, None, r, "get")
  /\ UNCHANGED <<registered, lists, sent, answers, brokerVars>>

\* subscribe and unsubscribe are given the device object the caller got from
\* the registry, and, for unsubscribe, the id of one of its subscriptions.
Subscribe(r, d) ==
  /\ MayStart(r, "subscribe", d)
  /\ registered[d] # None
  /\ sent' = sent \cup {Msg(r, "subscribe", None, {})}
  /\ Begin(r, "subscribe", d, registered[d], None, "subscribing")
  /\ UNCHANGED <<registered, heap, lists, answers, brokerVars>>

Unsubscribe(r, d) ==
  LET o == registered[d] IN
  /\ MayStart(r, "unsubscribe", d)
  /\ o # None
  /\ heap[o].subscriptions # None
  /\ \E i \in DOMAIN lists[heap[o].subscriptions] :
       /\ sent' = sent \cup {Msg(r, "unsubscribe", lists[heap[o].subscriptions][i], {})}
       /\ Begin(r, "unsubscribe", d, o, lists[heap[o].subscriptions][i], "unsubscribing")
  /\ UNCHANGED <<registered, heap, lists, answers, brokerVars>>

ClearRegistry ==
  /\ "clear" \in Ops
  /\ registered' = [d \in DeviceId |-> None]
  /\ UNCHANGED <<heap, lists, call, sent, answers, brokerVars>>

----------------------------------------------------------------------------
\* registerDevice's later tasks

\* processContextRegistration, then createInitialEntity.
OnRegistered(r, a) ==
  /\ a.req = r /\ a.kind = "register" /\ Succeeded(a.result)
  /\ call[r].at = "registering"
  /\ answers' = answers \ {a}
  /\ heap' = [heap EXCEPT ![r].registrationId = a.id]
  /\ sent' = sent \cup {Msg(r, "entity", None, heap[r].active)}
  /\ call' = Move(r, "creating")
  /\ UNCHANGED <<registered, lists, brokerVars>>

\* The entity exists: registry.store keeps the device or refuses its id.
StoreDevice(r, a) ==
  /\ a.req = r /\ a.kind = "entity" /\ Succeeded(a.result)
  /\ call[r].at = "creating"
  /\ answers' = answers \ {a}
  /\ IF Storable(call[r].dev)
       THEN /\ registered' = [registered EXCEPT ![call[r].dev] = r]
            /\ call' = Move(r, "ok")
       ELSE /\ call' = Move(r, "error")
            /\ UNCHANGED registered
  /\ UNCHANGED <<heap, lists, sent, brokerVars>>

\* Any registration or entity request that does not succeed: the waterfall
\* ends, and what was done before stays done.
OnRefused(r, a) ==
  /\ a.req = r /\ a.kind \in {"register", "expire", "entity"} /\ ~Succeeded(a.result)
  /\ answers' = answers \ {a}
  /\ call' = Move(r, "error")
  /\ UNCHANGED <<registered, heap, lists, sent, brokerVars>>

----------------------------------------------------------------------------
\* updateRegisterDevice's tasks

GetOld(r) ==
  /\ call[r].at = "get"
  /\ call' = [call EXCEPT ![r].old = registered[call[r].dev],
                          ![r].at = IF registered[call[r].dev] = None THEN "error"
                                                                      ELSE "difference"]
  /\ UNCHANGED <<registered, heap, lists, sent, answers, brokerVars>>

SendDifference(r) ==
  /\ call[r].at = "difference"
  /\ sent' = sent \cup {Msg(r, "entity", None, NewAttributes(heap[call[r].new].active,
                                                             heap[call[r].old].active))}
  /\ call' = Move(r, "combining")
  /\ UNCHANGED <<registered, heap, lists, answers, brokerVars>>

\* combineWithNewDevice writes into the object the registry handed out.
Combine(r, a) ==
  /\ a.req = r /\ a.kind = "entity" /\ Succeeded(a.result)
  /\ call[r].at = "combining"
  /\ answers' = answers \ {a}
  /\ heap' = [heap EXCEPT ![call[r].old].active = heap[call[r].new].active,
                          ![call[r].old].lazy = heap[call[r].new].lazy]
  /\ call' = Move(r, "update")
  /\ UNCHANGED <<registered, lists, sent, brokerVars>>

\* sendRegistrations(false, oldDevice).
SendUpdate(r) ==
  /\ call[r].at = "update"
  /\ IF heap[call[r].old].lazy
       THEN /\ sent' = sent \cup {Msg(r, "register", KnownRegistration(heap[call[r].old]), {})}
            /\ call' = Move(r, "updating")
       ELSE /\ call' = Move(r, "clone")
            /\ UNCHANGED sent
  /\ UNCHANGED <<registered, heap, lists, answers, brokerVars>>

\* processContextRegistration: a copy of deviceObj with the registration id
\* of the answer, or of the old device when nothing was sent.
CloneWith(r, id) == heap' = [heap EXCEPT ![r] = [heap[call[r].new] EXCEPT !.registrationId = id]]

OnUpdated(r, a) ==
  /\ a.req = r /\ a.kind = "register" /\ Succeeded(a.result)
  /\ call[r].at = "updating"
  /\ answers' = answers \ {a}
  /\ CloneWith(r, a.id)
  /\ call' = Move(r, "replace")
  /\ UNCHANGED <<registered, lists, sent, brokerVars>>

OnNothingToUpdate(r) ==
  /\ call[r].at = "clone"
  /\ CloneWith(r, heap[call[r].old].registrationId)
  /\ call' = Move(r, "replace")
  /\ UNCHANGED <<registered, lists, sent, answers, brokerVars>>

\* registry.update: the entry is overwritten, or made, whatever is there.
ReplaceDevice(r) ==
  /\ call[r].at = "replace"
  /\ registered' = [registered EXCEPT ![call[r].dev] = r]
  /\ call' = Move(r, "ok")
  /\ UNCHANGED <<heap, lists, sent, answers, brokerVars>>

----------------------------------------------------------------------------
\* unregisterDevice's tasks

ListOf(o) == IF heap[o].subscriptions = None THEN <<>> ELSE lists[heap[o].subscriptions]

\* removeAllSubscriptions sends one request per element, all at once.
SendUnsubscriptions(r) ==
  LET list == ListOf(call[r].old) IN
  /\ call[r].at = "unsubscribe"
  /\ sent' = sent \cup {Msg(r, "unsubscribe", list[i], {}) : i \in DOMAIN list}
  /\ call' = Move(r, IF list = <<>> THEN "expire" ELSE "unsubscribing")
  /\ UNCHANGED <<registered, heap, lists, answers, brokerVars>>

\* sendRegistrations(true, device): a registration that lasts one second.
SendExpire(r) ==
  /\ call[r].at = "expire"
  /\ IF heap[call[r].old].lazy
       THEN /\ sent' = sent \cup {Msg(r, "expire", KnownRegistration(heap[call[r].old]), {})}
            /\ call' = Move(r, "expiring")
       ELSE /\ call' = Move(r, "remove")
            /\ UNCHANGED sent
  /\ UNCHANGED <<registered, heap, lists, answers, brokerVars>>

RemoveLeavesBlank(r) == registered' = [registered EXCEPT ![call[r].dev] = NoDevice]
Remove(r) == registered' = [registered EXCEPT ![call[r].dev] = None]

OnExpired(r, a) ==
  /\ a.req = r /\ a.kind = "expire" /\ Succeeded(a.result)
  /\ call[r].at = "expiring"
  /\ answers' = answers \ {a}
  /\ Remove(r)
  /\ call' = Move(r, "ok")
  /\ UNCHANGED <<heap, lists, sent, brokerVars>>

RemoveUnregistered(r) ==
  /\ call[r].at = "remove"
  /\ Remove(r)
  /\ call' = Move(r, "ok")
  /\ UNCHANGED <<heap, lists, sent, answers, brokerVars>>

----------------------------------------------------------------------------
\* The subscription handlers

\* The new subscription is pushed onto the caller's object, which is then
\* stored under its id whether or not the device is still registered.
OnSubscribed(r, a) ==
  LET o == call[r].old
      l == IF heap[o].subscriptions = None THEN r ELSE heap[o].subscriptions
  IN
  /\ a.req = r /\ a.kind = "subscribe"
  /\ answers' = answers \ {a}
  /\ IF a.result = "ok"
       THEN /\ heap' = [heap EXCEPT ![o].subscriptions = l]
            /\ lists' = [lists EXCEPT ![l] = Append(@, a.id)]
            /\ registered' = [registered EXCEPT ![call[r].dev] = o]
       ELSE UNCHANGED <<heap, lists, registered>>
  /\ call' = Move(r, IF PassedOn(a.result) THEN "ok" ELSE "error")
  /\ UNCHANGED <<sent, brokerVars>>

\* subscriptions.splice(subscriptions.indexOf(id), 1): the array holds
\* objects, so indexOf answers -1 and the last element goes, whichever id it has.
Splice(list) == SubSeq(list, 1, Len(list) - 1)

\* async.map calls back with the first error, or once every answer is in.
AfterUnsubscriptionUnlessEmpty(r, a) ==
  IF a.result = "empty" \/ call[r].at # "unsubscribing" THEN call[r].at ELSE "expire"
AfterFirstUnsubscription(r, a) ==
  IF call[r].at # "unsubscribing" THEN call[r].at
  ELSE IF ~PassedOn(a.result) THEN "error"
  ELSE IF call[r].op = "unsubscribe" THEN "ok"
  ELSE "expire"
AfterUnsubscription(r, a) ==
  IF call[r].at # "unsubscribing" THEN call[r].at
  ELSE IF ~PassedOn(a.result) THEN "error"
  ELSE IF call[r].op = "unsubscribe" THEN "ok"
  ELSE IF \E m \in sent \cup (answers \ {a}) : m.req = r THEN "unsubscribing"
  ELSE "expire"

OnUnsubscribed(r, a) ==
  LET o == call[r].old IN
  /\ a.req = r /\ a.kind = "unsubscribe"
  /\ answers' = answers \ {a}
  /\ IF a.result = "ok"
       THEN /\ lists' = [lists EXCEPT ![heap[o].subscriptions] = Splice(@)]
            /\ registered' = [registered EXCEPT ![call[r].dev] = o]
       ELSE UNCHANGED <<lists, registered>>
  /\ call' = Move(r, AfterUnsubscription(r, a))
  /\ UNCHANGED <<heap, sent, brokerVars>>

----------------------------------------------------------------------------
\* The Context Broker

\* A call fails when the connection does, when the broker reports an error,
\* or when the registration it names is not there; a connection that breaks
\* late loses the answer to a request that took effect.
MayFail(m) ==
  \/ failures < MaxFailures
  \/ m.kind = "register" /\ m.id # None /\ m.id \notin registrations

IdOf(m) == IF m.id = None THEN m.req ELSE m.id

Effect(m) ==
  /\ registrations' = CASE m.kind = "register" -> registrations \cup {IdOf(m)}
                        [] m.kind = "expire"   -> registrations \ {m.id}
                        [] OTHER               -> registrations
  /\ subscriptions' = CASE m.kind = "subscribe"   -> subscriptions \cup {m.req}
                        [] m.kind = "unsubscribe" -> subscriptions \ {m.id}
                        [] OTHER                  -> subscriptions
  /\ entity' = IF m.kind = "entity"
                 THEN [entity EXCEPT ![call[m.req].dev] = @ \cup m.attrs] ELSE entity

BrokerAnswers(m, result) ==
  /\ sent' = sent \ {m}
  /\ answers' = answers \cup
       {[req |-> m.req, kind |-> m.kind, id |-> IdOf(m), result |-> result]}
  /\ UNCHANGED agentVars

BrokerAccepts(m) ==
  /\ BrokerAnswers(m, "ok")
  /\ Effect(m)
  /\ UNCHANGED failures

BrokerFails(m) ==
  /\ MayFail(m)
  /\ \E result \in Result \ {"ok"} : BrokerAnswers(m, result)
  /\ Effect(m) \/ UNCHANGED <<registrations, subscriptions, entity>>
  /\ failures' = IF failures < MaxFailures THEN failures + 1 ELSE failures

----------------------------------------------------------------------------

Client ==
  \/ \E r \in Req, d \in DeviceId, active \in SUBSET Attr, lazy \in BOOLEAN :
       \/ RegisterDevice(r, d, active, lazy)
       \/ UpdateDevice(r, d, active, lazy)
       \/ \E fields \in 1..2 : PutDevice(r, d, active, lazy, fields)
  \/ \E r \in Req, d \in DeviceId :
       UnregisterDevice(r, d) \/ Subscribe(r, d) \/ Unsubscribe(r, d)
  \/ ClearRegistry

Callback(r, a) ==
  \/ OnRegistered(r, a) \/ StoreDevice(r, a) \/ OnRefused(r, a) \/ Combine(r, a)
  \/ OnUpdated(r, a) \/ OnExpired(r, a) \/ OnSubscribed(r, a) \/ OnUnsubscribed(r, a)

Task(r) ==
  \/ GetOld(r) \/ SendDifference(r) \/ SendUpdate(r) \/ OnNothingToUpdate(r)
  \/ ReplaceDevice(r) \/ SendUnsubscriptions(r) \/ SendExpire(r) \/ RemoveUnregistered(r)

Agent == \E r \in Req : Task(r) \/ \E a \in answers : Callback(r, a)

Broker == \E m \in sent : BrokerAccepts(m) \/ BrokerFails(m)

Next == Client \/ Agent \/ Broker

Spec == Init /\ [][Next]_vars

\* The event loop runs every task and callback that is due, and every request
\* to the Context Broker is answered or fails; clients call when they like.
FairSpec == Spec /\ WF_vars(Agent) /\ WF_vars(Broker)

----------------------------------------------------------------------------
\* Properties

\* Every variable holds values of its kind.
TypeOK ==
  /\ registered \in [DeviceId -> Ref]
  /\ heap \in [Req -> Device]
  /\ lists \in [Req -> Seq(Req)]
  /\ call \in [Req -> Call]
  /\ sent \subseteq Message
  /\ answers \subseteq Answer
  /\ registrations \subseteq Req
  /\ subscriptions \subseteq Req
  /\ entity \in [DeviceId -> SUBSET Attr]
  /\ failures \in 0..MaxFailures

\* The Context Broker's entity has every active attribute of the registered
\* device, however the calls about it overlapped and failed, so that measures
\* can be sent as updates (createInitialEntity's purpose, deviceService.js 203-205).
EntityCoversRegistry ==
  \A d \in DeviceId :
    registered[d] # None => heap[registered[d]].active \subseteq entity[d]

\* Registering never takes over an id that is in use: two overlapping calls
\* for one id both reach the store, and only the first is kept.
RegisterNeverReplaces ==
  [][\A r \in Req :
       /\ call[r].op = "register" /\ call[r].at # "ok" /\ call'[r].at = "ok"
       => registered[call[r].dev] = None]_vars

\* Nothing is under way for d.
Quiet(d) == \A r \in Req : call[r].dev = d => ~Busy(r)

LiveRegistrations(d) == {i \in registrations : call[i].dev = d}
LiveSubscriptions(d) == {i \in subscriptions : call[i].dev = d}

\* Registrations left by a register call whose id turned out to be taken.
LeftByRefusedRegister(d) ==
  {i \in LiveRegistrations(d) : call[i].op = "register" /\ call[i].at = "error"}

KnownRegistrations(d) ==
  IF registered[d] = None THEN {} ELSE {heap[registered[d]].registrationId} \ {None}

KnownSubscriptions(d) ==
  IF registered[d] = None THEN {}
  ELSE {ListOf(registered[d])[i] : i \in DOMAIN ListOf(registered[d])}

\* With clients that wait for answers, and until a call to it fails, the
\* registry and the Context Broker agree about a device whenever nothing is
\* under way: the live registration and subscriptions are those the registry lists, and
\* none is left for a device that is not registered.
RegistryMatchesBroker ==
  failures = 0 => \A d \in DeviceId : Quiet(d) =>
    /\ LiveRegistrations(d) \ LeftByRefusedRegister(d) = KnownRegistrations(d)
    /\ LiveSubscriptions(d) = KnownSubscriptions(d)

\* A device leaves the registry by unregisterDevice only once the Context
\* Broker has let go of the registration the registry knew, whatever failed
\* or was retried before.
RemovedOnlyWhenExpired ==
  [][\A r \in Req :
       /\ call[r].op = "unregister" /\ call[r].at # "ok" /\ call'[r].at = "ok"
       /\ heap[call[r].old].lazy
       => heap[call[r].old].registrationId \notin registrations']_vars

\* Every call ends: its client is answered, or an exception lost it.
EveryCallEnds == \A r \in Req : Busy(r) ~> ~Busy(r)

\* A removed device stays removed until it is registered again
\* (unregisterDevice: "Unregister a device from the Context broker and the
\* internal registry.", deviceService.js 362).
UnregisteredStaysGone ==
  [][\A d \in DeviceId :
       registered[d] = None /\ registered'[d] # None
       => \E r \in Req : call[r].op = "register" /\ registered'[d] = r]_vars

\* Unsubscribing removes from the registry the subscription it was given
\* ("Remove the subscription with the given ID from the Context Broker and
\* from the device repository.", subscriptionService.js 167).
UnsubscribedIsForgotten ==
  \A r \in Req :
    call[r].op = "unsubscribe" /\ call[r].at = "ok"
    => call[r].new \notin KnownSubscriptions(call[r].dev)

\* An update that succeeds has created the attributes it adds ("If new active
\* attributes are created, the entity will be updated creating the new
\* attributes.", deviceService.js 394-395).
UpdateCreatesAttributes ==
  \A r \in Req :
    /\ call[r].op \in {"put", "updateRegister"} /\ call[r].at = "ok"
    /\ registered[call[r].dev] = r
    => heap[r].active \subseteq entity[call[r].dev]
=============================================================================
