---------------------------- MODULE MongoDevices ----------------------------
(* The device directory over the MongoDB registry: deviceService.js,       *)
(* subscriptionService.js and PUT and DELETE of the provisioning API, with *)
(* deviceRegistryMongoDB.js behind them instead of the memory registry of  *)
(* module DeviceService.                                                   *)
(*                                                                         *)
(* The registry hands out copies, looks a device up and saves it in two    *)
(* requests, and writes three fields only; documents outlive the process.  *)
(* One action is the answer to one request, of the database or the Context *)
(* Broker, with the tasks up to the next request: in between, a call       *)
(* changes nothing but its own copies.  Devices have no commands, and the  *)
(* database is not cleared (which would drop the unique index with it).    *)
EXTENDS Naturals

CONSTANTS
    DeviceId,       \* device ids; the entity's name and type follow from it
    Attr,           \* names of active attributes
    Req,            \* the calls clients may make, each once (bound)
    Ops,            \* which operations this instance's clients call
    Overlap,        \* may a client call about a device before the last answer?
    MaxFaults,      \* how many requests may fail, or processes be killed (bound)
    None            \* JavaScript's undefined

ASSUME MongoAssumption ==
    /\ None \notin Req \union DeviceId
    /\ Ops \subseteq {"register", "unregister", "put", "updateRegister", "subscribe",
                      "unsubscribe"}
    /\ Overlap \in BOOLEAN
    /\ MaxFaults \in Nat

VARIABLES
    documents,      \* the collection: the document of each id, or None
    call,           \* each call: its request under way and its copies
    registrations,  \* live registrations in the Context Broker, by creator
    subscriptions,  \* live subscriptions there, by creator
    entity,         \* the attributes of each device's entity there
    faults

broker == <<registrations, subscriptions, entity>>
vars == <<documents, call, broker, faults>>

\* _id is the database's own: the call that inserted the document.
Document == [active : SUBSET Attr, lazy : BOOLEAN, registrationId : Req \union {None},
             _id : Req \union {None}]

ASSUME NoneIsNoDocument == None \notin Document

Ended == {"ok", "error", "lost"}
AtDatabase == {"finding", "reading", "looking", "saving", "storing", "fetching", "removing"}
AtBroker == {"registering", "creating", "combining", "updating", "expiring",
             "subscribing", "unsubscribing"}

Call == [op : Ops \union {"none"}, dev : DeviceId \union {None},
         at : {"idle"} \union AtDatabase \union AtBroker \union Ended,
         device : Document \union {None}, found : Document \union {None},
         id : Req \union {None}]

NoCall == [op |-> "none", dev |-> None, at |-> "idle", device |-> None, found |-> None,
           id |-> None]

Init ==
    /\ documents = [d \in DeviceId |-> None]
    /\ call = [r \in Req |-> NoCall]
    /\ registrations = {} /\ subscriptions = {}
    /\ entity = [d \in DeviceId |-> {}]
    /\ faults = 0

Busy(r) == call[r].at \in AtDatabase \union AtBroker

Move(r, stage) == call' = [call EXCEPT ![r].at = stage]
Hold(r, field, document, stage) ==
    call' = [call EXCEPT ![r][field] = document, ![r].at = stage]

---------------------------------------------------------------------------
(* The calls, up to their first request.                                   *)
Begin(r, op, d, device, id, stage) ==
    /\ op \in Ops /\ call[r].at = "idle"
    /\ Overlap \/ \A q \in Req : call[q].dev = d => ~ Busy(q)
    /\ call' = [call EXCEPT ![r] = [NoCall EXCEPT !.op = op, !.dev = d, !.device = device,
                                                  !.id = id, !.at = stage]]
    /\ UNCHANGED <<documents, broker, faults>>

NewDevice(active, lazy) ==
    [active |-> active, lazy |-> lazy, registrationId |-> None, _id |-> None]

RegisterDevice(r, d, device) ==
    Begin(r, "register", d, device, None, IF device.lazy THEN "registering" ELSE "creating")

UnregisterDevice(r, d) == Begin(r, "unregister", d, None, None, "finding")

(* PUT looks the device up first; its fields are in `device`.              *)
HandleUpdateDevice(r, d, device) == Begin(r, "put", d, device, None, "fetching")

UpdateRegisterDevice(r, d, device) ==
    Begin(r, "updateRegister", d, device, None, "reading")

(* The caller has a copy of the device, which never lists a subscription,  *)
(* and the id of the one to end from elsewhere.                            *)
Subscribe(r, d) ==
    documents[d] # None /\ Begin(r, "subscribe", d, documents[d], None, "subscribing")

Unsubscribe(r, d, id) ==
    /\ documents[d] # None /\ id \in subscriptions /\ call[id].dev = d
    /\ Begin(r, "unsubscribe", d, documents[d], id, "unsubscribing")

---------------------------------------------------------------------------
(* The Context Broker's answers and what the tasks do with them.           *)
IdOr(r, id) == IF id = None THEN r ELSE id

(* A variant to be told apart: the difference taken the wrong way round.   *)
MissingReversed(new, old) == old.active \ new.active

(* extractDeviceDifference: the active attributes to be created.           *)
Missing(new, old) == new.active \ old.active

(* What createInitialEntity has been sent with.                            *)
Sent(r) ==
    IF call[r].at = "creating" THEN call[r].device.active
    ELSE Missing(call[r].device, call[r].found)

EntityTakes(r) == entity' = [entity EXCEPT ![call[r].dev] = @ \union Sent(r)]

OnRegistered(r) ==
    /\ call[r].at = "registering"
    /\ registrations' = registrations \union {r}
    /\ Hold(r, "device", [call[r].device EXCEPT !.registrationId = r], "creating")
    /\ UNCHANGED <<documents, subscriptions, entity, faults>>

OnCreated(r) ==
    /\ call[r].at = "creating"
    /\ EntityTakes(r)
    /\ Move(r, "storing")
    /\ UNCHANGED <<documents, registrations, subscriptions, faults>>

(* combineWithNewDevice, then a registration request if there is something *)
(* to register.                                                            *)
OnCombining(r) ==
    /\ call[r].at = "combining"
    /\ EntityTakes(r)
    /\ Move(r, IF call[r].device.lazy THEN "updating" ELSE "looking")
    /\ UNCHANGED <<documents, registrations, subscriptions, faults>>

(* The request names the registration the old device had; the answer's id  *)
(* goes into a copy of the caller's device, of which update will not save  *)
(* it.                                                                     *)
OnUpdated(r) ==
    LET id == call[r].found.registrationId
    IN  /\ call[r].at = "updating"
        /\ id \in registrations \union {None}
        /\ registrations' = registrations \union {IdOr(r, id)}
        /\ Hold(r, "device", [call[r].device EXCEPT !.registrationId = IdOr(r, id)], "looking")
        /\ UNCHANGED <<documents, subscriptions, entity, faults>>

OnSubscribed(r) ==
    /\ call[r].at \in {"subscribing", "unsubscribing"}
    /\ subscriptions' = IF call[r].at = "subscribing" THEN subscriptions \union {r}
                        ELSE subscriptions \ {call[r].id}
    /\ Move(r, "looking")
    /\ UNCHANGED <<documents, registrations, entity, faults>>

OnExpired(r) ==
    /\ call[r].at = "expiring"
    /\ registrations' = registrations \ {call[r].found.registrationId}
    /\ Move(r, "removing")
    /\ UNCHANGED <<documents, subscriptions, entity, faults>>

(* What the broker does with a request whose answer is lost.               *)
Effect(r) ==
    CASE call[r].at \in {"creating", "combining"} ->
           EntityTakes(r) /\ UNCHANGED <<registrations, subscriptions>>
      [] call[r].at = "registering" ->
           registrations' = registrations \union {r} /\ UNCHANGED <<subscriptions, entity>>
      [] call[r].at = "updating" ->
           /\ registrations' = IF call[r].found.registrationId = None
                                 THEN registrations \union {r} ELSE registrations
           /\ UNCHANGED <<subscriptions, entity>>
      [] call[r].at = "subscribing" ->
           subscriptions' = subscriptions \union {r} /\ UNCHANGED <<registrations, entity>>
      [] call[r].at = "unsubscribing" ->
           subscriptions' = subscriptions \ {call[r].id} /\ UNCHANGED <<registrations, entity>>
      [] OTHER ->
           /\ registrations' = registrations \ {call[r].found.registrationId}
           /\ UNCHANGED <<subscriptions, entity>>

(* A request fails, or names a registration that is not there.  For the    *)
(* subscription handlers an empty answer is no error.                      *)
BrokerFails(r) ==
    /\ call[r].at \in AtBroker
    /\ \/ faults < MaxFaults /\ faults' = faults + 1
       \/ /\ call[r].at = "updating"
          /\ call[r].found.registrationId \notin registrations \union {None}
          /\ UNCHANGED faults
    /\ Effect(r) \/ UNCHANGED broker
    /\ \/ Move(r, "error")
       \/ call[r].at \in {"subscribing", "unsubscribing"} /\ Move(r, "ok")
    /\ UNCHANGED documents

---------------------------------------------------------------------------
(* The database's answers and what the tasks do with them.                 *)

(* A variant to be told apart: without updateRegisterDevice's own get.     *)
UpdateAtOnce == "combining"

(* updateRegisterDevice reads the device again.                            *)
UpdateFrom == "reading"

(* handleUpdateDevice: the fields of the body go into the copy; a body of  *)
(* one field throws in the callback, and nobody answers.                   *)
OnFetched(r) ==
    LET document == documents[call[r].dev]
    IN  /\ call[r].at = "fetching"
        /\ IF document = None THEN Move(r, "error")
           ELSE \/ Hold(r, "device", [call[r].device EXCEPT !.registrationId =
                                        document.registrationId], UpdateFrom)
                \/ Move(r, "lost")
        /\ UNCHANGED <<documents, broker, faults>>

(* updateRegisterDevice: get, extractDeviceDifference.                     *)
OnRead(r) ==
    LET document == documents[call[r].dev]
    IN  /\ call[r].at = "reading"
        /\ IF document = None THEN Move(r, "error") ELSE Hold(r, "found", document, "combining")
        /\ UNCHANGED <<documents, broker, faults>>

(* store: the unique index on the id refuses a second document.            *)
Insert(r) ==
    /\ documents[call[r].dev] = None
    /\ documents' = [documents EXCEPT ![call[r].dev] = [call[r].device EXCEPT !._id = r]]

OnStored(r) ==
    /\ call[r].at = "storing"
    /\ \/ Insert(r) /\ Move(r, "ok")
       \/ documents[call[r].dev] # None /\ UNCHANGED documents /\ Move(r, "error")
    /\ UNCHANGED <<broker, faults>>

(* update: first the document is looked up,                                *)
OnLooked(r) ==
    LET document == documents[call[r].dev]
    IN  /\ call[r].at = "looking"
        /\ IF document = None THEN Move(r, "error") ELSE Hold(r, "found", document, "saving")
        /\ UNCHANGED <<documents, broker, faults>>

(* then the fields that differ from it are written into it, as it is now.  *)
Written(r, document) ==
    LET new == call[r].device  old == call[r].found
    IN  [document EXCEPT !.active = IF new.active = old.active THEN @ ELSE new.active,
                         !.lazy = IF new.lazy = old.lazy THEN @ ELSE new.lazy]

(* It may be gone, or another of the same device may have taken its place. *)
Gone(r) ==
    LET document == documents[call[r].dev]
    IN  document # None => document._id # call[r].found._id

(* A variant to be told apart: what is not there is made.                  *)
Upsert(r) ==
    documents' = [documents EXCEPT ![call[r].dev] =
                    IF Gone(r) THEN call[r].device ELSE Written(r, @)]
Save(r) ==
    documents' = [documents EXCEPT ![call[r].dev] = IF Gone(r) THEN @ ELSE Written(r, @)]

(* Whether a save that finds no document is an error depends on the        *)
(* version of mongoose.                                                    *)
OnSaved(r) ==
    /\ call[r].at = "saving"
    /\ Save(r)
    /\ Move(r, "ok") \/ (Gone(r) /\ Move(r, "error"))
    /\ UNCHANGED <<broker, faults>>

(* sendRegistrations with a second's duration, if there is anything lazy.  *)
AfterFind(document) == IF document.lazy THEN "expiring" ELSE "removing"

(* unregisterDevice: a device that is not found is undefined, on which the *)
(* next task throws.                                                       *)
OnFound(r) ==
    LET document == documents[call[r].dev]
    IN  /\ call[r].at = "finding"
        /\ IF document = None THEN Move(r, "lost")
           ELSE Hold(r, "found", document, AfterFind(document))
        /\ UNCHANGED <<documents, broker, faults>>

Remove(d) == documents' = [documents EXCEPT ![d] = None]

OnRemoved(r) ==
    /\ call[r].at = "removing"
    /\ Remove(call[r].dev)
    /\ Move(r, "ok")
    /\ UNCHANGED <<broker, faults>>

(* A database request fails, before or after its effect; unregisterDevice  *)
(* does not look at the error of its first.                                *)
DatabaseFails(r) ==
    /\ call[r].at \in AtDatabase
    /\ faults < MaxFaults /\ faults' = faults + 1
    /\ \/ UNCHANGED documents
       \/ call[r].at = "saving" /\ Save(r)
       \/ call[r].at = "storing" /\ Insert(r)
       \/ call[r].at = "removing" /\ Remove(call[r].dev)
    /\ Move(r, IF call[r].at = "finding" THEN "lost" ELSE "error")
    /\ UNCHANGED broker

(* The process is killed and started again: its calls are gone, the        *)
(* collection stays.                                                       *)
Crash ==
    /\ faults < MaxFaults /\ faults' = faults + 1
    /\ \E r \in Req : Busy(r)
    /\ call' = [r \in Req |-> IF Busy(r) THEN [call[r] EXCEPT !.at = "lost"] ELSE call[r]]
    /\ UNCHANGED <<documents, broker>>

---------------------------------------------------------------------------
Client(r, d) ==
    \/ \E active \in SUBSET Attr, lazy \in BOOLEAN :
         \/ RegisterDevice(r, d, NewDevice(active, lazy))
         \/ HandleUpdateDevice(r, d, NewDevice(active, lazy))
         \/ UpdateRegisterDevice(r, d, NewDevice(active, lazy))
    \/ UnregisterDevice(r, d) \/ Subscribe(r, d) \/ \E id \in Req : Unsubscribe(r, d, id)

Answered(r) ==
    \/ OnRegistered(r) \/ OnCreated(r) \/ OnCombining(r) \/ OnUpdated(r)
    \/ OnSubscribed(r) \/ OnExpired(r) \/ BrokerFails(r)
    \/ OnFetched(r) \/ OnRead(r) \/ OnStored(r) \/ OnLooked(r) \/ OnSaved(r)
    \/ OnFound(r) \/ OnRemoved(r) \/ DatabaseFails(r)

Next ==
    \/ \E r \in Req, d \in DeviceId : Client(r, d)
    \/ \E r \in Req : Answered(r)
    \/ Crash

Spec == Init /\ [][Next]_vars

---------------------------------------------------------------------------
(* Every variable holds values of its kind, and a call holds the documents *)
(* its next task reads.                                                    *)
TypeOK ==
    /\ documents \in [DeviceId -> Document \union {None}]
    /\ call \in [Req -> Call]
    /\ registrations \subseteq Req /\ subscriptions \subseteq Req
    /\ entity \in [DeviceId -> SUBSET Attr]
    /\ faults \in 0 .. MaxFaults
    /\ \A r \in Req :
         /\ call[r].at \in {"combining", "updating", "saving", "expiring"} => call[r].found # None
         /\ call[r].at \in {"registering", "creating", "storing", "combining", "updating",
                            "looking", "saving"} => call[r].device # None

(* The Context Broker's entity has every active attribute of the stored    *)
(* device, PUT, stale copies and crashes included (createInitialEntity is  *)
(* there so that measures can be sent as updates, deviceService.js 203).   *)
EntityCoversDocument ==
    \A d \in DeviceId : documents[d] # None => documents[d].active \subseteq entity[d]

(* An update, or the answer to a subscription, that was under way while    *)
(* its device was removed never stores it again: only the store of a       *)
(* registration makes a document (update, storeDevice).                    *)
RemovedStaysRemoved ==
    [][\A d \in DeviceId : documents[d] = None /\ documents'[d] # None =>
         \E r \in Req : call[r].op = "register" /\ call[r].dev = d /\ call[r].at = "storing"]_vars

(* An update creates a registration only if the device has none ("The      *)
(* registration for the lazy attributes of the updated entity will be      *)
(* updated if existing, and created if not.", deviceService.js 393-394):   *)
(* none of the call that stored it, and none of an earlier update.         *)
UpdatedIfExisting ==
    [][\A r \in Req :
         call[r].at = "updating" /\ r \notin registrations /\ r \in registrations' =>
           \A q \in registrations : call[q].dev = call[r].dev =>
             call[q].op = "register" /\ call[q].at # "ok"]_vars
==============================================================================
