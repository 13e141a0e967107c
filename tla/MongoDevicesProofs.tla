-------------------------- MODULE MongoDevicesProofs --------------------------
(***************************************************************************)
(* Proofs about MongoDevices, for any devices, overlapping calls, failing  *)
(* requests and killed processes: its types, that the broker's entity has  *)
(* every active attribute of the stored device, and that nothing but a     *)
(* registration stores a device.                                           *)
(***************************************************************************)
EXTENDS MongoDevices, TLAPS

Stages == {"idle"} \union AtDatabase \union AtBroker \union Ended

\* The variables hold values of their kind.
StateInv ==
  /\ documents \in [DeviceId -> Document \union {None}]
  /\ registrations \subseteq Req /\ subscriptions \subseteq Req
  /\ entity \in [DeviceId -> SUBSET Attr]
  /\ faults \in 0 .. MaxFaults

\* A call is about a device and holds the documents its next tasks read; only
\* a registration is about to store one.
CallHolds(r) ==
  /\ call[r].at # "idle" => call[r].dev \in DeviceId
  /\ call[r].at \in {"combining", "updating", "saving", "expiring"} => call[r].found # None
  /\ call[r].at \in {"registering", "creating", "storing", "combining", "updating", "looking",
                     "saving", "fetching", "reading", "subscribing", "unsubscribing"} =>
       call[r].device # None
  /\ call[r].at \in {"registering", "creating", "storing"} => call[r].op = "register"

\* What a call may still write is covered already, from the answer of the request
\* that created its new attributes on; what it compares with was covered when it
\* was read, and no attribute leaves an entity.
CallCovered(r) ==
  /\ call[r].at \in {"storing", "looking", "saving", "updating", "subscribing",
                     "unsubscribing"} => call[r].device.active \subseteq entity[call[r].dev]
  /\ call[r].at = "combining" => call[r].found.active \subseteq entity[call[r].dev]

MongoInv ==
  /\ StateInv
  /\ call \in [Req -> Call]
  /\ \A r \in Req : CallHolds(r) /\ CallCovered(r)
  /\ EntityCoversDocument

----------------------------------------------------------------------------
\* What the steps do to a call.

LEMMA MoveEffect ==
  ASSUME call \in [Req -> Call], NEW r \in Req, NEW stage \in Stages, Move(r, stage)
  PROVE  /\ call' \in [Req -> Call]
         /\ \A q \in Req \ {r} : call'[q] = call[q]
         /\ call'[r].at = stage
         /\ call'[r].op = call[r].op /\ call'[r].dev = call[r].dev
         /\ call'[r].device = call[r].device /\ call'[r].found = call[r].found
<1>1. call[r] \in Call
  OBVIOUS
<1> DEFINE now == [call[r] EXCEPT !.at = stage]
<1>2. /\ now \in Call /\ now.at = stage /\ now.op = call[r].op /\ now.dev = call[r].dev
      /\ now.device = call[r].device /\ now.found = call[r].found
  BY <1>1 DEF Call, Stages
<1>3. call' = [call EXCEPT ![r] = now]
  BY DEF Move
<1> HIDE DEF now
<1> QED
  BY <1>2, <1>3

LEMMA HoldDeviceEffect ==
  ASSUME call \in [Req -> Call], NEW r \in Req, NEW stage \in Stages, NEW document \in Document,
         Hold(r, "device", document, stage)
  PROVE  /\ call' \in [Req -> Call]
         /\ \A q \in Req \ {r} : call'[q] = call[q]
         /\ call'[r].at = stage
         /\ call'[r].op = call[r].op /\ call'[r].dev = call[r].dev
         /\ call'[r].device = document /\ call'[r].found = call[r].found
<1>1. call[r] \in Call
  OBVIOUS
<1> DEFINE now == [call[r] EXCEPT !.device = document, !.at = stage]
<1>2. /\ now \in Call /\ now.at = stage /\ now.op = call[r].op /\ now.dev = call[r].dev
      /\ now.device = document /\ now.found = call[r].found
  BY <1>1 DEF Call, Stages
<1>3. call' = [call EXCEPT ![r] = now]
  BY DEF Hold
<1> HIDE DEF now
<1> QED
  BY <1>2, <1>3

LEMMA HoldFoundEffect ==
  ASSUME call \in [Req -> Call], NEW r \in Req, NEW stage \in Stages, NEW document \in Document,
         Hold(r, "found", document, stage)
  PROVE  /\ call' \in [Req -> Call]
         /\ \A q \in Req \ {r} : call'[q] = call[q]
         /\ call'[r].at = stage
         /\ call'[r].op = call[r].op /\ call'[r].dev = call[r].dev
         /\ call'[r].device = call[r].device /\ call'[r].found = document
<1>1. call[r] \in Call
  OBVIOUS
<1> DEFINE now == [call[r] EXCEPT !.found = document, !.at = stage]
<1>2. /\ now \in Call /\ now.at = stage /\ now.op = call[r].op /\ now.dev = call[r].dev
      /\ now.device = call[r].device /\ now.found = document
  BY <1>1 DEF Call, Stages
<1>3. call' = [call EXCEPT ![r] = now]
  BY DEF Hold
<1> HIDE DEF now
<1> QED
  BY <1>2, <1>3

\* A step of one call keeps the invariant of the others: entities only grow.
LEMMA StepInv ==
  ASSUME MongoInv, NEW r \in Req, call' \in [Req -> Call],
         \A q \in Req \ {r} : call'[q] = call[q],
         StateInv', \A d \in DeviceId : entity[d] \subseteq entity'[d],
         CallHolds(r)', CallCovered(r)', EntityCoversDocument'
  PROVE  MongoInv'
<1>1. ASSUME NEW q \in Req \ {r} PROVE CallHolds(q)' /\ CallCovered(q)'
  <2>1. call'[q] = call[q] /\ CallHolds(q) /\ CallCovered(q)
    BY DEF MongoInv
  <2>2. call[q].at # "idle" => entity[call[q].dev] \subseteq entity'[call[q].dev]
    BY <2>1 DEF CallHolds
  <2> QED
    BY <2>1, <2>2 DEF CallHolds, CallCovered
<1> QED
  BY <1>1 DEF MongoInv

----------------------------------------------------------------------------
\* Every step keeps the invariant: the calls, up to their first request.

LEMMA BeginInv ==
  ASSUME MongoInv, NEW r \in Req, NEW op \in Ops, NEW d \in DeviceId,
         NEW device \in Document \union {None}, NEW id \in Req \union {None}, NEW stage \in Stages,
         Begin(r, op, d, device, id, stage),
         stage \in {"finding", "fetching", "reading", "registering", "creating", "subscribing",
                   "unsubscribing"},
         stage # "finding" => device # None,
         stage \in {"registering", "creating"} => op = "register",
         stage \in {"subscribing", "unsubscribing"} => device = documents[d]
  PROVE  MongoInv'
<1> DEFINE now == [NoCall EXCEPT !.op = op, !.dev = d, !.device = device, !.id = id, !.at = stage]
<1>1. /\ now \in Call /\ now.at = stage /\ now.op = op /\ now.dev = d /\ now.device = device
  BY DEF NoCall, Call, Stages
<1>2. call' = [call EXCEPT ![r] = now] /\ UNCHANGED <<documents, broker, faults>>
  BY DEF Begin
<1> HIDE DEF now
<1>3. /\ call' \in [Req -> Call] /\ call'[r] = now
      /\ \A q \in Req \ {r} : call'[q] = call[q]
  BY <1>1, <1>2 DEF MongoInv
<1>4. UNCHANGED <<documents, registrations, subscriptions, entity, faults>>
  BY <1>2 DEF broker
<1>5. CallHolds(r)' /\ CallCovered(r)'
  BY <1>1, <1>3, <1>4 DEF CallHolds, CallCovered, MongoInv, EntityCoversDocument
<1>6. StateInv' /\ EntityCoversDocument' /\ \A d2 \in DeviceId : entity[d2] \subseteq entity'[d2]
  BY <1>4 DEF MongoInv, StateInv, EntityCoversDocument
<1> QED
  BY <1>3, <1>5, <1>6, StepInv

LEMMA ClientInv ==
  ASSUME MongoInv, NEW r \in Req, NEW d \in DeviceId, Client(r, d)
  PROVE  MongoInv'
<1>1. \A active \in SUBSET Attr, lazy \in BOOLEAN :
        /\ NewDevice(active, lazy) \in Document /\ NewDevice(active, lazy) # None
  BY NoneIsNoDocument DEF NewDevice, Document
<1>2. documents[d] \in Document \union {None} /\ {"registering", "creating", "finding", "fetching",
        "reading", "subscribing", "unsubscribing"} \subseteq Stages
  BY DEF MongoInv, StateInv, Stages, AtDatabase, AtBroker
<1>3. ASSUME NEW active \in SUBSET Attr, NEW lazy \in BOOLEAN,
             RegisterDevice(r, d, NewDevice(active, lazy))
      PROVE  MongoInv'
  <2>1. "register" \in Ops
    BY <1>3 DEF RegisterDevice, Begin
  <2> QED
    BY <1>1, <1>2, <1>3, <2>1, BeginInv DEF RegisterDevice
<1>4. ASSUME NEW active \in SUBSET Attr, NEW lazy \in BOOLEAN,
             HandleUpdateDevice(r, d, NewDevice(active, lazy))
      PROVE  MongoInv'
  <2>1. "put" \in Ops
    BY <1>4 DEF HandleUpdateDevice, Begin
  <2> QED
    BY <1>1, <1>2, <1>4, <2>1, BeginInv DEF HandleUpdateDevice
<1>5. ASSUME NEW active \in SUBSET Attr, NEW lazy \in BOOLEAN,
             UpdateRegisterDevice(r, d, NewDevice(active, lazy))
      PROVE  MongoInv'
  <2>1. "updateRegister" \in Ops
    BY <1>5 DEF UpdateRegisterDevice, Begin
  <2> QED
    BY <1>1, <1>2, <1>5, <2>1, BeginInv DEF UpdateRegisterDevice
<1>6. CASE UnregisterDevice(r, d)
  <2>1. "unregister" \in Ops
    BY <1>6 DEF UnregisterDevice, Begin
  <2> QED
    BY <1>2, <1>6, <2>1, BeginInv DEF UnregisterDevice
<1>7. CASE Subscribe(r, d)
  <2>1. "subscribe" \in Ops /\ documents[d] # None
    BY <1>7 DEF Subscribe, Begin
  <2> QED
    BY <1>2, <1>7, <2>1, BeginInv DEF Subscribe
<1>8. ASSUME NEW id \in Req, Unsubscribe(r, d, id)
      PROVE  MongoInv'
  <2>1. "unsubscribe" \in Ops /\ documents[d] # None
    BY <1>8 DEF Unsubscribe, Begin
  <2> QED
    BY <1>2, <1>8, <2>1, BeginInv DEF Unsubscribe
<1> QED
  BY <1>3, <1>4, <1>5, <1>6, <1>7, <1>8 DEF Client

----------------------------------------------------------------------------
\* The Context Broker's answers.

LEMMA EntityGrows ==
  ASSUME MongoInv, NEW r \in Req, call[r].at \in {"creating", "combining"}, EntityTakes(r)
  PROVE  /\ entity' \in [DeviceId -> SUBSET Attr]
         /\ \A d \in DeviceId : entity[d] \subseteq entity'[d]
         /\ call[r].device.active \subseteq entity'[call[r].dev]
<1>1. /\ call[r] \in Call /\ call[r].dev \in DeviceId /\ call[r].device \in Document
      /\ entity \in [DeviceId -> SUBSET Attr]
  BY DEF MongoInv, StateInv, CallHolds, Call
<1>2. call[r].at = "combining" => call[r].found.active \subseteq entity[call[r].dev]
  BY DEF MongoInv, CallCovered
<1>3. entity' = [entity EXCEPT ![call[r].dev] = entity[call[r].dev] \union Sent(r)]
  BY DEF EntityTakes
<1>4. Sent(r) \subseteq Attr
  BY <1>1 DEF Sent, Missing, Document
<1>5. call[r].device.active \subseteq entity[call[r].dev] \union Sent(r)
  BY <1>2 DEF Sent, Missing
<1> QED
  BY <1>1, <1>3, <1>4, <1>5

LEMMA OnCreatedInv ==
  ASSUME MongoInv, NEW r \in Req, OnCreated(r) \/ OnCombining(r)
  PROVE  MongoInv'
<1>1. PICK stage \in {"storing", "updating", "looking"} :
        /\ Move(r, stage)
        /\ stage = "storing" => call[r].at = "creating"
        /\ stage # "storing" => call[r].at = "combining"
  BY DEF OnCreated, OnCombining
<1>2. /\ EntityTakes(r) /\ UNCHANGED <<documents, registrations, subscriptions, faults>>
      /\ call[r].at \in {"creating", "combining"}
  BY DEF OnCreated, OnCombining
<1>3. stage \in Stages
  BY <1>1 DEF Stages, AtDatabase, AtBroker
<1>4. /\ call' \in [Req -> Call] /\ \A q \in Req \ {r} : call'[q] = call[q]
      /\ call'[r].at = stage /\ call'[r].op = call[r].op /\ call'[r].dev = call[r].dev
      /\ call'[r].device = call[r].device /\ call'[r].found = call[r].found
  BY <1>1, <1>3, MoveEffect DEF MongoInv
<1>5. /\ entity' \in [DeviceId -> SUBSET Attr]
      /\ \A d \in DeviceId : entity[d] \subseteq entity'[d]
      /\ call[r].device.active \subseteq entity'[call[r].dev]
  BY <1>2, EntityGrows
<1>6. CallHolds(r)
  BY DEF MongoInv
<1>7. CallHolds(r)'
  BY <1>1, <1>4, <1>6 DEF CallHolds
<1>8. CallCovered(r)'
  BY <1>1, <1>4, <1>5 DEF CallCovered
<1>9. StateInv' /\ EntityCoversDocument'
  BY <1>2, <1>5 DEF MongoInv, StateInv, EntityCoversDocument
<1> QED
  BY <1>4, <1>5, <1>7, <1>8, <1>9, StepInv

\* The steps that leave the collection and the entities alone and hold no new copy.
LEMMA MoveInv ==
  ASSUME MongoInv, NEW r \in Req, NEW stage \in Stages, Move(r, stage),
         UNCHANGED <<documents, entity>>, registrations' \subseteq Req,
         subscriptions' \subseteq Req, faults' \in 0 .. MaxFaults,
         \/ stage \in {"ok", "error", "lost", "removing"} /\ call[r].at # "idle"
         \/ stage = "looking" /\ call[r].at \in {"subscribing", "unsubscribing"}
  PROVE  MongoInv'
<1>1. /\ call' \in [Req -> Call] /\ \A q \in Req \ {r} : call'[q] = call[q]
      /\ call'[r].at = stage /\ call'[r].op = call[r].op /\ call'[r].dev = call[r].dev
      /\ call'[r].device = call[r].device /\ call'[r].found = call[r].found
  BY MoveEffect DEF MongoInv
<1>2. CallHolds(r) /\ CallCovered(r)
  BY DEF MongoInv
<1>3. CallHolds(r)' /\ CallCovered(r)'
  BY <1>1, <1>2 DEF CallHolds, CallCovered
<1>4. StateInv' /\ EntityCoversDocument' /\ \A d \in DeviceId : entity[d] \subseteq entity'[d]
  BY DEF MongoInv, StateInv, EntityCoversDocument
<1> QED
  BY <1>1, <1>3, <1>4, StepInv

LEMMA OnRegisteredInv ==
  ASSUME MongoInv, NEW r \in Req, OnRegistered(r) \/ OnUpdated(r)
  PROVE  MongoInv'
<1> DEFINE copy(id) == [call[r].device EXCEPT !.registrationId = id]
<1>1. PICK id \in Req \union {None}, stage \in {"creating", "looking"} :
        /\ Hold(r, "device", copy(id), stage)
        /\ stage = "creating" => call[r].at = "registering"
        /\ stage = "looking" => call[r].at = "updating"
        /\ id \in Req
        /\ registrations' = registrations \union {id}
  <2>1. registrations \subseteq Req
    BY DEF MongoInv, StateInv
  <2> QED
    BY <2>1 DEF OnRegistered, OnUpdated, IdOr
<1>2. /\ UNCHANGED <<documents, subscriptions, entity, faults>>
      /\ call[r].at \in {"registering", "updating"}
  BY DEF OnRegistered, OnUpdated
<1>3. stage \in Stages /\ CallHolds(r) /\ CallCovered(r) /\ call[r] \in Call
  BY <1>1 DEF Stages, AtDatabase, AtBroker, MongoInv
<1>4. call[r].device \in Document
  BY <1>2, <1>3 DEF CallHolds, Call
<1>5. copy(id) \in Document /\ copy(id).active = call[r].device.active
  BY <1>4 DEF Document
<1>6. copy(id) # None
  BY <1>5, NoneIsNoDocument
<1> HIDE DEF copy
<1>7. /\ call' \in [Req -> Call] /\ \A q \in Req \ {r} : call'[q] = call[q]
      /\ call'[r].at = stage /\ call'[r].op = call[r].op /\ call'[r].dev = call[r].dev
      /\ call'[r].device = copy(id) /\ call'[r].found = call[r].found
  BY <1>1, <1>3, <1>5, HoldDeviceEffect DEF MongoInv
<1>8. CallHolds(r)' /\ CallCovered(r)'
  BY <1>1, <1>2, <1>3, <1>5, <1>6, <1>7 DEF CallHolds, CallCovered
<1>9. StateInv' /\ EntityCoversDocument' /\ \A d \in DeviceId : entity[d] \subseteq entity'[d]
  BY <1>1, <1>2 DEF MongoInv, StateInv, EntityCoversDocument
<1> QED
  BY <1>7, <1>8, <1>9, StepInv

LEMMA OnSubscribedInv ==
  ASSUME MongoInv, NEW r \in Req, OnSubscribed(r) \/ OnExpired(r)
  PROVE  MongoInv'
<1>1. registrations \subseteq Req /\ subscriptions \subseteq Req /\ faults \in 0 .. MaxFaults
  BY DEF MongoInv, StateInv
<1>2. /\ UNCHANGED <<documents, entity>> /\ registrations' \subseteq Req
      /\ subscriptions' \subseteq Req /\ faults' \in 0 .. MaxFaults
  BY <1>1 DEF OnSubscribed, OnExpired
<1>3. {"looking", "removing"} \subseteq Stages
  BY DEF Stages, AtDatabase
<1> QED
  BY <1>2, <1>3, MoveInv DEF OnSubscribed, OnExpired

\* What the broker does with a request that is not answered.
LEMMA EffectKeeps ==
  ASSUME MongoInv, NEW r \in Req, Effect(r) \/ UNCHANGED broker, call[r].at \in AtBroker
  PROVE  /\ registrations' \subseteq Req /\ subscriptions' \subseteq Req
         /\ entity' \in [DeviceId -> SUBSET Attr]
         /\ \A d \in DeviceId : entity[d] \subseteq entity'[d]
<1>1. registrations \subseteq Req /\ subscriptions \subseteq Req /\ entity \in [DeviceId -> SUBSET Attr]
  BY DEF MongoInv, StateInv
<1>2. CASE UNCHANGED broker
  BY <1>1, <1>2 DEF broker
<1>3. CASE Effect(r) /\ call[r].at \in {"creating", "combining"}
  <2>1. EntityTakes(r) /\ UNCHANGED <<registrations, subscriptions>>
    BY <1>3 DEF Effect
  <2> QED
    BY <1>1, <1>3, <2>1, EntityGrows
<1>4. CASE Effect(r) /\ call[r].at \notin {"creating", "combining"}
  BY <1>1, <1>4 DEF Effect, AtBroker
<1> QED
  BY <1>2, <1>3, <1>4

LEMMA BrokerFailsInv ==
  ASSUME MongoInv, NEW r \in Req, BrokerFails(r)
  PROVE  MongoInv'
<1>1. PICK stage \in {"error", "ok"} : Move(r, stage)
  BY DEF BrokerFails
<1>2. documents' = documents /\ faults' \in 0 .. MaxFaults /\ call[r].at \in AtBroker
  BY MongoAssumption DEF BrokerFails, MongoInv, StateInv
<1>3. /\ registrations' \subseteq Req /\ subscriptions' \subseteq Req
      /\ entity' \in [DeviceId -> SUBSET Attr]
      /\ \A d \in DeviceId : entity[d] \subseteq entity'[d]
  BY <1>2, EffectKeeps DEF BrokerFails
<1>4. /\ call' \in [Req -> Call] /\ \A q \in Req \ {r} : call'[q] = call[q]
      /\ call'[r].at = stage /\ call'[r].dev = call[r].dev
  BY <1>1, MoveEffect DEF MongoInv, Stages, Ended
<1>5. CallHolds(r) /\ call[r].at # "idle"
  BY <1>2 DEF MongoInv, AtBroker
<1>6. CallHolds(r)' /\ CallCovered(r)'
  BY <1>1, <1>4, <1>5 DEF CallHolds, CallCovered
<1>7. StateInv' /\ EntityCoversDocument'
  BY <1>2, <1>3 DEF MongoInv, StateInv, EntityCoversDocument
<1> QED
  BY <1>3, <1>4, <1>6, <1>7, StepInv

----------------------------------------------------------------------------
\* The database's answers.

\* A call goes on without a copy, and the collection stays.
LEMMA EndInv ==
  ASSUME MongoInv, NEW r \in Req, NEW stage \in {"ok", "error", "lost"}, Move(r, stage),
         call[r].at # "idle", UNCHANGED <<documents, broker, faults>>
  PROVE  MongoInv'
<1>1. /\ UNCHANGED <<documents, entity>> /\ registrations' \subseteq Req
      /\ subscriptions' \subseteq Req /\ faults' \in 0 .. MaxFaults
  BY DEF MongoInv, StateInv, broker
<1>2. stage \in Stages
  BY DEF Stages, Ended
<1> QED
  BY <1>1, <1>2, MoveInv

\* A copy of the stored document is covered.
LEMMA HoldFoundInv ==
  ASSUME MongoInv, NEW r \in Req, NEW stage \in {"combining", "saving", "expiring", "removing"},
         documents[call[r].dev] # None, Hold(r, "found", documents[call[r].dev], stage),
         call[r].at # "idle", UNCHANGED <<documents, broker, faults>>,
         stage = "combining" => call[r].at = "reading",
         stage = "saving" => call[r].at = "looking"
  PROVE  MongoInv'
<1> DEFINE document == documents[call[r].dev]
<1>1. CallHolds(r) /\ CallCovered(r) /\ EntityCoversDocument /\ StateInv /\ call \in [Req -> Call]
  BY DEF MongoInv
<1>2. /\ document \in Document /\ document.active \subseteq entity[call[r].dev]
      /\ document # None
  BY <1>1 DEF CallHolds, StateInv, EntityCoversDocument
<1>3. stage \in Stages
  BY DEF Stages, AtDatabase, AtBroker
<1> HIDE DEF document
<1>4. /\ call' \in [Req -> Call] /\ \A q \in Req \ {r} : call'[q] = call[q]
      /\ call'[r].at = stage /\ call'[r].op = call[r].op /\ call'[r].dev = call[r].dev
      /\ call'[r].device = call[r].device /\ call'[r].found = document
  BY <1>1, <1>2, <1>3, HoldFoundEffect DEF document
<1>5. UNCHANGED <<documents, registrations, subscriptions, entity, faults>>
  BY DEF broker
<1>6. CallHolds(r)' /\ CallCovered(r)'
  BY <1>1, <1>2, <1>4, <1>5 DEF CallHolds, CallCovered
<1>7. StateInv' /\ EntityCoversDocument' /\ \A d \in DeviceId : entity[d] \subseteq entity'[d]
  BY <1>1, <1>5 DEF StateInv, EntityCoversDocument
<1> QED
  BY <1>4, <1>6, <1>7, StepInv

LEMMA OnFetchedInv == ASSUME MongoInv, NEW r \in Req, OnFetched(r) PROVE MongoInv'
<1> DEFINE document == documents[call[r].dev]
           copy == [call[r].device EXCEPT !.registrationId = document.registrationId]
<1>1. call[r].at = "fetching" /\ UNCHANGED <<documents, broker, faults>>
  BY DEF OnFetched
<1>2. CASE Move(r, "error") \/ Move(r, "lost")
  BY <1>1, <1>2, EndInv
<1>3. CASE document # None /\ Hold(r, "device", copy, "reading")
  <2>1. CallHolds(r) /\ call[r] \in Call /\ document \in Document
    BY <1>1, <1>3 DEF MongoInv, StateInv, CallHolds
  <2>2. call[r].device \in Document
    BY <1>1, <2>1 DEF CallHolds, Call
  <2>3. copy \in Document /\ "reading" \in Stages
    BY <2>1, <2>2 DEF Document, Stages, AtDatabase
  <2>4. copy # None
    BY <2>3, NoneIsNoDocument
  <2> HIDE DEF copy, document
  <2>5. /\ call' \in [Req -> Call] /\ \A q \in Req \ {r} : call'[q] = call[q]
        /\ call'[r].at = "reading" /\ call'[r].dev = call[r].dev
        /\ call'[r].device = copy
    BY <1>3, <2>3, HoldDeviceEffect DEF MongoInv
  <2>6. CallHolds(r)' /\ CallCovered(r)'
    BY <1>1, <2>1, <2>4, <2>5 DEF CallHolds, CallCovered
  <2>7. StateInv' /\ EntityCoversDocument' /\ \A d \in DeviceId : entity[d] \subseteq entity'[d]
    BY <1>1 DEF MongoInv, StateInv, EntityCoversDocument, broker
  <2> QED
    BY <2>5, <2>6, <2>7, StepInv
<1> QED
  BY <1>2, <1>3 DEF OnFetched, UpdateFrom

LEMMA OnReadInv ==
  ASSUME MongoInv, NEW r \in Req, OnRead(r) \/ OnLooked(r) \/ OnFound(r)
  PROVE  MongoInv'
<1>1. /\ call[r].at \in {"reading", "looking", "finding"}
      /\ UNCHANGED <<documents, broker, faults>>
  BY DEF OnRead, OnLooked, OnFound
<1>2. CASE Move(r, "error") \/ Move(r, "lost")
  BY <1>1, <1>2, EndInv
<1>3. CASE documents[call[r].dev] # None
           /\ \E stage \in {"combining", "saving", "expiring", "removing"} :
                /\ Hold(r, "found", documents[call[r].dev], stage)
                /\ stage = "combining" => call[r].at = "reading"
                /\ stage = "saving" => call[r].at = "looking"
  BY <1>1, <1>3, HoldFoundInv
<1> QED
  BY <1>2, <1>3 DEF OnRead, OnLooked, OnFound, AfterFind

\* What a step writes into the collection: nothing that is not covered.
Writes ==
  /\ documents' \in [DeviceId -> Document \union {None}]
  /\ \A d \in DeviceId : documents'[d] # None => documents'[d].active \subseteq entity[d]

LEMMA InsertWrites ==
  ASSUME MongoInv, NEW r \in Req, call[r].at = "storing", Insert(r)
  PROVE  Writes
<1>1. /\ CallHolds(r) /\ CallCovered(r) /\ call[r] \in Call
      /\ StateInv /\ EntityCoversDocument
  BY DEF MongoInv
<1>2. /\ call[r].device \in Document /\ call[r].dev \in DeviceId
      /\ call[r].device.active \subseteq entity[call[r].dev]
  BY <1>1 DEF CallHolds, CallCovered, Call
<1> DEFINE stored == [call[r].device EXCEPT !._id = r]
<1>3. stored \in Document /\ stored.active = call[r].device.active
  BY <1>2 DEF Document
<1>4. documents' = [documents EXCEPT ![call[r].dev] = stored]
  BY DEF Insert
<1> HIDE DEF stored
<1> QED
  BY <1>1, <1>2, <1>3, <1>4 DEF Writes, StateInv, EntityCoversDocument

\* A save writes the call's attributes or leaves the document's.
LEMMA SaveWrites ==
  ASSUME MongoInv, NEW r \in Req, call[r].at = "saving", Save(r)
  PROVE  /\ Writes
         /\ \A d \in DeviceId : documents[d] = None => documents'[d] = None
<1> DEFINE d == call[r].dev
           written == Written(r, documents[d])
<1>1. /\ CallHolds(r) /\ CallCovered(r) /\ call[r] \in Call
      /\ StateInv /\ EntityCoversDocument
  BY DEF MongoInv
<1>2. /\ call[r].device \in Document /\ d \in DeviceId
      /\ call[r].device.active \subseteq entity[d]
  BY <1>1 DEF CallHolds, CallCovered, Call
<1>3. CASE Gone(r)
  <2>1. documents' = documents
    BY <1>1, <1>2, <1>3 DEF Save, StateInv
  <2> QED
    BY <1>1, <2>1 DEF Writes, StateInv, EntityCoversDocument
<1>4. CASE ~ Gone(r)
  <2>1. documents[d] # None /\ documents[d] \in Document
    BY <1>1, <1>2, <1>4 DEF Gone, StateInv
  <2>2. written \in Document /\ written.active \in {call[r].device.active, documents[d].active}
    BY <1>2, <2>1 DEF Written, Document
  <2>3. documents' = [documents EXCEPT ![d] = written]
    BY <1>4 DEF Save
  <2> HIDE DEF written
  <2>4. written.active \subseteq entity[d]
    BY <1>1, <1>2, <2>1, <2>2 DEF EntityCoversDocument
  <2> QED
    BY <1>1, <1>2, <2>1, <2>2, <2>3, <2>4 DEF Writes, StateInv, EntityCoversDocument
<1> QED
  BY <1>3, <1>4

LEMMA RemoveWrites ==
  ASSUME MongoInv, NEW d \in DeviceId, Remove(d)
  PROVE  Writes /\ \A e \in DeviceId : documents[e] = None => documents'[e] = None
BY DEF MongoInv, StateInv, EntityCoversDocument, Remove, Writes

\* A call that ends, having written or not.
LEMMA WriteInv ==
  ASSUME MongoInv, NEW r \in Req, NEW stage \in {"ok", "error", "lost"}, Move(r, stage),
         call[r].at # "idle", UNCHANGED broker, faults' \in 0 .. MaxFaults,
         documents' = documents \/ Writes
  PROVE  MongoInv'
<1>1. stage \in Stages /\ CallHolds(r) /\ call \in [Req -> Call] /\ StateInv /\ EntityCoversDocument
  BY DEF Stages, Ended, MongoInv
<1>2. /\ call' \in [Req -> Call] /\ \A q \in Req \ {r} : call'[q] = call[q]
      /\ call'[r].at = stage /\ call'[r].dev = call[r].dev
  BY <1>1, MoveEffect
<1>3. CallHolds(r)' /\ CallCovered(r)'
  BY <1>1, <1>2 DEF CallHolds, CallCovered
<1>4. StateInv' /\ EntityCoversDocument' /\ \A d \in DeviceId : entity[d] \subseteq entity'[d]
  BY <1>1 DEF StateInv, EntityCoversDocument, Writes, broker
<1> QED
  BY <1>2, <1>3, <1>4, StepInv

LEMMA OnWrittenInv ==
  ASSUME MongoInv, NEW r \in Req,
         OnStored(r) \/ OnSaved(r) \/ OnRemoved(r) \/ DatabaseFails(r)
  PROVE  MongoInv'
<1>1. PICK stage \in {"ok", "error", "lost"} : Move(r, stage)
  BY DEF OnStored, OnSaved, OnRemoved, DatabaseFails
<1>2. /\ call[r].at \in AtDatabase /\ UNCHANGED broker /\ faults' \in 0 .. MaxFaults
  BY MongoAssumption DEF OnStored, OnSaved, OnRemoved, DatabaseFails, AtDatabase, MongoInv, StateInv
<1>3. call[r].at # "idle" /\ call[r].dev \in DeviceId
  BY <1>2 DEF AtDatabase, MongoInv, CallHolds
<1>4. documents' = documents \/ Writes
  BY <1>3, InsertWrites, SaveWrites, RemoveWrites DEF OnStored, OnSaved, OnRemoved, DatabaseFails
<1> QED
  BY <1>1, <1>2, <1>3, <1>4, WriteInv

----------------------------------------------------------------------------
LEMMA CrashInv == ASSUME MongoInv, Crash PROVE MongoInv'
<1>1. \A r \in Req : call[r] \in Call /\ CallHolds(r) /\ CallCovered(r)
  BY DEF MongoInv
<1>2. faults' \in 0 .. MaxFaults /\ UNCHANGED <<documents, registrations, subscriptions, entity>>
  BY MongoAssumption DEF Crash, MongoInv, StateInv, broker
<1> DEFINE now(r) == IF Busy(r) THEN [call[r] EXCEPT !.at = "lost"] ELSE call[r]
<1>3. call' = [r \in Req |-> now(r)]
  BY DEF Crash
<1>4. ASSUME NEW r \in Req
      PROVE  /\ now(r) \in Call /\ (now(r) = call[r] \/ now(r).at = "lost")
             /\ now(r).dev = call[r].dev /\ (now(r).at = "lost" => call[r].at # "idle")
  BY <1>1 DEF Busy, Call, AtDatabase, AtBroker, Ended
<1> HIDE DEF now
<1>5. call' \in [Req -> Call]
  BY <1>3, <1>4
<1>6. ASSUME NEW r \in Req PROVE CallHolds(r)' /\ CallCovered(r)'
  BY <1>1, <1>2, <1>3, <1>4 DEF CallHolds, CallCovered
<1>7. StateInv' /\ EntityCoversDocument'
  BY <1>2 DEF MongoInv, StateInv, EntityCoversDocument
<1> QED
  BY <1>5, <1>6, <1>7 DEF MongoInv

LEMMA NextInv == ASSUME MongoInv, [Next]_vars PROVE MongoInv'
<1>1. ASSUME NEW r \in Req, Answered(r) PROVE MongoInv'
  BY <1>1, OnRegisteredInv, OnCreatedInv, OnSubscribedInv, BrokerFailsInv, OnFetchedInv, OnReadInv,
     OnWrittenInv DEF Answered
<1>2. CASE UNCHANGED vars
  BY <1>2 DEF vars, broker, MongoInv, StateInv, CallHolds, CallCovered, EntityCoversDocument
<1> QED
  BY <1>1, <1>2, ClientInv, CrashInv DEF Next

LEMMA InitInv == Init => MongoInv
BY MongoAssumption
DEF Init, MongoInv, StateInv, CallHolds, CallCovered, EntityCoversDocument, NoCall, Call

LEMMA Invariance == Spec => []MongoInv
<1>1. Init => MongoInv
  BY InitInv
<1>2. MongoInv /\ [Next]_vars => MongoInv'
  BY NextInv
<1> QED
  BY <1>1, <1>2, PTL DEF Spec

\* Every variable holds values of its kind, and a call the documents its next
\* task reads.
THEOREM TypeCorrect == Spec => []TypeOK
<1>1. MongoInv => TypeOK
  BY DEF MongoInv, StateInv, CallHolds, TypeOK
<1> QED
  BY <1>1, Invariance, PTL

\* The broker's entity has every active attribute of the stored device, however
\* many calls overlap, with whatever copies, and wherever a request fails or the
\* process is killed: entities are extended before the document is written
\* (createInitialEntity, updateRegister).
THEOREM EntityIsCovered == Spec => []EntityCoversDocument
<1>1. MongoInv => EntityCoversDocument
  BY DEF MongoInv
<1> QED
  BY <1>1, Invariance, PTL

\* Only the store of a registration makes a document: a save finds the document it
\* looked up, or none (deviceRegistryMongoDB.js, update).
THEOREM RemovedIsForGood == Spec => RemovedStaysRemoved
<1>1. MongoInv /\ [Next]_vars =>
        [\A d \in DeviceId : documents[d] = None /\ documents'[d] # None =>
           \E r \in Req : call[r].op = "register" /\ call[r].dev = d /\ call[r].at = "storing"]_vars
  <2> SUFFICES ASSUME MongoInv, Next,
                      NEW d \in DeviceId, documents[d] = None, documents'[d] # None
               PROVE  \E r \in Req : /\ call[r].op = "register" /\ call[r].dev = d
                                     /\ call[r].at = "storing"
    OBVIOUS
  <2>1. documents' # documents
    OBVIOUS
  <2>2. PICK r \in Req : OnStored(r) \/ OnSaved(r) \/ OnRemoved(r) \/ DatabaseFails(r)
    <3>1. ASSUME NEW r \in Req, NEW e \in DeviceId, Client(r, e)
          PROVE  documents' = documents
      <4>1. ASSUME NEW device, RegisterDevice(r, e, device)
            PROVE  documents' = documents
        BY <4>1 DEF RegisterDevice, Begin
      <4>2. ASSUME NEW device,
                   HandleUpdateDevice(r, e, device) \/ UpdateRegisterDevice(r, e, device)
            PROVE  documents' = documents
        BY <4>2 DEF HandleUpdateDevice, UpdateRegisterDevice, Begin
      <4>3. ASSUME UnregisterDevice(r, e) \/ Subscribe(r, e) \/ \E id \in Req : Unsubscribe(r, e, id)
            PROVE  documents' = documents
        BY <4>3 DEF UnregisterDevice, Subscribe, Unsubscribe, Begin
      <4> QED
        BY <3>1, <4>1, <4>2, <4>3, Zenon DEF Client
    <3>2. ASSUME NEW r \in Req, \/ OnRegistered(r) \/ OnCreated(r) \/ OnCombining(r)
                                \/ OnUpdated(r) \/ OnSubscribed(r) \/ OnExpired(r)
          PROVE  documents' = documents
      BY <3>2 DEF OnRegistered, OnCreated, OnCombining, OnUpdated, OnSubscribed, OnExpired
    <3>3. ASSUME NEW r \in Req, BrokerFails(r) \/ OnFetched(r) \/ OnRead(r) \/ OnLooked(r) \/ OnFound(r)
          PROVE  documents' = documents
      BY <3>3 DEF BrokerFails, OnFetched, OnRead, OnLooked, OnFound
    <3>4. Crash => documents' = documents
      BY DEF Crash
    <3>5. PICK r \in Req : Answered(r)
      BY <2>1, <3>1, <3>4 DEF Next
    <3> QED
      BY <2>1, <3>2, <3>3, <3>5, Zenon DEF Answered
  <2>3. CASE call[r].at = "storing" /\ Insert(r)
    <3>1. call[r].op = "register" /\ call[r].dev = d
      BY <2>3 DEF MongoInv, CallHolds, StateInv, Insert
    <3> QED
      BY <2>3, <3>1
  <2>4. CASE call[r].at = "saving" /\ Save(r)
    BY <2>4, SaveWrites
  <2>5. CASE call[r].at = "removing" /\ Remove(call[r].dev)
    <3>1. call[r].dev \in DeviceId
      BY <2>5 DEF MongoInv, CallHolds
    <3> QED
      BY <2>5, <3>1, RemoveWrites
  <2> QED
    BY <2>1, <2>2, <2>3, <2>4, <2>5 DEF OnStored, OnSaved, OnRemoved, DatabaseFails
<1> QED
  BY <1>1, Invariance, PTL DEF Spec, RemovedStaysRemoved
==============================================================================
