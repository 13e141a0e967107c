# MASAI: a TLA+ verification project

MASAI packages three programs: the **IoT Agent node library** with its **MQTT agent**
(JavaScript, one event loop), and **Cepheus**, a light context broker and a complex event
processor (Java, multithreaded). This directory holds TLA+ modules of their core logic, TLC
configurations that check them on small instances, and TLAPS proofs for every instance.
`PROJECT.json` maps each definition to the source lines it models.

    tlasany M.tla                       # parse
    tlc -workers 2 -config X.cfg M.tla  # model-check
    tlapm M.tla                         # prove

Abbreviations for paths under `src/`: `L` = `iotagent-node-lib/lib`, `MQ` =
`iotagent-mqtt/lib`, `B` = `fiware-cepheus/cepheus-broker/.../broker`, `C` =
`fiware-cepheus/cepheus-cep/.../cep`.

## 1. Inventory

### IoT Agent node library (`L`)

| Part | State | Operations | Talks to | What is hard, and what makes it correct |
|---|---|---|---|---|
| Device directory: `services/devices/deviceService.js`, `deviceRegistryMemory.js`, `services/northBound/deviceProvisioningServer.js` | `registeredDevices`: id -> device *object* | register, unregister, updateRegister, PUT, clear, get, list | Context Broker (registrations, entities) by HTTP; subscription service | Each operation is a waterfall of tasks with answers in between, so calls interleave; the memory registry hands out its own objects. Registry and Context Broker must agree; no id is taken over; every call ends; a removed device stays removed. |
| Subscriptions of devices: `services/ngsi/subscriptionService.js` | `device.subscriptions` inside the device object | subscribe, unsubscribe | Context Broker, registry | Answers come after the device changed or went; the right element must go. |
| MongoDB registry: `deviceRegistryMongoDB.js` | collection of devices | as the memory registry, but with copies | MongoDB | Duplicate ids, lost updates between read and write. |
| Groups: `services/groups/*`, `deviceGroupAdministrationServer.js`, `services/common/iotManagerService.js` | `registeredGroups`, `groupIds` | create (several), list, find, update, remove; report to the IoT Manager | IoT Manager | (apikey, resource) unique; lookup and change on separate turns; partial creation. |
| NGSI service: `services/ngsi/ngsiService.js`, `securityService.js` | middleware lists | sendUpdateValue, sendQueryValue, setCommandResult | Context Broker, Keystone | Middleware order; token errors; each call answered once. |
| Context server: `services/northBound/contextServer.js` | handlers | update, query, notification | agent's handlers, device directory | Actions in series, partial failure, response built from the request. |
| Statistics: `services/stats/statsRegistry.js` | `globalStats`, `currentStats`, `timerActions` | add, load, reset, tick | timers | Actions are bound to objects that `globalLoad` replaces. |
| Lifecycle: `fiware-iotagent-lib.js`, `northboundServer.js` | registries, server, process-wide exception handler | activate, deactivate | all of the above | Activation twice; exceptions swallowed for everybody. |
| Plugins: `plugins/*` | none | pure conversions of contexts | NGSI service | Idempotence, names and timestamps. |
| Command line: `command/commandLine.js` | - | - | - | Interactive client, not modelled. |

### MQTT agent (`MQ/iotagent-mqtt.js`)

Keeps an MQTT client and, in the MQTT broker, the topics it subscribed to. Provisioning a device,
configuring a group, starting, reconnecting and stopping change the topics; messages become
updates of the NGSI service, notifications become messages. Hard: the order of connection,
provisioning and stop; failure of a provisioning handler after the device was stored. Correct when
every registered device's topics are subscribed once connected.

### Cepheus broker (`B`)

| Part | State | Operations | What is hard, and what makes it correct |
|---|---|---|---|
| Registrations: `LocalRegistrations`, `RemoteRegistrations`, `persistence/RegistrationsRepository` | concurrent map; table; map of remote registrations | register, renew, remove; purge and retry every minute; callbacks of the remote broker | No lock around map, table and remote call; late and lost answers; failing statements. Map and table agree, nothing is forgotten, only the expired is purged. |
| Subscriptions: `Subscriptions`, `persistence/SubscriptionsRepository` | concurrent map; table | load at start, subscribe, unsubscribe, purge | Add, read again, purge on different threads; restart. |
| Routing: `controller/NgsiController`, `Patterns` | cache of patterns | updateContext, queryContext | Where a request goes given the registrations; cache filled by several threads. |

### Cepheus CEP (`C`)

| Part | State | Operations | What is hard, and what makes it correct |
|---|---|---|---|
| Configuration: `controller/AdminController`, `EsperEventProcessor`, `EventMapper`, `EventSinkListener`, `Init`, `persistence/JsonPersistence` | engine's types and statements, five copies of "the configuration", a file | POST, DELETE, start-up | A refusal half way; restoration; crash between two steps. The parts agree whenever a result was answered. |
| Provider subscriptions: `SubscriptionManager` | set of valid ids, event types and providers | setConfiguration, periodic task, validate, shutdown | Two fields replaced on one thread and read on another; answers that arrive after a migration. |
| Tenants: `tenant/*` | tenant contexts, thread-local scope | filter, force, remove, reload | Removal while requests are in progress. |
| Events: `controller/NgsiController`, `EventMapper` | - | notifyContext, updateContext | Conversion, validity of the subscription id. |

Data classes, `iotagent-*/test`, documentation, mocks, Docker/RPM/Debian packaging and `src/demo`
are not modelled.

## 2. Plan

| # | Module | Composes or refines | State |
|---|---|---|---|
| 1 | `DeviceService` (+ `MCDeviceService`, `DeviceServiceProofs`) | directory, subscriptions, Context Broker | done, with proofs |
| 2 | `Registrations` (+ MC) | map, table, remote broker, scheduler | done, with proofs |
| 3 | `CepConfiguration` (+ MC) | admin operations, engine, file | done, with proofs |
| 4 | `SubscriptionManager` (+ MC) | what stands behind the variable `subscribed` of module 3: scheduler thread, HTTP callbacks, providers | done but for the shutdown, with the proof of its types |
| 5 | `Groups` (+ MC), which refines the abstract `GroupDirectory` | group requests, memory registry, IoT Manager | done, with proofs, the refinement's among them |
| 6 | `MqttAgent` (+ MC) | topics, connection, provisioning handler, process; registering a device (module 1) is one step of it | done but for the messages, with proofs |
| 7 | `ContextServer` (+ MC) | extends `NgsiService`: each PENDING update and result is a call of it | done, with proofs |
| 8 | `Lifecycle` (+ MC) | extends `Statistics`, which implements the abstract `StatisticsReports`: activation loads them, the timer ticks over them | done, with proofs, the refinement's among them |
| 9 | `MongoDevices` (+ MC) | the operations of module 1 over the other registry | done but for clear and list, with proofs |
| 10 | `BrokerSubscriptions` (+ MC) | map, table, updates, restarts | done, with proofs |
| 11 | `Tenants` | contexts, removal, reload | open |
| 12 | Data plugins, command translation | pure conversions against reference definitions | open |

There are two abstract specifications. `GroupDirectory`: a partial function from (resource, apikey) pairs to
groups on which each request is one atomic operation, which `Groups` implements. `StatisticsReports`: what is counted,
what of it is pending and what the reports told, where a report tells all that is pending, which `Statistics`
implements under the life cycle. Others worth stating:
a directory of devices of which `DeviceService` without updates is an implementation; "the latest
context is forwarded", which `Registrations` implements when answers keep their order; a configuration
register (old or new, never a mixture) for `CepConfiguration`. Every invariant a passing run checks is proved; the next
theorems would be about the modules that are open.

## 3. Modules and code

### `DeviceService`

One action is one task of a waterfall or one callback. async 0.9 starts each task with
`setImmediate`, so tasks of different calls interleave; tasks that touch nothing shared are merged
with the one before. Calls name the device objects and subscription arrays they create, which keeps
JavaScript's sharing of objects: `registered` maps ids to objects of `heap`, an object refers to its
array in `lists`.

| Code | Model |
|---|---|
| `registeredDevices` | `registered`, `heap`, `lists` |
| a call and its position in the waterfall | `call[r]` with stage `at`, the objects `old` and `new` it holds |
| `registerDevice` | `RegisterDevice`, `OnRegistered`, `StoreDevice`, `OnRefused` |
| `unregisterDevice`, `removeAllSubscriptions` | `UnregisterDevice`, `SendUnsubscriptions`, `SendExpire`, `OnExpired`, `RemoveUnregistered` |
| `handleUpdateDevice` (PUT) and `updateRegisterDevice` | `PutDevice`, `UpdateDevice`, `GetOld`, `SendDifference`, `Combine`, `SendUpdate`, `OnUpdated`, `OnNothingToUpdate`, `ReplaceDevice` |
| `subscribe`, `unsubscribe` and their handlers | `Subscribe`, `Unsubscribe`, `OnSubscribed`, `OnUnsubscribed`, `Splice` |
| Context Broker | `BrokerAccepts`, `BrokerFails`: answers in any order, failures before or after the effect, answers without a body |

A call whose task throws out of any caller ends `"lost"`: the library installs a process-wide handler
that logs and goes on, so nobody answers the client.

Abstractions: static attributes and commands behave like active and lazy ones and are not told
apart; names, types, services and protocols are fixed by the id; groups' configuration of a device
is not read.

### `Registrations`

HTTP threads, the scheduler's thread and the HTTP client's callbacks interleave between any two
accesses to the map, the table or the remote map. `registrations[i]` is the context under id `i`,
`expired` the contexts whose date has passed, `remote[i]` the `RemoteRegistration`.
`updateRegistrationContext` is `RegisterContext` followed by `LookUp`, `UpdateRow` or `InsertRow`,
`PutRegistration` and `ForwardContext`; with a zero duration `RemoveContext`, `DeleteRow`, `Unmap`,
`Forget`. The purge is `FindExpired`, `PurgeUnmap`, `PurgeForget`, `PurgeDelete`; the retry
`FindPending`, `Retry`; the callbacks `OnAnswer`. Any statement may fail (`Refused`, `Fault`), any
remote call may fail before or after it took effect. A remote broker is configured.

### `CepConfiguration`

The admin methods are `synchronized`, so one runs at a time and `admin` is its program counter;
`Restart` may come between any two steps. The engine is the set of its event types (name and
definition; a second definition of a name is refused) and the set of its statements (the names they
use, the statements that declare the variables they mention). The five places that keep a
configuration are variables of their own (`configuration`, `sink`, `mapper`, `subscribed`, `file`);
`file` may be `Partial`. A configuration's statements are a sequence, the order of the document:
`updateStatements` keeps what the engine has and compiles the others one by one (`Compiles`), each over
what was kept and what comes before it (`RunningBefore`), and the first that is refused ends it
(`FirstRefused`). `RestoreEngine` does the same in an empty engine. The sets of event types have no order that matters:
a refused definition leaves any part of the others. `admin.found`, the statements that ran when a POST began,
is history that only properties read.

### `SubscriptionManager`

The admin thread (`setConfiguration`), the scheduler's only thread (`periodicSubscriptionTask`), the
callbacks of the asynchronous HTTP client and the threads of notifications share two fields,
`eventTypeIns` and `subscriptions`, and the objects behind them. One action is one access to a
field, or the work on one `Provider` object.

| Code | Model |
|---|---|
| `eventTypeIns`, `subscriptions` | `current`, `set`: the number of the call of `setConfiguration` that brought the object |
| `Provider` objects | `providers[n]`, `record[n][s]`, by call and source (an event type with a provider's URL) |
| `Subscriptions` objects | `valid[n]` |
| `setConfiguration`, `migrateSubscriptions`, `unsubscribeProvider` | `SetConfiguration`, `KeepProvider`, `DropProvider`, `ReplaceSet`, `ReplaceTypes` |
| `periodicSubscriptionTask`, `subscribeProvider` | `TaskTakesSet`, `TaskReadsTypes`, `TaskVisits`, `TaskEnds`, `OnSubscribed` |
| `validateSubscriptionId` and its use by the controller | `RefuseNotification` |
| providers (outside `src/`) | `Accept`, `Fail`, `Expire` |

`CepConfiguration`'s `subscribed` is `current` here; a refused POST, which sets the old configuration
again, is `RestoreConfiguration`. Time is kept only as an order: a run of the task that nobody
rescheduled comes when earlier requests were answered, and a deadline passes (`Deadline`) when
earlier requests and earlier subscriptions of the source have ended, because minutes and hours are
longer than a request takes. An id is drawn from those nobody knows any more, and objects nobody can
reach are emptied, which keeps the state space finite. `unsubscribeAll` at shutdown is not modelled.

### `NgsiService` and `ContextServer`

`NgsiService` has the calls an agent makes to the Context Broker: `<<kind, request, device, command>>`,
where the kind is the PENDING status of a command or the RESULT a device reports. `calls[c].phase` is
its place in the waterfall of `executeWithDeviceInformation`, `wire` the requests not yet taken by the
broker, which a broken connection does not call back, and `status` the writer of each `_status`
attribute. `ContextServer` extends it with the requests of the NGSI10 routes.

| Code | Model |
|---|---|
| `setCommandResult`, `executeWithDeviceInformation`, `security.getToken`, `sendUpdateValue`, the operation handler | `GroupFound` (with `SetCommandResult`), `TokenAnswered`, `SendUpdateValue`, `OperationHandler` |
| `ensureType`, `validateJson` | `Refuse` |
| `handleUpdate`, `handleQuery` up to their actions; the flattened actions in series | `Receive`; `Plan`, `HandlerAnswers`, `CallMoves`, with `requests[r].plan` and `at` |
| `generateUpdateActions`, `executeUpdateSideEffects` | `UpdateActions`, `SideEffects` |
| `createUpdateResponse`, whose inner loop uses the outer index | `ResponseThrows` |
| `handleNotification` (elements in parallel) | `Notify`, `Extract`, `NotificationHandled` |
| the devices of the agent | `Delivered`, `ReportResult` |

A request ends `ok`, `error`, `unrouted` (404: a handled notification always ends by `next()`, and no
later route answers it) or `lost` (its task throws, nobody answers).

### `GroupDirectory` and `Groups`

`Groups` has the four routes of the administration API over `groupRegistryMemory.js`. The registry
answers in the turn that asks, so a creation of several groups is one step (`Create`); PUT and DELETE
look the pair up (`Find`) and use the id they found in a later turn (`Modify`, `Remove`). Then come the
registration with the IoT Manager (`GetServices`, `ManagerTakes`, `HandleRegistration`) and the agent's
configuration handler (`ApplyConfigurationHandler`). `request[r].at` is the place of a request.

`GroupDirectory` has one variable, the group of each pair, and three operations: `Add` some pairs that
are free, `Change` and `Drop` a group of one's own service. `Groups!ImplementsDirectory` is
`Directory!Spec` under the mapping

    directory[k]  <-  the service and last writer of the group getSingleGroup finds for k, or None

and says that every step of every interleaving is one of these operations or leaves the directory
alone. It is the id used two turns later that makes this worth checking: ids are never used again, so
the group removed is the one whose service was compared, or none.

### `MqttAgent`

The agent's process (`agent`), its MQTT client (`mqttClient`), the device and group registries
(`registered`, `group`), the POSTs of the provisioning API (`post`: the answer, and a stage for each
device of the body), the runs of `deviceProvisioningHandler` under way (`handling`) and the topics the
MQTT broker has granted (`topics`). `Connect` is every connect event of the client; it starts one run for
each stored device. `RegisterDevice` is the whole of `DeviceService`'s registration and
the start of the handler. `Drop` loses the packets under way, or keeps them queued (the client's two
ways to lose a connection); their callbacks never come in the first case. `Stop` and `Crash` end the
agent, `ChangeGroup` changes an API key.

### `Statistics` and `Lifecycle`

`Statistics` names a pair of dictionaries (current, global) by the load that made it, because a timer
action stays bound to the pair of the moment it was added while `globalLoad` replaces both. `StatisticsReports` is
what a reader of the reports may rely on: the refinement maps its `counted` and `pending` to the global and the
current value in use and its `told` to the history variable `reported`. Names of `Lifecycle` and
`SubscriptionManager` that other modules have too carry the module's name (`LifecycleSpec`, `SubscriptionTypeOK`),
so that a module of proofs can extend them beside another component.
`Lifecycle` extends it with `activate` and `deactivate`: `Activate` runs up to the listen call,
`Listening` (or `ListenFails`) to the registration with the IoT Manager, `HandleRegistration` to the
callback. The listen call may fail whenever it is made, and fails if a server of an earlier activation holds the
port: no listener takes its error (`northboundServer.js:117-119`), so `ListenFails` is an uncaught exception,
which the handler of exceptions swallows, and `activate` is `stuck`; `ActivationCallsBack` excepts that, and says that
nothing else swallows a callback. `listening` has the servers on the port,
`northboundServer` the one the module still knows, `errorHandlers` how often the handler of uncaught exceptions is installed. All 72 configurations are initial.

### `MongoDevices`

The same calls as in `DeviceService`, over copies. One action is the answer to one request, of the
database (`OnRead`, `OnLooked`, `OnSaved`, `OnStored`, `OnFound`, `OnRemoved`, `OnFetched`) or of the
Context Broker (`OnRegistered`, `OnCreated`, `OnCombining`, `OnUpdated`, `OnSubscribed`, `OnExpired`); in
between a call changes only its own copies, `call[r].device` (the caller's) and `call[r].found` (read
back). `documents[d]` carries the database's `_id`, which decides whether a late save or removal meets
the document it was meant for (`Gone`). `Crash` ends every call and leaves documents and broker.

### `BrokerSubscriptions`

`subscriptions` is the concurrent map (None when it could not be loaded: every later use throws),
`table` the rows. `subscribeContext` is `SaveSubscription`, `PutSubscription`, `AnswerSubscribe` (which
reads the map a second time), `unsubscribeContext` is `DeleteRow`, `RemoveFromMap`, the purge is
`PurgeFromMap`, `PurgeRow`, and an update walks the map entry by entry (`FindSubscriptions`,
`VisitEntry`, `NotifyContext`) while all of them go on. `local.url` is set, as in the `application.properties` the
broker is shipped with; without it `NgsiController.java:111-114` notifies nobody. `Restart` kills the broker anywhere and loads the
map from the table. The sets `due`, `gone` and `notified` of an update are history, for the properties.

## 4. Runs

| Run | Instance | Distinct states | Shows |
|---|---|---|---|
| `device_concurrent` | 3 calls on one device, overlapping, 2 failures, all operations but PUT, fairness | 481,676 | `EntityCoversRegistry`, `RegisterNeverReplaces`, `EveryCallEnds` |
| `device_serial` | 5 calls on one device one after the other, 1 failure, with PUT | 533,993 | `RegistryMatchesBroker` until a failure; `RemovedOnlyWhenExpired` always |
| `registrations_renewed` | 3 calls, 1 remote failure, 1 database fault, fairness | 399,187 | `NeverForgotten`, `TableCoversMap`, `EventuallyRegistered` |
| `cep_restarts` | 6 documents: one that redefines a type of another, one with its statements in the wrong order, one that uses an unknown type, one with a bad jsonpath, one that borrows a type | 6,388 | `CreatedIsInForce`, `RejectedRestoresEngine`, `PersistedOnceApplied`, `RestartReloads` |
| `subscriptions_heard` | 1 source, 2 configurations, 1 failed request or early notification, fairness | 1,627,898 | `EventuallyHeard`, `EventuallySilent` |
| `commands` | 2 requests (one of any kind, one update), 2 devices with a command each, 1 result, with and without authentication and middleware, fairness | 107,956 | nothing goes out untrusted (`OnlyTrustedCalls`); 200 means PENDING at the broker (`AnsweredOkMeansPending`); PENDING only for what the command handler was given (`PendingMeansDelivered`); `EveryRequestAnswered` |
| `groups` | 4 requests, 2 pairs, 2 services, fairness | 165,004 | `ImplementsDirectory`; `ManagerIsCurrent`; `EveryGroupRequestAnswered` |
| `mqtt` | 2 devices, 2 POSTs, one broken connection, crash, stop or change of a group, one device that may be removed, fairness | 302,843 | `HeardUnderItsKey`, `EveryPostAnswered` |
| `lifecycle` | every configuration, 3 activations, 2 counts, 3 ticks, fairness | 76,074 | `ImplementsReports` (whatever is counted is reported once), `SurvivesWhileStarted`, `ActivationCallsBack` |
| `mongo_overlaps` | 4 overlapping calls on one device, all operations, 1 failing request or killed process | 2,975,172 | `EntityCoversDocument`, `RemovedStaysRemoved` |
| `broker_restarts` | 2 subscriptions, 2 calls to end one, 1 update, 2 failing statements, 2 restarts | 757,152 | `EveryoneNotified`, `EndedStaysSilent` |
| `mongo_updates` | a device without lazy attributes, then two updates that bring them | 1,893 | violated: the second update creates a second registration (`UpdatedIfExisting`) |

`RegistryMatchesBroker` is what fails when a call goes on at the first of several unsubscriptions, since the late
answer stores the removed device again. That such a call ends, whatever an unsubscription is answered, takes four calls, which is
`DeviceSubscribed.cfg`: `EveryCallEnds` of clients that wait for answers, register, subscribe and unregister, with one
failure (381,296 states); it is kept beside the runs and passes. `UpdatedIfExisting` states what the comment at `L/services/devices/deviceService.js:393-394` says;
`PROJECT.json` quotes it under `findings`.

**Bounds.** Every call is made once, so `Req` bounds a behaviour. One device is enough for the
device runs: no operation reads another device's entry, and the objects and arrays calls share are
reached through one id. Three overlapping calls reach each pair of operations on top of a
registration (a device must exist first); five serial ones reach register, subscribe, change, remove
and register again. Two failures let an operation fail and its repetition fail too. For the
registrations, three calls are a creation, a renewal and a removal or second renewal; one fault at
each of the statements suffices because a statement's failure ends the call. In `CepConfiguration`
nothing is bounded: the state space is finite. Of its documents, `reversed` has the statements of `second` with the use of a
variable before its declaration, which compiles after `second` only. In `SubscriptionManager` sources do not share records
or requests, so one suffices; the second setting meets the objects of the first in every stage of the
task and of its requests, and the one mishap is a lost request, a lost answer or a notification that
overtakes the answer. The four ids cover what can be known at once: nothing waits for an id
for ever, or `EventuallyHeard` would fail. For `commands`, the bodies are chosen for the paths they take:
one command, an update refused for its second element, two commands of two devices (so that a series can
stop between them), one whose response throws, and an empty query; the second request interleaves with all of them, and one
result is enough to overtake. For `groups`, two pairs in one POST give partial creations, two requests may
hold the same id, and the fourth may take the pair again. For `mqtt`, one event of each kind between two
POSTs reaches a handler in every one of its stages, and leaves the agent as at a start or a first
connection, which the next POST meets. For `lifecycle`, the third activation is the first one that follows a recovery from a failed one.
For `mongo_overlaps`, four calls are needed to store a device, keep a copy of it, remove it and store it
again. For `broker_restarts`, the second restart comes from a table the first one has already read, and one
failing statement may be in the load.

**Restrictions, each a named constant.** `device_concurrent` leaves PUT out, and `EntityCoversRegistry`
is false with it (that is `DevicePut.cfg`). `device_serial` sets `MayClearLazy` FALSE and leaves
`updateRegister` out: a caller's object without subscriptions replaces the registry's, and a device
whose lazy attributes were cleared is removed without expiring its registration. `RenewInTime` TRUE
says that clients make one call about a registration at a time and do not call while it expires;
without it the purge race of `RegistrationsPurge.cfg` breaks `TableCoversMap` too. `MayRename` FALSE in
`groups`: no PUT carries the pair of another group, with which the directory is not a function
(`GroupsRenamed.cfg`). `ClearsTimers` TRUE in `lifecycle`: the agent calls `clearTimers` when it
deactivates, which the library leaves to it. `Persistent` TRUE in `mqtt`: with the memory registries a crash
forgets devices and groups alike, and there is less to hear. `DefaultKey` of `mqtt` is a key: without one
`stop` fails and nothing of it happens. In `groups` each request does only some operations (`Asked`), which
leaves each pair of operations that can meet on one group.

**Fairness.** `DeviceService!FairSpec`: weak fairness of the agent (the event loop runs every task and
callback that is due) and of the Context Broker's side (each HTTP request is answered or fails).
`Registrations!FairSpec`: weak fairness of HTTP threads, of the scheduler (its tasks come back every
minute), of the callbacks and of the remote side. Clients and clock owe nothing.
`SubscriptionManager!FairSpec`: the same for the admin thread once it has begun, the task, callbacks
and providers, and for time (deadlines pass, subscriptions end after their duration); nobody has to
post a configuration, and no provider has to notify. Weak fairness is
enough for `Scheduler` because a pending retry stays enabled until the scheduler takes it.
`ContextServer!Fairness`: the agent's handlers call back, the event loop runs what is ready, an HTTP call
ends with an answer or an error. `Groups!Fairness` and `LifecycleFairness`: the same, for the IoT Manager's
answer (or the broken connection), the configuration handler, the listen call and the end of connections.
`MqttAgent!Fairness`: the client reconnects, the Context Broker and the MQTT broker answer; connections owe
nothing, so one that keeps breaking would not be enough to be heard, but the bound on events ends that.
`MongoDevices` and `BrokerSubscriptions` state safety only and assume no fairness.

`CHECK_DEADLOCK FALSE` is set where clients may simply have made all their calls.

## 5. Known deviations

Configurations that are kept beside the runs: each checks one property that a comment or a document of the
repository states, and TLC finds it violated by what the code does (`tlc -config X.cfg MCModule`).

| Configuration | Module, property | The code | The words |
|---|---|---|---|
| `MongoUpdates` (the run `mongo_updates`) | `MongoDevices`, `UpdatedIfExisting` | `deviceRegistryMongoDB.js:223` saves three fields, not the registration id | "The registration for the lazy attributes of the updated entity will be updated if existing, and created if not." (`deviceService.js:393-394`) |
| `DeviceUnsubscribe` | `DeviceService`, `UnsubscribedIsForgotten` | `subscriptionService.js:160` searches the array of objects for an id, and drops the last one | "Remove the subscription with the given ID from the Context Broker and from the device repository." (`:167`) |
| `DevicePut` | `DeviceService`, `UpdateCreatesAttributes` | `deviceProvisioningServer.js:269` writes into the stored object before the difference is taken | "If new active attributes are created, the entity will be updated creating the new attributes." (`deviceService.js:394-395`) |
| `DeviceRemoved` | `DeviceService`, `UnregisteredStaysGone` | `deviceRegistryMemory.js:139` stores whatever an update brings, after a removal too (`MongoDevices` does not: `RemovedStaysRemoved`) | "Unregister a device from the Context broker and the internal registry." (`deviceService.js:362`) |
| `RegistrationsForward` | `Registrations`, `UpdatesAreForwarded` | `RemoteRegistrations.java:159`: a late answer settles a newer pending context | "All registrations updates are forwarded to the remote broker" (`LocalRegistrations.java:42`) |
| `RegistrationsPurge` | `Registrations`, `PurgesOnlyExpired` | `LocalRegistrations.java:165` removes by key what was renewed since it was checked | "Removed expired registrations every min" (`:158`) |
| `CepRejected` | `CepConfiguration`, `RejectedKeepsConfiguration` | `EsperEventProcessor.java:136`: the refused configuration is what GET answers | "in case of configuration error try to restore the previous configuration if any" (`AdminController.java:87-88`) |
| `CepRefusedTwice` | `CepConfiguration`, `PreviousIsRestored` | `EsperEventProcessor.java:136`: after a POST the mapper refused, the processor's configuration is the refused one, and the next refusal puts its statements into the engine | the same comment |
| `CepNotReloaded` | `CepConfiguration`, `PersistedAlwaysReloads` | `EsperEventProcessor.java:310` compiles only what the engine lacks: a document that uses a variable before it declares it is accepted over the running engine and persisted, and refused by the next start | "it will automatically load the last configuration on startup" (`doc/cep/index.md:48`) |
| `SubscriptionsTracked` | `SubscriptionManager`, `TrackedAreValid` | `SubscriptionManager.java:251` dates a provider whose id is not in the current set | "Date of last successful subscription. Used by the SubscriptionManager to track valid subscriptions" (`Provider.java:27-28`) |
| `CommandsPending` | `ContextServer`, `ResultStands` | `contextServer.js:262`: PENDING is written after the command went out, over a result that was faster | "'_status': this attribute reflect the current execution status of the command." (library `README.md:49`) |
| `GroupsRenamed` | `Groups`, `UniquePairs` | `groupRegistryMemory.js:164-178` takes the pair from a PUT without a look at the others | "For every Device Group, the pair (resource, apikey) *must* be unique" (library `README.md:899`) |
| `StatsRestarted` | `Lifecycle`, `EverythingReportedOnce` with `ClearsTimers` FALSE | `statsRegistry.js:142`: a restart leaves an action bound to the old dictionaries: it reports those and then resets the current values in use | "one of the dictionaries holds the historical global value and the other one stores the value since the last value reporting" (library `README.md:85-86`) |

Met while modelling, and part of the models without a property of their own:

* A notification is answered 404 even when it was handled; an update whose response throws, and every
  call whose task throws (DELETE of an unknown device, PUT of one field), is never answered.
* The configuration topics of `iotagent-mqtt/README.md:152` are in no subscription
  (`iotagent-mqtt.js:314-318`). `unsubscribeAll` (401-409) unsubscribes no device, DELETE leaves the topics,
  `start` calls back at every reconnection, and a POST answered with an error leaves its other devices.
* `activate` never calls back when the server cannot listen (a port that another process holds or that is not permitted),
  nor when it is called again after an activation that failed in its last step and left its server listening; `deactivate` takes the exception handler away before connections end.
* Over MongoDB subscriptions are never stored, so unregistering leaves them in the Context Broker; a stale
  save takes earlier updates back.
* The Cepheus broker whose table could not be loaded saves rows and then throws on each call.

## 6. Proofs

Eight modules hold proofs about every module of section 3: `NgsiService`, `Lifecycle` and `Statistics` are proved about in
`ContextServerProofs`, `SubscriptionManager` in `CepConfigurationProofs`. All theorems are of the modules' specifications,
for every value of the constants, bounds included: any number of calls, devices, failures and restarts.
Their only assumptions are the `ASSUME` of each module, which say what kind of value a constant is and
are evaluated in every run, and where it is said, one of the restrictions of section 4 as a hypothesis of the
theorem itself. Each `TypeOK` is proved (`TypeCorrect`, `LifecycleTypeCorrect`, `SubscriptionTypeCorrect`); the invariants
below include it.

### `DeviceServiceProofs`

`DeviceServiceProofs` proves, for any sets of devices, attributes and calls, any number of failures
and, but for the last two, any overlap of calls:

* `TypeCorrect`, `TypesHold`: `Spec => []TypeInv` and `Spec => []TypeOK`. `TypeOK` alone is not
  inductive: `GetOld` may only be followed by steps that use the object it found. `Holding` says which
  objects a call holds at which stage. One lemma per group of actions (`AgentType`, `ClientType`,
  `TaskType`, `CallbackType`, `BrokerType`) shows that a step keeps `TypeInv`.
* `EntitiesCover`: `"put" \notin Ops` implies `Spec => []EntityCoversRegistry`. The inductive invariant
  `CoverInv` follows the attributes of a device from the call to the entity: while an entity request is
  on its way, entity and request together cover the call's object (`RequestsCover`); once it was
  accepted the entity does (`AnswersCovered`, `ReplacementCovered`); an object in the registry
  (`RegistryCovered`), or taken from it by a call (`HeldCovered`), is covered. The last one is what makes
  overlapping updates work: `combineWithNewDevice` writes into a shared object, but only attributes whose
  creation has been accepted, and entities only grow. `OwnsNew` is where PUT is excluded: PUT makes the
  registry's own object the call's new one.

* `NothingReplaced`: `Spec => RegisterNeverReplaces`, with every operation allowed. `RegisterInv` says that
  a registering call is only in the stages of `registerDevice` (so no task of another operation ends it)
  and that answers to subscriptions, which `OnSubscribed` takes whatever the stage, belong to subscribe
  calls. `Asked` (only calls that were made have requests) is what keeps the latter when a call is made.
  It is also why the property holds without any lock: `store` looks and writes on one turn of the loop.

* `RemovedAfterExpiry`: `~Overlap` implies `Spec => RemovedOnlyWhenExpired`, with every operation allowed and any
  failures. `SerialInv` says what waiting for answers buys: a device has one busy call, a call awaits one answer at a
  time (but for the unsubscriptions), and only at the stages that take it. `OwnInv`: objects stay with their device, and
  so do the registrations they name. Hence nobody can renew, between the Context Broker's answer and the removal, the
  registration that was just expired (`ExpireInv`).

* `RegistryAgrees`: `Provisioned` implies `Spec => []RegistryMatchesBroker`. `Provisioned` is what the run `device_serial`
  restricts clients to: they wait, they only register, PUT, subscribe and unregister, and no PUT takes the lazy
  attributes away (hazards of `updateRegister`, `unsubscribe` and such a PUT break the property, section 5 and the list of
  hazards). The property only speaks of devices with nothing under way, so the inductive `MatchInv` adds what holds
  meanwhile, as long as nothing failed. Of the registry (`StoredInv`): a stored object, its registration and its list come
  from calls that ended well, and what is registered is lazy, so that unregistering asks to expire it. Of messages
  (`RequestsInv`): a request names the registration of the object it is about, an answer says what was asked, and no
  unsubscription is under way once its call moved on. Of the one busy call of a device (`BusyInv`): the live registrations
  are those the registry names, and those that answers on their way bring or have ended (`BusyRegistrations`), and likewise the
  live subscriptions (`SubscriptionsInv`). `FreshInv` keeps the name of a call free until it is made. No step of one device touches
  what is another's (`OtherDevice`, `ActorKeeps`); a call that is made (`Begun`) or moves on (`Moved`) has nothing
  under way but what it just asked for.

### `MongoDevicesProofs`

`EntityIsCovered` and `RemovedIsForGood`, for any overlap. `CallHolds` says which documents a call holds at which
stage, `CallCovered` which of its two copies is covered by the entity: what it may still write from the answer on
that created its new attributes, what it compares with since it was read. With copies, unlike with the memory
registry's shared objects, PUT needs no exception. `RemovedStaysRemoved` follows from the steps that write: a
save finds a document or writes nothing. `NoneIsNoDocument` says that the model value of an absent document is not a
document.

### `RegistrationsProofs`

For clients that renew in time (`RenewInTime`, without which `RegistrationsPurge.cfg` is the counterexample):
`MapIsPersisted`, `RemoteIsTold`. No lock protects map, table and remote entries. `WhoInv` is what stands
in for one: at most one thread, the scheduler's included, works on an id, and a context in the map was put there by a
call about that id. What a thread has found or written in the table then still holds at its next step (`StageHolds`),
so the row is there whenever nobody is between row and map (`RowsCover`). `RemoteInv`: while a registration is in the
map, it is being forwarded, on the wire, to be retried, or has a remote id.

### `CepConfigurationProofs`

`CreatedIsApplied`, `RefusalRestores`, `PersistedIsReloaded` and the action property `PersistsWhatIsApplied`, without
any hypothesis of the theorem: any configurations, with their statements in any order, refused at any step with any part compiled, and a process killed between any two.
The invariant describes each step of an operation by what it has brought about so far (`AppliedSoFar`,
`RestoredSoFar`, `LoadedSoFar`), on top of what always holds: no statement runs over an event type the engine does not have
(`EngineConsistent`), no part uses a jsonpath that does not compile (`PathsCompile`), and a configuration of the processor
that the mapper would accept is what the engine runs whenever no method is under way (`ProcessorRuns`). The last is what
`RefusalRestores` needs: a POST then finds the statements of the configuration it takes for the previous one (`admin.found`), and restoring that puts them back. It is also
where the property stops: `RejectedRestoresEngine` excepts a previous configuration with such a jsonpath, because after a
POST the mapper refused the processor still answers the refused configuration, and restoring that one does not
restore what ran (`CepRefusedTwice.cfg`). Likewise `RestartReloads` is about documents that compile in an empty engine,
statement by statement (`SelfContained`); the others need not come back (`CepNotReloaded.cfg`). What a failed compilation leaves is
followed along the document (`RunningBeforeRange`, `FirstRefusedEffect`, `AllCompileEffect`).

`SubscriptionTypeCorrect`, of `SubscriptionManager`, for any number of sources, settings and failures: `SubscriptionTypeOK` is
inductive as it stands. The step that needs the code's care is the migration of a provider whose id is null,
which must not become a request to unsubscribe. What else the module promises is liveness.

### `GroupsProofs`

As long as no PUT writes another pair (`~ MayRename`; `GroupsRenamed.cfg` is the counterexample otherwise):
`PairsAreUnique`; `DirectoryImplemented`, the refinement, step by step: `Create` adds, `Modify` changes and `Remove` drops, and
every other step is a stutter of the directory; and `ManagerToldOfAll`. The heart is `FoundIsOwn`: an id that was looked up
two turns ago either has no group any more, or its group is still of the service that was compared, since ids only
grow. For the IoT Manager, `LastListIsCurrent` follows the list with the highest rank through the waterfall, and
`Untold` says who has yet to make a new one.

### `ContextServerProofs`

`TrustedOnly`, `OkMeansPending`, `PendingWasDelivered`, for bodies of any length. A plan is a concatenation of the actions
of the elements, so the first part proves what `FlattenSeq` and `SetToSeq` return (`FlattenMadeOf`,
`SetToSeqLists`). Structural induction over sequences is not available to the prover; these lemmas instead take the least
prefix for which the claim fails (`LeastNat`, from the well-foundedness of `<` on the naturals). Then: `Unsent` and `Trusted`
follow a call to the broker; `PlanSound` and `PlanComplete` say which PENDING actions a plan has; `BehindIsDone` that those the
request has passed have succeeded; `MadeByPlan` that a call under way is the one the plan waits for. The overlapping
requests and early results never undo a success, which is what `AnsweredOkMeansPending` needs of them.

The last part is about `Lifecycle`. `StartedSurvives`, with or without `ClearsTimers`: `HandlerOnStart` says that a started
library has its handler of exceptions, and that nothing that could throw exists before the first activation or under an
invalid configuration. `ReportedOnce` and `ReportsImplemented`, if `ClearsTimers`: `ActionsOnUse` says that the timer has actions only while
a server listens (the load that follows finds none) and that they are bound to the objects in use, and then whatever
prefix of them a tick performs reports all that is pending or nothing (`Told`), which is a `Report` of the abstract
specification or a stutter; every other step counts, loads or stutters. `ReportedOnce`, the equation of the two dictionaries
the library's README promises, comes from the same invariant (`StatsRestarted` is the counterexample without the hypothesis). A tick is a fold over a sequence of any length;
`PerformedKeeps` proves, again by the least position that fails, that the fold stays within every set of statistics
that a single action does not leave.

### `MqttAgentProofs`

`EveryDeviceHeard`. The property speaks of moments at which no handler runs; the invariant `HeardOrHandled` covers the others:
while the client is online, a registered device is heard under the key its service has now, or a run of the handler is on its
way that has this key or no key yet. `ClientOfAgent` (a client belongs to a running agent) is what a crash and a stop need.

### `BrokerSubscriptionsProofs`

`EndedAreSilent` and `AllAreNotified`, through any number of restarts. `RowsDeleted` and `EntriesRemoved`: an id whose row was
deleted never comes back to the table, hence neither to a map loaded from it. `RowsKeptWhileActive` and
`EntriesKeptWhileActive` are the converse for those that nobody ended. They speak of the map only while it is `Reliable`: a map that
could not be loaded is `None`, and the broker without it throws. `DueIsAhead` follows the walk of an update over the map.

### What the proofs changed

Attempts that failed were findings about the models: an update or query with an empty body was given a place in a
plan that has none (`Plan` of `ContextServer`; the instance of the run has an empty body now), and two definitions by `CASE`
had arms that overlap, of which TLC takes the first and the logic any (`Continue`, `PartBecomes`). No theorem failed because of
the code where its run had passed.

### Only model-checked

Every invariant and every action property of a passing run is proved. What is left is liveness, because fairness
and `ENABLED` are beyond the prover: `EveryCallEnds`, `EventuallyRegistered`, `EventuallyHeard`, `EventuallySilent`,
`EveryRequestAnswered`, `EveryGroupRequestAnswered`, `EveryPostAnswered` and `ActivationCallsBack`.

## 7. Not modelled

* **MQTT messages**: the conversion of a message into an update, a query or a subscription, and of a
  notification into a message (`iotagent-mqtt.js:64-300`), and the agent's plugins. No state of the agent changes.
* **CEP tenants** (`tenant/*`): the next module of the plan. **CEP events**: a conversion, and the Esper engine's
  processing, a library, modelled by which names a statement uses.
* **Broker routing**: which registration an update or a query goes to is a read of the registrations by
  patterns; `BrokerSubscriptions` has both outcomes, forwarded or handled here.
* **MongoDB group registry**: its groups have no `id` field of their own, and what its update and remove then
  look up depends on a version of mongoose the repository does not fix. **Clear and list of the MongoDB device
  registry**: clear drops the collection with its unique index; list reads.
* **Data plugins** and the query path `sendQueryValue`: the steps of an update in another order, and conversions of one payload.
* **Command line client**: input, output and printing.
* **Unsubscriptions at the shutdown of the CEP** (`unsubscribeAll`).
* HTTP, JSON and XML syntax, logging, data classes, packaging, mocks and demonstration files.
