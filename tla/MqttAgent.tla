------------------------------ MODULE MqttAgent ------------------------------
(***************************************************************************)
(* The MQTT IoT agent (iotagent-mqtt.js) between the provisioning API      *)
(* (northBound/deviceProvisioningServer.js) and the MQTT broker: which     *)
(* topics it listens to, for which devices, under which API key.           *)
(*                                                                         *)
(* A POST provisions the devices of its body in parallel.  Each is stored  *)
(* and then handed to the provisioning handler the agent has installed,    *)
(* which looks the API key up and subscribes to the device's topics; the   *)
(* same handler runs for every stored device whenever the MQTT client      *)
(* connects.  How a device is registered is DeviceService's matter: here   *)
(* it ends in one step, stored or refused.                                 *)
(***************************************************************************)
EXTENDS Naturals, Sequences

CONSTANTS
    Devices,     \* device ids
    Services,    \* pairs of service and subservice
    Keys,        \* API keys
    DefaultKey,  \* config.mqtt.defaultKey, or None
    Requests,    \* the POSTs, each made once
    Body,        \* the ids of the devices in each: a sequence
    ServiceOf,   \* the service and subservice in its headers
    Groups,      \* the groups there are at the start: a key or None by service
    Persistent,  \* whether the registries survive the process (mongodb)
    MaxEvents,   \* bound: broken connections, crashes, stops and group changes
    Removable,   \* bound: the devices somebody removes
    Changes,     \* bound: the changes of groups, as <<service, key or None>>
    None

ASSUME MqttAssumption ==
    /\ None \notin Devices \union Services \union Keys
    /\ DefaultKey \in Keys \union {None}
    /\ Body \in [Requests -> Seq(Devices)]
    /\ ServiceOf \in [Requests -> Services]
    /\ Groups \in [Services -> Keys \union {None}]
    /\ Persistent \in BOOLEAN
    /\ Changes \subseteq Services \X (Keys \union {None})
    /\ MaxEvents \in Nat

VARIABLES
    agent,       \* the process: down, listening, halted, running, stopped
    mqttClient,  \* the MQTT client: none, offline, online or ended
    registered,  \* registeredDevices: the service of the device stored
    group,       \* the group registry: the API key of each service's group
    post,        \* each POST: its answer and where each device of it is
    handling,    \* the runs of deviceProvisioningHandler under way
    topics,      \* the MQTT broker: the topics the agent is subscribed to
    excused,     \* devices of a failed run or a changed key, since connecting
    events       \* how many events of these there have been

vars == <<agent, mqttClient, registered, group, post, handling, topics, excused, events>>

Parts(r) == DOMAIN Body[r]
Part == {"todo", "registering", "handled", "silent", "done", "failed"}
Answers == {"created", "error"}

(* A run of the handler: for <<r, i>>, device i of POST r, or for a        *)
(* connection, whose runs nobody waits for.                                *)
Connection == <<"connect", 0>>
Run == [for : (Requests \X Nat) \union {Connection},
        id : Devices, service : Services, key : Keys \union {None}]

TypeOK ==
    /\ agent \in {"down", "listening", "halted", "running", "stopped"}
    /\ mqttClient \in {"none", "offline", "online", "ended"}
    /\ registered \in [Devices -> Services \union {None}]
    /\ group \in [Services -> Keys \union {None}]
    /\ post \in [Requests -> [answer : {"none", "open", "lost"} \union Answers, part : Seq(Part)]]
    /\ \A r \in Requests : DOMAIN post[r].part = Parts(r)
    /\ handling \subseteq Run
    /\ topics \subseteq Keys \X Devices
    /\ mqttClient # "online" => topics = {}
    /\ excused \subseteq Devices
    /\ events \in 0 .. MaxEvents

Init ==
    /\ agent = "down"
    /\ mqttClient = "none"
    /\ registered = [d \in Devices |-> None]
    /\ group = Groups
    /\ post = [r \in Requests |-> [answer |-> "none", part |-> [i \in Parts(r) |-> "todo"]]]
    /\ handling = {}
    /\ topics = {}
    /\ excused = {}
    /\ events = 0

Happens ==
    /\ events < MaxEvents
    /\ events' = events + 1

---------------------------------------------------------------------------
(* start: the server listens before activate calls back, and activate      *)
(* registers with the IoT Manager in between.  If that fails, start calls  *)
(* back with the error and the server goes on listening without handlers.  *)
Activate ==
    /\ agent \in {"down", "stopped"}
    /\ agent' = "listening"
    /\ UNCHANGED <<mqttClient, registered, group, post, handling, topics, excused, events>>

Activated ==
    /\ agent = "listening"
    /\ \/ agent' = "running" /\ mqttClient' = "offline"
       \/ agent' = "halted" /\ UNCHANGED mqttClient
    /\ UNCHANGED <<registered, group, post, handling, topics, excused, events>>

(* The module's variables outlive stop, not the process.                   *)
HandlerIsSet == mqttClient # "none"

(* A variant to be told apart: only the first connection is followed by    *)
(* recreateSubscriptions.                                                  *)
ConnectOnce ==
    /\ mqttClient = "offline"
    /\ mqttClient' = "online"
    /\ excused' = {}
    /\ handling' = handling \union
         {[for |-> Connection, id |-> d, service |-> registered[d], key |-> None] :
            d \in {x \in Devices : registered[x] # None /\ events = 0}}
    /\ UNCHANGED <<agent, registered, group, post, topics, events>>

(* The client has connected, for the first time or again, to a broker with *)
(* a clean session; recreateSubscriptions runs the provisioning handler    *)
(* for every device of the registry, all at once.                          *)
Connect ==
    /\ mqttClient = "offline"
    /\ mqttClient' = "online"
    /\ excused' = {}
    /\ handling' = handling \union
         {[for |-> Connection, id |-> d, service |-> registered[d], key |-> None] :
            d \in {x \in Devices : registered[x] # None}}
    /\ UNCHANGED <<agent, registered, group, post, topics, events>>

---------------------------------------------------------------------------
(* handleProvision and provisionSingleDevice.  The first device to fail    *)
(* answers the request; the others go on.                                  *)
Provision(r) ==
    /\ agent \in {"listening", "halted", "running"}
    /\ post[r].answer = "none"
    /\ post' = [post EXCEPT ![r] = [answer |-> IF Body[r] = <<>> THEN "created" ELSE "open",
                                    part |-> [i \in Parts(r) |-> "registering"]]]
    /\ UNCHANGED <<agent, mqttClient, registered, group, handling, topics, excused, events>>

PartBecomes(r, i, stage) ==
    LET part == [post[r].part EXCEPT ![i] = stage]
    IN  post' = [post EXCEPT ![r] =
          [part |-> part,
           answer |-> IF @.answer # "open" THEN @.answer
                      ELSE IF stage = "failed" THEN "error"
                      ELSE IF \A j \in Parts(r) : part[j] = "done" THEN "created"
                      ELSE "open"]]

RunFor(r, i) == [for |-> <<r, i>>, id |-> Body[r][i], service |-> ServiceOf[r], key |-> None]

(* A variant to be told apart: the handler never calls back when there is  *)
(* none.                                                                   *)
ApplyOnlyIfSet(r, i) ==
    /\ PartBecomes(r, i, "handled")
    /\ handling' = handling \union IF HandlerIsSet THEN {RunFor(r, i)} ELSE {}

(* What follows a device's registration (the turn between the two changes  *)
(* nothing either could see).                                              *)
ApplyProvisioningHandler(r, i) ==
    IF HandlerIsSet
    THEN PartBecomes(r, i, "handled") /\ handling' = handling \union {RunFor(r, i)}
    ELSE PartBecomes(r, i, "done") /\ UNCHANGED handling

(* registerDevice has stored the device, or refused it: without its id or  *)
(* type, with an id that is taken, or for an answer of the Context Broker. *)
RegisterDevice(r, i) ==
    /\ post[r].part[i] = "registering"
    /\ \/ /\ registered[Body[r][i]] = None
          /\ registered' = [registered EXCEPT ![Body[r][i]] = ServiceOf[r]]
          /\ ApplyProvisioningHandler(r, i)
       \/ /\ PartBecomes(r, i, "failed")
          /\ UNCHANGED <<registered, handling>>
    /\ UNCHANGED <<agent, mqttClient, group, topics, excused, events>>

(* handleRemoveDevice: the registry forgets the device, the MQTT broker    *)
(* does not.                                                               *)
RemoveDevice(d) ==
    /\ d \in Removable
    /\ agent \in {"listening", "halted", "running"}
    /\ registered[d] # None
    /\ registered' = [registered EXCEPT ![d] = None]
    /\ UNCHANGED <<agent, mqttClient, group, post, handling, topics, excused, events>>

---------------------------------------------------------------------------
(* deviceProvisioningHandler: the key, then one packet with the topics.    *)
EffectiveApiKey(service) == IF group[service] # None THEN group[service] ELSE DefaultKey

(* What a run's end does to whoever waits for it.                          *)
CallsBack(run, stage) ==
    IF run.for = Connection \/ post[run.for[1]].answer = "lost" THEN UNCHANGED post
    ELSE PartBecomes(run.for[1], run.for[2], stage)

FailsWith(run) ==
    /\ handling' = handling \ {run}
    /\ excused' = excused \union {run.id}
    /\ CallsBack(run, "failed")

(* A variant to be told apart: the key of the group is not looked up.      *)
GetDefaultKey(run) ==
    /\ run.key = None
    /\ IF DefaultKey = None \/ mqttClient = "ended"
       THEN FailsWith(run)
       ELSE /\ handling' = (handling \ {run}) \union {[run EXCEPT !.key = DefaultKey]}
            /\ UNCHANGED <<post, excused>>
    /\ UNCHANGED <<agent, mqttClient, registered, group, topics, events>>

(* getEffectiveApiKey and generateDeviceTopics; the client takes the       *)
(* packet at once, unless it has been ended.                               *)
GetEffectiveApiKey(run) ==
    /\ run.key = None
    /\ LET key == EffectiveApiKey(run.service) IN
       IF key = None \/ mqttClient = "ended"
       THEN FailsWith(run)
       ELSE /\ handling' = (handling \ {run}) \union {[run EXCEPT !.key = key]}
            /\ UNCHANGED <<post, excused>>
    /\ UNCHANGED <<agent, mqttClient, registered, group, topics, events>>

(* A variant to be told apart: a grant is taken from a lost connection.    *)
SubscribeLate(run) ==
    /\ run.key # None
    /\ topics' = topics \union {<<run.key, run.id>>}
    /\ handling' = handling \ {run}
    /\ CallsBack(run, "done")
    /\ UNCHANGED <<agent, mqttClient, registered, group, excused, events>>

(* The MQTT broker grants the subscription or refuses it.                  *)
SubscribeToTopics(run) ==
    /\ run.key # None
    /\ mqttClient = "online"
    /\ \/ /\ topics' = topics \union {<<run.key, run.id>>}
          /\ handling' = handling \ {run}
          /\ CallsBack(run, "done")
          /\ UNCHANGED excused
       \/ FailsWith(run) /\ UNCHANGED topics
    /\ UNCHANGED <<agent, mqttClient, registered, group, events>>

---------------------------------------------------------------------------
(* The connection breaks.  A packet under way is lost, and its callback is *)
(* never called; one the client still queues will be sent.                 *)
Packets == {run \in handling : run.key # None}

Silenced(runs) ==
    post' = [r \in Requests |->
      [post[r] EXCEPT !.part = [i \in Parts(r) |->
         IF \E run \in runs : run.for = <<r, i>> THEN "silent" ELSE @[i]]]]

Drop(lost) ==
    /\ mqttClient = "online"
    /\ Happens
    /\ mqttClient' = "offline"
    /\ topics' = {}
    /\ handling' = handling \ lost
    /\ Silenced(lost)
    /\ UNCHANGED <<agent, registered, group, excused>>

(* stop: unsubscribeAll goes over the two fields of the object listDevices *)
(* answers with, and so unsubscribes no device; without a default key it   *)
(* fails, and nothing else of stop happens.  Then the client is ended, its *)
(* packets are gone, and the server closes.                                *)
Stop ==
    /\ agent = "running"
    /\ DefaultKey # None
    /\ Happens
    /\ agent' = "stopped"
    /\ mqttClient' = "ended"
    /\ topics' = {}
    /\ handling' = handling \ Packets
    /\ Silenced(Packets)
    /\ UNCHANGED <<registered, group, excused>>

(* The process dies.                                                       *)
Crash ==
    /\ agent # "down"
    /\ Happens
    /\ agent' = "down"
    /\ mqttClient' = "none"
    /\ registered' = IF Persistent THEN registered ELSE [d \in Devices |-> None]
    /\ group' = IF Persistent THEN group ELSE [s \in Services |-> None]
    /\ post' = [r \in Requests |->
         IF post[r].answer = "none" THEN post[r]
         ELSE [answer |-> IF post[r].answer = "open" THEN "lost" ELSE post[r].answer,
               part |-> [i \in Parts(r) |->
                           IF post[r].part[i] \in {"done", "failed"} THEN post[r].part[i]
                           ELSE "silent"]]]
    /\ handling' = {}
    /\ topics' = {}
    /\ excused' = {}

(* A group is created, changed or removed (Groups).                        *)
ChangeGroup(s, key) ==
    /\ <<s, key>> \in Changes
    /\ agent \in {"listening", "halted", "running"}
    /\ key # group[s]
    /\ Happens
    /\ group' = [group EXCEPT ![s] = key]
    /\ excused' = excused \union {d \in Devices : registered[d] = s}
    /\ UNCHANGED <<agent, mqttClient, registered, post, handling, topics>>

---------------------------------------------------------------------------
RunStep(run) == GetEffectiveApiKey(run) \/ SubscribeToTopics(run)

Next ==
    \/ Activate \/ Activated \/ Connect \/ Stop \/ Crash
    \/ \E lost \in {{}, Packets} : Drop(lost)
    \/ \E r \in Requests : Provision(r) \/ \E i \in Parts(r) : RegisterDevice(r, i)
    \/ \E d \in Devices : RemoveDevice(d)
    \/ \E run \in handling : RunStep(run)
    \/ \E s \in Services, key \in Keys \union {None} : ChangeGroup(s, key)

(* The event loop runs what is ready, the Context Broker and the MQTT      *)
(* broker answer, and the client reconnects.                               *)
Fairness ==
    /\ WF_vars(Connect)
    /\ WF_vars(\E run \in handling : RunStep(run))
    /\ \A r \in Requests : \A i \in Parts(r) : WF_vars(RegisterDevice(r, i))

Spec == Init /\ [][Next]_vars /\ Fairness

---------------------------------------------------------------------------
(* Connected and with no handler running, the agent hears every registered *)
(* device under its service's key, however the POST, the removals, the     *)
(* broken connections and the crashes came between storing the device and  *)
(* subscribing to its topics (recreateSubscriptions).  The log excuses the *)
(* rest: a subscription that failed, a key changed since the connection.   *)
HeardUnderItsKey ==
    mqttClient = "online" /\ handling = {} =>
        \A d \in Devices : registered[d] # None /\ d \notin excused =>
            <<EffectiveApiKey(registered[d]), d>> \in topics

(* Every POST is answered in the end, unless one of its subscriptions was  *)
(* under way when the connection broke or the agent stopped.               *)
EveryPostAnswered ==
    \A r \in Requests : post[r].answer = "open" ~>
        \/ post[r].answer # "open"
        \/ \E i \in Parts(r) : post[r].part[i] = "silent"
==============================================================================
