--------------------------- MODULE MqttAgentProofs ---------------------------
(***************************************************************************)
(* Proofs about MqttAgent, for any devices, services, POSTs and changes of *)
(* groups: its types, and that the agent hears every registered device     *)
(* under the key of its service once its handlers have ended.              *)
(*                                                                         *)
(* The second says nothing while a handler runs; what holds then is that   *)
(* whoever is not heard yet has a run of the handler on its way, with the  *)
(* right key as soon as it has one (HeardOrHandled).                       *)
(***************************************************************************)
EXTENDS MqttAgent, SequenceTheorems, TLAPS

(* The client is connected, or tries to, while the agent runs only.        *)
ClientOfAgent == mqttClient \in {"offline", "online"} => agent = "running"

(* A run that will subscribe to the topics device d should have.           *)
OnItsWay(d) ==
    \E run \in handling :
        /\ run.id = d /\ run.service = registered[d]
        /\ run.key \in {None, EffectiveApiKey(registered[d])}

HeardOrHandled ==
    mqttClient = "online" =>
        \A d \in Devices : registered[d] # None /\ d \notin excused =>
            \/ <<EffectiveApiKey(registered[d]), d>> \in topics
            \/ OnItsWay(d)

---------------------------------------------------------------------------
(* Types.                                                                  *)

PostOK ==
    /\ post \in [Requests -> [answer : {"none", "open", "lost"} \union Answers, part : Seq(Part)]]
    /\ \A r \in Requests : DOMAIN post[r].part = Parts(r)

LEMMA KeyType ==
  ASSUME TypeOK, NEW s \in Services
  PROVE  EffectiveApiKey(s) \in Keys \union {None}
BY MqttAssumption DEF TypeOK, EffectiveApiKey

LEMMA PartsAre ==
  ASSUME NEW r \in Requests
  PROVE  /\ Len(Body[r]) \in Nat /\ Parts(r) = 1 .. Len(Body[r])
         /\ \A i \in Parts(r) : Body[r][i] \in Devices
         /\ ServiceOf[r] \in Services
<1>1. Body[r] \in Seq(Devices) /\ ServiceOf[r] \in Services
  BY MqttAssumption
<1> QED
  BY <1>1, LenProperties, ElementOfSeq DEF Parts

(* The parts of a POST, one or more of them changed.                       *)
LEMMA PartsType ==
  ASSUME NEW r \in Requests, NEW part \in [Parts(r) -> Part]
  PROVE  part \in Seq(Part) /\ DOMAIN part = Parts(r)
BY PartsAre

LEMMA PartsOf ==
  ASSUME TypeOK, NEW r \in Requests
  PROVE  post[r].part \in [Parts(r) -> Part]
<1>1. post[r].part \in Seq(Part) /\ DOMAIN post[r].part = Parts(r)
  BY DEF TypeOK
<1> QED
  BY <1>1, LenProperties

LEMMA PostBecomes ==
  ASSUME TypeOK, NEW r \in Requests, NEW part \in [Parts(r) -> Part],
         NEW answer \in {"none", "open", "lost"} \union Answers,
         post' = [post EXCEPT ![r] = [answer |-> answer, part |-> part]]
  PROVE  PostOK'
<1>1. part \in Seq(Part) /\ DOMAIN part = Parts(r)
  BY PartsType
<1>2. [answer |-> answer, part |-> part] \in
         [answer : {"none", "open", "lost"} \union Answers, part : Seq(Part)]
  BY <1>1
<1>3. post' \in [Requests -> [answer : {"none", "open", "lost"} \union Answers, part : Seq(Part)]]
  BY <1>2 DEF TypeOK
<1>4. ASSUME NEW s \in Requests PROVE DOMAIN post'[s].part = Parts(s)
  BY <1>1 DEF TypeOK
<1>5. \A s \in Requests : Parts(s)' = Parts(s)
  BY DEF Parts
<1> QED
  BY <1>3, <1>4, <1>5 DEF PostOK

LEMMA PartBecomesType ==
  ASSUME TypeOK, NEW r \in Requests, NEW i, NEW stage \in Part, PartBecomes(r, i, stage)
  PROVE  PostOK'
<1> DEFINE part == [post[r].part EXCEPT ![i] = stage]
           answer == IF post[r].answer # "open" THEN post[r].answer
                     ELSE IF stage = "failed" THEN "error"
                     ELSE IF \A j \in Parts(r) : part[j] = "done" THEN "created"
                     ELSE "open"
<1>1. part \in [Parts(r) -> Part]
  BY PartsOf
<1>2. answer \in {"none", "open", "lost"} \union Answers
  BY DEF TypeOK, Answers
<1>3. post' = [post EXCEPT ![r] = [answer |-> answer, part |-> part]]
  BY DEF PartBecomes, TypeOK
<1> HIDE DEF answer, part
<1> QED
  BY <1>1, <1>2, <1>3, PostBecomes

LEMMA CallsBackType ==
  ASSUME TypeOK, NEW run \in handling, NEW stage \in Part, CallsBack(run, stage)
  PROVE  PostOK'
<1>1. CASE run.for = Connection \/ post[run.for[1]].answer = "lost"
  <2>1. post' = post
    BY <1>1 DEF CallsBack
  <2> QED
    BY <2>1 DEF TypeOK, PostOK, Parts
<1>2. CASE ~ (run.for = Connection \/ post[run.for[1]].answer = "lost")
  <2>1. run.for[1] \in Requests /\ PartBecomes(run.for[1], run.for[2], stage)
    BY <1>2 DEF TypeOK, Run, CallsBack
  <2> QED
    BY <2>1, PartBecomesType
<1> QED
  BY <1>1, <1>2

LEMMA SilencedType ==
  ASSUME TypeOK, NEW runs, Silenced(runs)
  PROVE  PostOK'
<1> DEFINE part(r) == [i \in Parts(r) |->
                         IF \E run \in runs : run.for = <<r, i>> THEN "silent" ELSE post[r].part[i]]
           q(r) == [post[r] EXCEPT !.part = part(r)]
<1>1. post' = [r \in Requests |-> q(r)]
  BY DEF Silenced
<1>2. ASSUME NEW r \in Requests
      PROVE  /\ q(r) \in [answer : {"none", "open", "lost"} \union Answers, part : Seq(Part)]
             /\ DOMAIN q(r).part = Parts(r)
  <2>1. part(r) \in [Parts(r) -> Part]
    BY PartsOf DEF Part
  <2>2. part(r) \in Seq(Part) /\ DOMAIN part(r) = Parts(r)
    BY <2>1, PartsType
  <2> HIDE DEF part
  <2> QED
    BY <2>2 DEF TypeOK
<1> HIDE DEF q
<1> QED
  BY <1>1, <1>2 DEF PostOK, Parts

LEMMA ClientStep == TypeOK /\ ClientOfAgent /\ [Next]_vars => ClientOfAgent'
BY DEF TypeOK, ClientOfAgent, vars, Next, Activate, Activated, Connect, Stop, Crash, Drop, Provision,
       RegisterDevice, RemoveDevice, RunStep, GetEffectiveApiKey, SubscribeToTopics, ChangeGroup

(* Types, step by step.                                                    *)
LEMMA TypeStep == TypeOK /\ ClientOfAgent /\ [Next]_vars => TypeOK'
<1> SUFFICES ASSUME TypeOK, ClientOfAgent, [Next]_vars PROVE TypeOK'
  OBVIOUS
<1>0. UNCHANGED post => PostOK'
  BY DEF TypeOK, PostOK, Parts
<1>1. CASE UNCHANGED vars
  BY <1>0, <1>1 DEF vars, TypeOK, PostOK
<1>2. CASE Activate \/ Activated
  <2>1. /\ agent' \in {"down", "listening", "halted", "running", "stopped"}
        /\ mqttClient' \in {"none", "offline", "online", "ended"}
        /\ mqttClient' = mqttClient \/ mqttClient' = "offline"
        /\ UNCHANGED <<registered, group, post, handling, topics, excused, events>>
    BY <1>2 DEF Activate, Activated, TypeOK
  <2>2. mqttClient' # "online" => topics' = {}
    BY <1>2 DEF Activate, Activated, TypeOK, ClientOfAgent
  <2> QED
    BY <1>0, <2>1, <2>2 DEF TypeOK, PostOK
<1>3. CASE Connect
  <2> DEFINE runs == {[for |-> Connection, id |-> d, service |-> registered[d], key |-> None] :
                        d \in {x \in Devices : registered[x] # None}}
  <2>1. runs \subseteq Run
    BY DEF TypeOK, Run
  <2>2. /\ handling' = handling \union runs /\ mqttClient' = "online" /\ excused' = {}
        /\ UNCHANGED <<agent, registered, group, post, topics, events>>
    BY <1>3 DEF Connect
  <2> HIDE DEF runs
  <2> QED
    BY <1>0, <2>1, <2>2 DEF TypeOK, PostOK
<1>4. CASE Stop
  <2>1. PostOK'
    BY <1>4, SilencedType DEF Stop
  <2> QED
    BY <1>4, <2>1, MqttAssumption DEF Stop, Happens, Packets, TypeOK, PostOK
<1>5. CASE Crash
  <2> DEFINE part(r) == [i \in Parts(r) |-> IF post[r].part[i] \in {"done", "failed"} THEN post[r].part[i]
                                            ELSE "silent"]
             answer(r) == IF post[r].answer = "open" THEN "lost" ELSE post[r].answer
  <2>1. post' = [r \in Requests |-> IF post[r].answer = "none" THEN post[r]
                                    ELSE [answer |-> answer(r), part |-> part(r)]]
    BY <1>5 DEF Crash
  <2>2. ASSUME NEW r \in Requests
        PROVE  /\ post'[r] \in [answer : {"none", "open", "lost"} \union Answers, part : Seq(Part)]
               /\ DOMAIN post'[r].part = Parts(r)
    <3>1. part(r) \in [Parts(r) -> Part]
      BY PartsOf DEF Part
    <3>2. part(r) \in Seq(Part) /\ DOMAIN part(r) = Parts(r)
      BY <3>1, PartsType
    <3>3. answer(r) \in {"none", "open", "lost"} \union Answers
      BY DEF TypeOK
    <3>4. /\ post[r] \in [answer : {"none", "open", "lost"} \union Answers, part : Seq(Part)]
          /\ DOMAIN post[r].part = Parts(r)
      BY DEF TypeOK
    <3> HIDE DEF part, answer
    <3>5. CASE post[r].answer = "none"
      BY <2>1, <3>4, <3>5
    <3>6. CASE post[r].answer # "none"
      <4>1. post'[r] = [answer |-> answer(r), part |-> part(r)]
        BY <2>1, <3>6
      <4> QED
        BY <3>2, <3>3, <4>1
    <3> QED
      BY <3>5, <3>6
  <2>3. PostOK'
    <3> HIDE DEF part, answer
    <3>1. post' = [r \in Requests |-> post'[r]]
      BY <2>1
    <3> QED
      BY <2>2, <3>1 DEF PostOK, Parts
  <2>4. /\ agent' = "down" /\ mqttClient' = "none" /\ handling' = {} /\ topics' = {} /\ excused' = {}
        /\ registered' \in [Devices -> Services \union {None}]
        /\ group' \in [Services -> Keys \union {None}]
        /\ events' \in 0 .. MaxEvents
    BY <1>5, MqttAssumption DEF Crash, Happens, TypeOK
  <2> QED
    BY <2>3, <2>4 DEF TypeOK, PostOK
<1>6. ASSUME NEW lost \in {{}, Packets}, Drop(lost) PROVE TypeOK'
  <2>1. PostOK'
    BY <1>6, SilencedType DEF Drop
  <2> QED
    BY <1>6, <2>1, MqttAssumption DEF Drop, Happens, TypeOK, PostOK
<1>7. ASSUME NEW r \in Requests, Provision(r) PROVE TypeOK'
  <2> DEFINE part == [i \in Parts(r) |-> "registering"]
             answer == IF Body[r] = <<>> THEN "created" ELSE "open"
  <2>1. part \in [Parts(r) -> Part] /\ answer \in {"none", "open", "lost"} \union Answers
    BY DEF Part, Answers
  <2>2. post' = [post EXCEPT ![r] = [answer |-> answer, part |-> part]]
    BY <1>7 DEF Provision
  <2> HIDE DEF part, answer
  <2>3. PostOK'
    BY <2>1, <2>2, PostBecomes
  <2> QED
    BY <1>7, <2>3 DEF Provision, TypeOK, PostOK
<1>8. ASSUME NEW r \in Requests, NEW i \in Parts(r), RegisterDevice(r, i) PROVE TypeOK'
  <2>1. Body[r][i] \in Devices /\ ServiceOf[r] \in Services /\ i \in Nat
    BY PartsAre
  <2>2. RunFor(r, i) \in Run
    BY <2>1 DEF RunFor, Run
  <2>3. \E stage \in {"handled", "done", "failed"} : PartBecomes(r, i, stage)
    BY <1>8 DEF RegisterDevice, ApplyProvisioningHandler
  <2>4. PostOK'
    BY <2>3, PartBecomesType DEF Part
  <2>5. handling' \subseteq Run /\ registered' \in [Devices -> Services \union {None}]
    BY <1>8, <2>1, <2>2 DEF RegisterDevice, ApplyProvisioningHandler, TypeOK
  <2> QED
    BY <1>8, <2>4, <2>5 DEF RegisterDevice, TypeOK, PostOK
<1>9. ASSUME NEW d \in Devices, RemoveDevice(d) PROVE TypeOK'
  BY <1>0, <1>9 DEF RemoveDevice, TypeOK, PostOK
<1>10. ASSUME NEW run \in handling, GetEffectiveApiKey(run) PROVE TypeOK'
  <2> DEFINE key == EffectiveApiKey(run.service)
  <2>1. run \in Run /\ run.id \in Devices /\ run.service \in Services
    BY DEF TypeOK, Run
  <2>2. key \in Keys \union {None}
    BY <2>1, KeyType
  <2>3. [run EXCEPT !.key = key] \in Run
    BY <2>1, <2>2 DEF Run
  <2>4. \/ FailsWith(run)
        \/ /\ handling' = (handling \ {run}) \union {[run EXCEPT !.key = key]}
           /\ UNCHANGED <<post, excused>>
    BY <1>10 DEF GetEffectiveApiKey
  <2>5. UNCHANGED <<agent, mqttClient, registered, group, topics, events>>
    BY <1>10 DEF GetEffectiveApiKey
  <2> HIDE DEF key
  <2>6. PostOK' /\ handling' \subseteq Run /\ excused' \subseteq Devices
    BY <1>0, <2>1, <2>3, <2>4, CallsBackType DEF FailsWith, Part, TypeOK
  <2> QED
    BY <2>5, <2>6 DEF TypeOK, PostOK
<1>11. ASSUME NEW run \in handling, SubscribeToTopics(run) PROVE TypeOK'
  <2>1. run.id \in Devices /\ run.key \in Keys /\ mqttClient = "online"
    BY <1>11 DEF TypeOK, Run, SubscribeToTopics
  <2>2. PostOK' /\ handling' \subseteq Run /\ excused' \subseteq Devices
    BY <1>11, <2>1, CallsBackType DEF SubscribeToTopics, FailsWith, Part, TypeOK
  <2>3. topics' \subseteq Keys \X Devices
    BY <1>11, <2>1 DEF SubscribeToTopics, TypeOK
  <2> QED
    BY <1>11, <2>1, <2>2, <2>3 DEF SubscribeToTopics, TypeOK, PostOK
<1>12. ASSUME NEW s \in Services, NEW key \in Keys \union {None}, ChangeGroup(s, key) PROVE TypeOK'
  BY <1>0, <1>12, MqttAssumption DEF ChangeGroup, Happens, TypeOK, PostOK
<1> QED
  BY <1>1, <1>2, <1>3, <1>4, <1>5, <1>6, <1>7, <1>8, <1>9, <1>10, <1>11, <1>12 DEF Next, RunStep

---------------------------------------------------------------------------
(* Whoever is not heard is on its way.                                     *)

LEMMA HeardStep == TypeOK /\ HeardOrHandled /\ [Next]_vars => HeardOrHandled'
<1> SUFFICES ASSUME TypeOK, HeardOrHandled, [Next]_vars, mqttClient' = "online",
                    NEW d \in Devices, registered'[d] # None, d \notin excused'
             PROVE  \/ <<EffectiveApiKey(registered[d])', d>> \in topics'
                    \/ OnItsWay(d)'
  BY DEF HeardOrHandled
<1> USE DEF OnItsWay
(* A step that keeps the device's service, its key and what is done for it.*)
<1>1. ASSUME mqttClient = "online", d \notin excused, registered'[d] = registered[d],
             EffectiveApiKey(registered[d])' = EffectiveApiKey(registered[d]),
             topics \subseteq topics', handling \subseteq handling'
      PROVE  \/ <<EffectiveApiKey(registered[d])', d>> \in topics'
             \/ OnItsWay(d)'
  BY <1>1 DEF HeardOrHandled
<1>2. CASE UNCHANGED vars
  BY <1>1, <1>2 DEF vars, EffectiveApiKey
<1>3. CASE Activate \/ Activated
  BY <1>1, <1>3 DEF Activate, Activated, EffectiveApiKey
<1>4. CASE Connect
  <2> DEFINE run == [for |-> Connection, id |-> d, service |-> registered[d], key |-> None]
  <2>1. run \in handling' /\ registered' = registered
    BY <1>4 DEF Connect
  <2>2. run.id = d /\ run.service = registered[d] /\ run.key = None
    OBVIOUS
  <2> HIDE DEF run
  <2> QED
    BY <2>1, <2>2
<1>5. CASE Stop \/ Crash \/ \E lost \in {{}, Packets} : Drop(lost)
  BY <1>5 DEF Stop, Crash, Drop
<1>6. ASSUME NEW r \in Requests, Provision(r)
      PROVE  <<EffectiveApiKey(registered[d])', d>> \in topics' \/ OnItsWay(d)'
  BY <1>1, <1>6 DEF Provision, EffectiveApiKey
<1>7. ASSUME NEW r \in Requests, NEW i \in Parts(r), RegisterDevice(r, i)
      PROVE  <<EffectiveApiKey(registered[d])', d>> \in topics' \/ OnItsWay(d)'
  <2>1. /\ mqttClient = "online" /\ handling \subseteq handling'
        /\ UNCHANGED <<agent, mqttClient, group, topics, excused, events>>
    BY <1>7 DEF RegisterDevice, ApplyProvisioningHandler
  <2>2. CASE registered'[d] = registered[d]
    BY <1>1, <2>1, <2>2 DEF EffectiveApiKey
  <2>3. CASE registered'[d] # registered[d]
    <3>1. d = Body[r][i] /\ registered' = [registered EXCEPT ![d] = ServiceOf[r]]
          /\ RunFor(r, i) \in handling'
      BY <1>7, <2>1, <2>3 DEF RegisterDevice, ApplyProvisioningHandler, HandlerIsSet, TypeOK
    <3>2. registered'[d] = ServiceOf[r]
      BY <3>1 DEF TypeOK
    <3>3. RunFor(r, i).id = d /\ RunFor(r, i).service = registered'[d] /\ RunFor(r, i).key = None
      BY <3>1, <3>2 DEF RunFor
    <3> QED
      BY <3>1, <3>3
  <2> QED
    BY <2>2, <2>3
<1>8. ASSUME NEW x \in Devices, RemoveDevice(x)
      PROVE  <<EffectiveApiKey(registered[d])', d>> \in topics' \/ OnItsWay(d)'
  <2>1. d # x /\ registered'[d] = registered[d]
    BY <1>8 DEF RemoveDevice, TypeOK
  <2> QED
    BY <1>1, <1>8, <2>1 DEF RemoveDevice, EffectiveApiKey
<1>9. ASSUME NEW run \in handling, GetEffectiveApiKey(run)
      PROVE  <<EffectiveApiKey(registered[d])', d>> \in topics' \/ OnItsWay(d)'
  <2> DEFINE key == EffectiveApiKey(run.service)
             next == [run EXCEPT !.key = key]
  <2>1. /\ UNCHANGED <<agent, mqttClient, registered, group, topics, events>>
        /\ \/ handling' = handling \ {run} /\ excused' = excused \union {run.id}
           \/ /\ handling' = (handling \ {run}) \union {next}
              /\ UNCHANGED excused
    BY <1>9 DEF GetEffectiveApiKey, FailsWith
  <2>2. mqttClient = "online" /\ registered[d] # None /\ d \notin excused
    BY <2>1
  <2>3. EffectiveApiKey(registered[d])' = EffectiveApiKey(registered[d])
    BY <2>1 DEF EffectiveApiKey
  <2>4. CASE <<EffectiveApiKey(registered[d]), d>> \in topics
    BY <2>1, <2>3, <2>4
  <2>5. CASE OnItsWay(d)
    <3>1. PICK w \in handling : /\ w.id = d /\ w.service = registered[d]
                                /\ w.key \in {None, EffectiveApiKey(registered[d])}
      BY <2>5
    <3>2. CASE w # run
      BY <2>1, <2>3, <3>1, <3>2
    <3>3. CASE w = run
      <4>1. handling' = (handling \ {run}) \union {next}
        BY <2>1, <3>1, <3>3
      <4>2. next.id = run.id /\ next.service = run.service /\ next.key = key
        BY DEF TypeOK, Run
      <4> HIDE DEF next
      <4> QED
        BY <2>1, <2>3, <3>1, <3>3, <4>1, <4>2
    <3> QED
      BY <3>2, <3>3
  <2> QED
    BY <2>2, <2>4, <2>5 DEF HeardOrHandled
<1>10. ASSUME NEW run \in handling, SubscribeToTopics(run)
       PROVE  <<EffectiveApiKey(registered[d])', d>> \in topics' \/ OnItsWay(d)'
  <2>1. /\ UNCHANGED <<agent, mqttClient, registered, group, events>>
        /\ handling' = handling \ {run} /\ run.key # None
        /\ \/ topics' = topics \union {<<run.key, run.id>>} /\ UNCHANGED excused
           \/ excused' = excused \union {run.id} /\ UNCHANGED topics
    BY <1>10 DEF SubscribeToTopics, FailsWith
  <2>2. mqttClient = "online" /\ registered[d] # None /\ d \notin excused
    BY <2>1
  <2>3. EffectiveApiKey(registered[d])' = EffectiveApiKey(registered[d])
    BY <2>1 DEF EffectiveApiKey
  <2>4. CASE <<EffectiveApiKey(registered[d]), d>> \in topics
    BY <2>1, <2>3, <2>4
  <2>5. CASE OnItsWay(d)
    <3>1. PICK w \in handling : /\ w.id = d /\ w.service = registered[d]
                                /\ w.key \in {None, EffectiveApiKey(registered[d])}
      BY <2>5
    <3>2. CASE w # run
      BY <2>1, <2>3, <3>1, <3>2
    <3>3. CASE w = run
      BY <2>1, <2>3, <3>1, <3>3
    <3> QED
      BY <3>2, <3>3
  <2> QED
    BY <2>2, <2>4, <2>5 DEF HeardOrHandled
<1>11. ASSUME NEW s \in Services, NEW key \in Keys \union {None}, ChangeGroup(s, key)
       PROVE  <<EffectiveApiKey(registered[d])', d>> \in topics' \/ OnItsWay(d)'
  <2>1. /\ group' = [group EXCEPT ![s] = key]
        /\ excused' = excused \union {x \in Devices : registered[x] = s}
        /\ UNCHANGED <<mqttClient, registered, handling, topics>>
    BY <1>11 DEF ChangeGroup
  <2>2. registered[d] # s /\ registered[d] \in Services /\ d \notin excused
    BY <2>1 DEF TypeOK
  <2>3. EffectiveApiKey(registered[d])' = EffectiveApiKey(registered[d])
    BY <2>1, <2>2 DEF EffectiveApiKey, TypeOK
  <2> QED
    BY <1>1, <2>1, <2>2, <2>3
<1> QED
  BY <1>2, <1>3, <1>4, <1>5, <1>6, <1>7, <1>8, <1>9, <1>10, <1>11 DEF Next, RunStep

LEMMA InitInv == Init => TypeOK /\ ClientOfAgent /\ HeardOrHandled
<1> SUFFICES ASSUME Init PROVE TypeOK /\ ClientOfAgent /\ HeardOrHandled
  OBVIOUS
<1>1. ASSUME NEW r \in Requests
      PROVE  /\ [i \in Parts(r) |-> "todo"] \in Seq(Part)
             /\ DOMAIN [i \in Parts(r) |-> "todo"] = Parts(r)
  <2>1. [i \in Parts(r) |-> "todo"] \in [Parts(r) -> Part]
    BY DEF Part
  <2> QED
    BY <2>1, PartsType
<1>2. /\ post \in [Requests -> [answer : {"none", "open", "lost"} \union Answers, part : Seq(Part)]]
      /\ \A r \in Requests : DOMAIN post[r].part = Parts(r)
  BY <1>1 DEF Init
<1>3. TypeOK
  BY <1>2, MqttAssumption DEF Init, TypeOK
<1> QED
  BY <1>3 DEF Init, ClientOfAgent, HeardOrHandled

---------------------------------------------------------------------------
(* What follows.                                                           *)

LEMMA Invariance == Spec => [](TypeOK /\ ClientOfAgent /\ HeardOrHandled)
<1>1. TypeOK /\ ClientOfAgent /\ HeardOrHandled /\ [Next]_vars
        => (TypeOK /\ ClientOfAgent /\ HeardOrHandled)'
  BY TypeStep, ClientStep, HeardStep
<1> QED
  BY <1>1, InitInv, PTL DEF Spec

(* Types: the agent is subscribed to topics of known keys and devices      *)
(* only, and to none unless it is connected.                               *)
THEOREM TypeCorrect == Spec => []TypeOK
BY Invariance, PTL

(* Connected and with no handler running, the agent hears every registered *)
(* device under its service's key (recreateSubscriptions), whatever POSTs, *)
(* removals, broken connections, crashes and group changes there were.     *)
THEOREM EveryDeviceHeard == Spec => []HeardUnderItsKey
<1>1. HeardOrHandled => HeardUnderItsKey
  BY DEF HeardOrHandled, HeardUnderItsKey, OnItsWay
<1> QED
  BY <1>1, Invariance, PTL

==============================================================================
