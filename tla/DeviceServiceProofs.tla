------------------------ MODULE DeviceServiceProofs ------------------------
(***************************************************************************)
(* Proofs about DeviceService: its types; that the Context Broker's        *)
(* entities cover the registry when the provisioning API's PUT is not      *)
(* used; that registering never takes over an id that is in use; and,      *)
(* among clients that wait for answers, that a device leaves the registry  *)
(* only once the Context Broker has let go of its registration, and that   *)
(* until something fails the registry and the broker agree.                *)
(***************************************************************************)
EXTENDS DeviceService, SequenceTheorems, TLAPS

\* Stages in which a call works on the objects it holds.
HoldsNew == {"get", "difference", "combining", "update", "updating", "clone", "replace"}
HoldsOld == {"difference", "combining", "update", "updating", "clone",
             "unsubscribe", "unsubscribing", "expire", "expiring"}

\* TypeOK is not inductive: a call that reads the object it holds must hold one,
\* and a call that looks its device up must have one.
Holding ==
  \A r \in Req :
    /\ call[r].at \in HoldsNew => call[r].new \in Req /\ call[r].dev \in DeviceId
    /\ call[r].at \in HoldsOld => call[r].old \in Req

TypeInv == TypeOK /\ Holding

----------------------------------------------------------------------------
\* Why the entities cover the registry.

\* A call has a device once it is made, and nothing before.
Began ==
  \A r \in Req : IF call[r].at = "idle" THEN call[r] = NoCall ELSE call[r].dev \in DeviceId

\* Only calls that were made have requests and answers.
Asked == \A m \in sent \cup answers : call[m.req].at # "idle"

\* Without PUT, an updating call works on an object of its own.
OwnsNew == \A r \in Req : call[r].at \in HoldsNew => call[r].new = r

CoveredFor(o, d) == call[o].dev = d /\ heap[o].active \subseteq entity[d]

\* What the registry holds is covered, and so is what calls got from it.
RegistryCovered ==
  \A d \in DeviceId : registered[d] # None => CoveredFor(registered[d], d)

HeldCovered ==
  \A r \in Req : call[r].old # None => CoveredFor(call[r].old, call[r].dev)

\* A request to the entity brings what the entity lacks of the call's object.
RequestsCover ==
  \A m \in sent : m.kind = "entity" =>
    heap[m.req].active \subseteq m.attrs \cup entity[call[m.req].dev]

AnswersCovered ==
  \A a \in answers : a.kind = "entity" /\ a.result = "ok" =>
    heap[a.req].active \subseteq entity[call[a.req].dev]

ReplacementCovered ==
  \A r \in Req : call[r].at \in {"update", "updating", "clone", "replace"} =>
    heap[r].active \subseteq entity[call[r].dev]

CoverInv ==
  /\ Began /\ Asked /\ OwnsNew
  /\ RegistryCovered /\ HeldCovered
  /\ RequestsCover /\ AnswersCovered /\ ReplacementCovered

----------------------------------------------------------------------------
\* Splice leaves a sequence of the same kind.
LEMMA SpliceType ==
  ASSUME NEW S, NEW list \in Seq(S)
  PROVE  Splice(list) \in Seq(S)
<1>1. CASE Len(list) = 0
  BY <1>1, SubSeqEmpty, EmptySeq, LenProperties DEF Splice
<1>2. CASE Len(list) # 0
  <2>1. Len(list) \in Nat /\ Len(list) - 1 <= Len(list)
    BY LenProperties
  <2>2. \A i \in 1..(Len(list) - 1) : list[i] \in S
    BY <2>1, ElementOfSeq
  <2> QED
    BY <1>2, <2>1, <2>2 DEF Splice
<1> QED
  BY <1>1, <1>2

LEMMA InitType == Init => TypeInv
BY ConstantsAssumption
DEF Init, TypeInv, TypeOK, Holding, Ref, Device, NoDevice, NoCall, Call, Stage, HoldsNew, HoldsOld

\* Moving a call on changes its stage and nothing else.
LEMMA MoveEffect ==
  ASSUME call \in [Req -> Call], NEW r \in Req, NEW stage \in Stage, call' = Move(r, stage)
  PROVE  /\ call' \in [Req -> Call]
         /\ \A q \in Req :
              /\ call'[q].op = call[q].op /\ call'[q].dev = call[q].dev
              /\ call'[q].old = call[q].old /\ call'[q].new = call[q].new
              /\ call'[q].at = IF q = r THEN stage ELSE call[q].at
<1> DEFINE c == [call[r] EXCEPT !.at = stage]
<1>1. call[r] \in Call
  OBVIOUS
<1>2. /\ c \in Call /\ c.at = stage
      /\ c.op = call[r].op /\ c.dev = call[r].dev
      /\ c.old = call[r].old /\ c.new = call[r].new
  BY <1>1 DEF Call
<1>3. call' = [call EXCEPT ![r] = c]
  BY DEF Move
<1> QED
  BY <1>2, <1>3

\* A call that moves on to a stage whose objects it holds keeps the types.
LEMMA MoveType ==
  ASSUME TypeInv, NEW r \in Req, NEW stage \in Stage,
         stage \in HoldsNew => call[r].new \in Req /\ call[r].dev \in DeviceId,
         stage \in HoldsOld => call[r].old \in Req,
         call' = Move(r, stage)
  PROVE  call' \in [Req -> Call] /\ Holding'
<1>1. call \in [Req -> Call] /\ Holding
  BY DEF TypeInv, TypeOK
<1>2. /\ call' \in [Req -> Call]
      /\ \A q \in Req :
           /\ call'[q].old = call[q].old /\ call'[q].new = call[q].new
           /\ call'[q].dev = call[q].dev
           /\ call'[q].at = IF q = r THEN stage ELSE call[q].at
  BY <1>1, MoveEffect
<1>3. Holding'
  BY <1>1, <1>2 DEF Holding
<1> QED
  BY <1>2, <1>3

\* So does a call that is made.
LEMMA BeginType ==
  ASSUME TypeInv, NEW r \in Req, NEW op \in Ops, NEW d \in DeviceId,
         NEW old \in Ref, NEW new \in Ref, NEW stage \in Stage,
         stage \in HoldsNew => new \in Req,
         stage \in HoldsOld => old \in Req,
         Begin(r, op, d, old, new, stage)
  PROVE  call' \in [Req -> Call] /\ Holding'
<1> DEFINE c == [op |-> op, dev |-> d, old |-> old, new |-> new, at |-> stage]
<1>1. c \in Call
  BY DEF Call
<1>2. call' = [call EXCEPT ![r] = c] /\ call \in [Req -> Call]
  BY DEF Begin, TypeInv, TypeOK
<1>3. \A q \in Req : call'[q] = IF q = r THEN c ELSE call[q]
  BY <1>2
<1>4. Holding'
  <2> SUFFICES ASSUME NEW q \in Req
               PROVE  /\ call'[q].at \in HoldsNew => call'[q].new \in Req /\ call'[q].dev \in DeviceId
                      /\ call'[q].at \in HoldsOld => call'[q].old \in Req
    BY DEF Holding
  <2>1. CASE q = r
    BY <2>1, <1>3
  <2>2. CASE q # r
    BY <2>2, <1>3 DEF TypeInv, Holding
  <2> QED
    BY <2>1, <2>2
<1> QED
  BY <1>1, <1>2, <1>4

LEMMA MsgType ==
  ASSUME NEW r \in Req, NEW kind \in MsgKind, NEW id \in Ref, NEW attrs \in SUBSET Attr
  PROVE  Msg(r, kind, id, attrs) \in Message
BY DEF Msg, Message

\* The rest of the state, for steps that leave the Context Broker alone.
LEMMA AgentType ==
  ASSUME TypeInv,
         registered' \in [DeviceId -> Ref], heap' \in [Req -> Device],
         lists' \in [Req -> Seq(Req)], call' \in [Req -> Call] /\ Holding',
         sent' \subseteq Message, answers' \subseteq answers, UNCHANGED brokerVars
  PROVE  TypeInv'
BY DEF TypeInv, TypeOK, brokerVars

LEMMA ClientType ==
  ASSUME TypeInv, Client
  PROVE  TypeInv'
<1> USE DEF MayStart, Ref
<1>t. /\ registered \in [DeviceId -> Ref] /\ heap \in [Req -> Device]
      /\ lists \in [Req -> Seq(Req)] /\ call \in [Req -> Call] /\ Holding
      /\ sent \subseteq Message /\ None \in Ref
  BY DEF TypeInv, TypeOK
<1>1. ASSUME NEW r \in Req, NEW d \in DeviceId,
             NEW active \in SUBSET Attr, NEW lazy \in BOOLEAN, RegisterDevice(r, d, active, lazy)
      PROVE  TypeInv'
  <2>1. heap' \in [Req -> Device]
    BY <1>1, <1>t DEF RegisterDevice, Device, NoDevice
  <2>2. sent' \subseteq Message
    <3>1. Msg(r, "register", None, {}) \in Message /\ Msg(r, "entity", None, active) \in Message
      BY <1>1, <1>t, MsgType DEF MsgKind
    <3> QED
      BY <1>1, <1>t, <3>1 DEF RegisterDevice
  <2>3. call' \in [Req -> Call] /\ Holding'
    BY <1>1, BeginType DEF RegisterDevice, Stage, HoldsNew, HoldsOld
  <2> QED
    BY <1>1, <1>t, <2>1, <2>2, <2>3, AgentType DEF RegisterDevice
<1>2. ASSUME NEW r \in Req, NEW d \in DeviceId,
             NEW active \in SUBSET Attr, NEW lazy \in BOOLEAN, UpdateDevice(r, d, active, lazy)
      PROVE  TypeInv'
  <2>1. heap' \in [Req -> Device]
    BY <1>2, <1>t DEF UpdateDevice, Device, NoDevice
  <2>2. call' \in [Req -> Call] /\ Holding'
    BY <1>2, BeginType DEF UpdateDevice, Stage, HoldsNew, HoldsOld
  <2> QED
    BY <1>2, <1>t, <2>1, <2>2, AgentType DEF UpdateDevice
<1>3. ASSUME NEW r \in Req, NEW d \in DeviceId, NEW active \in SUBSET Attr, NEW lazy \in BOOLEAN,
             NEW fields \in 1..2, PutDevice(r, d, active, lazy, fields)
      PROVE  TypeInv'
  <2> DEFINE o == registered[d]
  <2>1. heap' \in [Req -> Device]
    <3>1. CASE o = None
      BY <1>3, <1>t, <3>1 DEF PutDevice
    <3>2. CASE o # None
      <4> DEFINE new == [heap[o] EXCEPT !.active = active, !.lazy = lazy]
      <4>1. heap[o] \in Device
        BY <1>t, <3>2
      <4>2. new \in Device
        BY <1>3, <4>1 DEF Device
      <4>3. heap' = [heap EXCEPT ![o] = new]
        BY <1>3, <3>2 DEF PutDevice
      <4> QED
        BY <1>t, <4>2, <4>3
    <3> QED
      BY <3>1, <3>2
  <2>2. CASE o = None
    <3>1. call' \in [Req -> Call] /\ Holding'
      BY <1>3, <2>2, BeginType DEF PutDevice, Stage, Ended, HoldsNew, HoldsOld
    <3> QED
      BY <1>3, <1>t, <2>1, <3>1, AgentType DEF PutDevice
  <2>3. CASE o # None
    <3>1. o \in Req
      BY <2>3, <1>t
    <3>2. CASE fields = 1
      <4>1. Begin(r, "put", d, None, o, "error")
        BY <1>3, <2>3, <3>2 DEF PutDevice
      <4>2. call' \in [Req -> Call] /\ Holding'
        BY <1>3, <3>1, <4>1, BeginType DEF PutDevice, Stage, Ended, HoldsNew, HoldsOld
      <4> QED
        BY <1>3, <1>t, <2>1, <4>2, AgentType DEF PutDevice
    <3>3. CASE fields # 1
      <4>1. Begin(r, "put", d, None, o, "get")
        BY <1>3, <2>3, <3>3 DEF PutDevice
      <4>2. call' \in [Req -> Call] /\ Holding'
        BY <1>3, <3>1, <4>1, BeginType DEF PutDevice, Stage, HoldsNew, HoldsOld
      <4> QED
        BY <1>3, <1>t, <2>1, <4>2, AgentType DEF PutDevice
    <3> QED
      BY <3>2, <3>3
  <2> QED
    BY <2>2, <2>3
<1>4. ASSUME NEW r \in Req, NEW d \in DeviceId, UnregisterDevice(r, d)
      PROVE  TypeInv'
  <2>1. registered[d] \in Ref /\ "unregister" \in Ops
    BY <1>4, <1>t DEF UnregisterDevice
  <2>2. CASE registered[d] = None
    <3>1. call' \in [Req -> Call] /\ Holding'
      BY <1>4, <2>1, <2>2, BeginType DEF UnregisterDevice, Stage, Ended, HoldsNew, HoldsOld
    <3> QED
      BY <1>4, <1>t, <3>1, AgentType DEF UnregisterDevice
  <2>3. CASE registered[d] # None
    <3>1. call' \in [Req -> Call] /\ Holding'
      BY <1>4, <2>1, <2>3, BeginType DEF UnregisterDevice, Stage, HoldsNew, HoldsOld
    <3> QED
      BY <1>4, <1>t, <3>1, AgentType DEF UnregisterDevice
  <2> QED
    BY <2>2, <2>3
<1>5. ASSUME NEW r \in Req, NEW d \in DeviceId, Subscribe(r, d)
      PROVE  TypeInv'
  <2>1. sent' \subseteq Message
    BY <1>5, <1>t, MsgType DEF Subscribe, MsgKind
  <2>2. call' \in [Req -> Call] /\ Holding'
    BY <1>5, <1>t, BeginType DEF Subscribe, Stage, HoldsNew, HoldsOld
  <2> QED
    BY <1>5, <1>t, <2>1, <2>2, AgentType DEF Subscribe
<1>6. ASSUME NEW r \in Req, NEW d \in DeviceId, Unsubscribe(r, d)
      PROVE  TypeInv'
  <2> DEFINE o == registered[d]
             l == heap[o].subscriptions
  <2>1. o \in Req /\ l \in Req
    BY <1>6, <1>t DEF Unsubscribe, Device
  <2>2. PICK i \in DOMAIN lists[l] :
          /\ sent' = sent \cup {Msg(r, "unsubscribe", lists[l][i], {})}
          /\ Begin(r, "unsubscribe", d, o, lists[l][i], "unsubscribing")
    BY <1>6 DEF Unsubscribe
  <2>3. lists[l][i] \in Req
    BY <1>t, <2>1, <2>2
  <2>4. sent' \subseteq Message
    BY <1>t, <2>2, <2>3, MsgType DEF MsgKind
  <2>5. call' \in [Req -> Call] /\ Holding'
    BY <1>6, <2>1, <2>2, <2>3, BeginType DEF Unsubscribe, Stage, HoldsNew, HoldsOld
  <2> QED
    BY <1>6, <1>t, <2>4, <2>5, AgentType DEF Unsubscribe
<1>7. ASSUME ClearRegistry
      PROVE  TypeInv'
  BY <1>7 DEF ClearRegistry, TypeInv, TypeOK, Holding, brokerVars
<1> QED
  BY <1>1, <1>2, <1>3, <1>4, <1>5, <1>6, <1>7 DEF Client

LEMMA TaskType ==
  ASSUME TypeInv, NEW r \in Req, Task(r)
  PROVE  TypeInv'
<1>t. /\ registered \in [DeviceId -> Ref] /\ heap \in [Req -> Device]
      /\ lists \in [Req -> Seq(Req)] /\ call \in [Req -> Call] /\ Holding
      /\ sent \subseteq Message /\ None \in Ref
  BY DEF TypeInv, TypeOK, Ref
<1>h. /\ call[r].at \in HoldsNew => call[r].new \in Req /\ call[r].dev \in DeviceId
      /\ call[r].at \in HoldsOld => call[r].old \in Req
      /\ call[r] \in Call
  BY <1>t DEF Holding
<1>1. CASE GetOld(r)
  <2> DEFINE o == registered[call[r].dev]
             c == [call[r] EXCEPT !.old = o, !.at = IF o = None THEN "error" ELSE "difference"]
  <2>1. call[r].dev \in DeviceId /\ call[r].new \in Req
    BY <1>1, <1>h DEF GetOld, HoldsNew
  <2>2. o \in Ref
    BY <1>t, <2>1
  <2>3. /\ c \in Call /\ c.dev = call[r].dev /\ c.old = o /\ c.new = call[r].new
        /\ c.at = IF o = None THEN "error" ELSE "difference"
    BY <1>h, <2>2 DEF Call, Stage, Ended
  <2>4. call' = [call EXCEPT ![r] = c]
    BY <1>1 DEF GetOld
  <2>5. Holding'
    BY <1>t, <2>1, <2>2, <2>3, <2>4 DEF Holding, Ref, HoldsNew, HoldsOld
  <2> QED
    BY <1>1, <1>t, <2>3, <2>4, <2>5, AgentType DEF GetOld
<1>2. CASE SendDifference(r)
  <2> DEFINE attrs == NewAttributes(heap[call[r].new].active, heap[call[r].old].active)
  <2>1. call[r].new \in Req
    BY <1>2, <1>h DEF SendDifference, HoldsNew
  <2>2. attrs \in SUBSET Attr
    BY <1>t, <2>1 DEF NewAttributes, Device
  <2>3. sent' \subseteq Message
    BY <1>2, <1>t, <2>2, MsgType DEF SendDifference, MsgKind
  <2>4. call' \in [Req -> Call] /\ Holding'
    BY <1>2, <1>h, MoveType DEF SendDifference, Stage, HoldsNew, HoldsOld
  <2> QED
    BY <1>2, <1>t, <2>3, <2>4, AgentType DEF SendDifference
<1>3. CASE SendUpdate(r)
  <2> DEFINE id == KnownRegistration(heap[call[r].old])
  <2>1. call[r].old \in Req /\ call[r].new \in Req /\ call[r].dev \in DeviceId
    BY <1>3, <1>h DEF SendUpdate, HoldsOld, HoldsNew
  <2>2. id \in Ref
    BY <1>t, <2>1 DEF KnownRegistration, Device
  <2>3. Msg(r, "register", id, {}) \in Message
    BY <2>2, MsgType DEF MsgKind
  <2>4. sent' \subseteq Message
    BY <1>3, <1>t, <2>3 DEF SendUpdate
  <2>5. call' = Move(r, "updating") \/ call' = Move(r, "clone")
    BY <1>3 DEF SendUpdate
  <2>6. call' \in [Req -> Call] /\ Holding'
    BY <2>1, <2>5, MoveType DEF Stage
  <2> QED
    BY <1>3, <1>t, <2>4, <2>6, AgentType DEF SendUpdate
<1>4. CASE OnNothingToUpdate(r)
  <2>1. call[r].old \in Req /\ call[r].new \in Req /\ call[r].dev \in DeviceId
    BY <1>4, <1>h DEF OnNothingToUpdate, HoldsOld, HoldsNew
  <2>2. heap' \in [Req -> Device]
    <3> DEFINE id == heap[call[r].old].registrationId
               new == [heap[call[r].new] EXCEPT !.registrationId = id]
    <3>1. heap[call[r].new] \in Device /\ heap[call[r].old] \in Device
      BY <1>t, <2>1
    <3>2. new \in Device
      BY <3>1 DEF Device
    <3>3. heap' = [heap EXCEPT ![r] = new]
      BY <1>4 DEF OnNothingToUpdate, CloneWith
    <3> QED
      BY <1>t, <3>2, <3>3
  <2>3. call' \in [Req -> Call] /\ Holding'
    BY <1>4, <2>1, MoveType DEF OnNothingToUpdate, Stage
  <2> QED
    BY <1>4, <1>t, <2>2, <2>3, AgentType DEF OnNothingToUpdate
<1>5. CASE ReplaceDevice(r)
  <2>1. registered' \in [DeviceId -> Ref]
    BY <1>5, <1>t DEF ReplaceDevice, Ref
  <2>2. call' \in [Req -> Call] /\ Holding'
    BY <1>5, MoveType DEF ReplaceDevice, Stage, Ended, HoldsNew, HoldsOld
  <2> QED
    BY <1>5, <1>t, <2>1, <2>2, AgentType DEF ReplaceDevice
<1>6. CASE SendUnsubscriptions(r)
  <2> DEFINE list == ListOf(call[r].old)
  <2>1. call[r].old \in Req
    BY <1>6, <1>h DEF SendUnsubscriptions, HoldsOld
  <2>2. list \in Seq(Req)
    <3>1. heap[call[r].old].subscriptions \in Ref
      BY <1>t, <2>1 DEF Device
    <3> QED
      BY <1>t, <3>1 DEF ListOf, Ref
  <2>3. \A i \in DOMAIN list : list[i] \in Ref
    BY <2>2 DEF Ref
  <2>4. \A i \in DOMAIN list : Msg(r, "unsubscribe", list[i], {}) \in Message
    BY <2>3, MsgType DEF MsgKind
  <2>5. sent' \subseteq Message
    BY <1>6, <1>t, <2>4 DEF SendUnsubscriptions
  <2>6. call' = Move(r, "expire") \/ call' = Move(r, "unsubscribing")
    BY <1>6 DEF SendUnsubscriptions
  <2>7. call' \in [Req -> Call] /\ Holding'
    BY <2>1, <2>6, MoveType DEF Stage, HoldsNew
  <2> QED
    BY <1>6, <1>t, <2>5, <2>7, AgentType DEF SendUnsubscriptions
<1>7. CASE SendExpire(r)
  <2> DEFINE id == KnownRegistration(heap[call[r].old])
  <2>1. call[r].old \in Req
    BY <1>7, <1>h DEF SendExpire, HoldsOld
  <2>2. id \in Ref
    BY <1>t, <2>1 DEF KnownRegistration, Device
  <2>3. Msg(r, "expire", id, {}) \in Message
    BY <2>2, MsgType DEF MsgKind
  <2>4. sent' \subseteq Message
    BY <1>7, <1>t, <2>3 DEF SendExpire
  <2>5. call' = Move(r, "expiring") \/ call' = Move(r, "remove")
    BY <1>7 DEF SendExpire
  <2>6. call' \in [Req -> Call] /\ Holding'
    BY <2>1, <2>5, MoveType DEF Stage, HoldsNew, HoldsOld
  <2> QED
    BY <1>7, <1>t, <2>4, <2>6, AgentType DEF SendExpire
<1>8. CASE RemoveUnregistered(r)
  <2>1. registered' \in [DeviceId -> Ref]
    BY <1>8, <1>t DEF RemoveUnregistered, Remove
  <2>2. call' \in [Req -> Call] /\ Holding'
    BY <1>8, MoveType DEF RemoveUnregistered, Stage, Ended, HoldsNew, HoldsOld
  <2> QED
    BY <1>8, <1>t, <2>1, <2>2, AgentType DEF RemoveUnregistered
<1> QED
  BY <1>1, <1>2, <1>3, <1>4, <1>5, <1>6, <1>7, <1>8 DEF Task

LEMMA CallbackType ==
  ASSUME TypeInv, NEW r \in Req, NEW a \in answers, Callback(r, a)
  PROVE  TypeInv'
<1>t. /\ registered \in [DeviceId -> Ref] /\ heap \in [Req -> Device]
      /\ lists \in [Req -> Seq(Req)] /\ call \in [Req -> Call] /\ Holding
      /\ sent \subseteq Message /\ None \in Ref
  BY DEF TypeInv, TypeOK, Ref
<1>h. /\ call[r].at \in HoldsNew => call[r].new \in Req /\ call[r].dev \in DeviceId
      /\ call[r].at \in HoldsOld => call[r].old \in Req
      /\ call[r] \in Call
  BY <1>t DEF Holding
<1>a. a.id \in Req /\ a.id \in Ref
  BY DEF TypeInv, TypeOK, Answer, Ref
<1>1. CASE OnRegistered(r, a)
  <2>1. heap' \in [Req -> Device]
    BY <1>1, <1>t, <1>a DEF OnRegistered, Device
  <2>2. heap[r].active \in SUBSET Attr
    BY <1>t DEF Device
  <2>3. sent' \subseteq Message
    BY <1>1, <1>t, <2>2, MsgType DEF OnRegistered, MsgKind
  <2>4. call' \in [Req -> Call] /\ Holding'
    BY <1>1, MoveType DEF OnRegistered, Stage, HoldsNew, HoldsOld
  <2> QED
    BY <1>1, <1>t, <2>1, <2>3, <2>4, AgentType DEF OnRegistered
<1>2. CASE StoreDevice(r, a)
  <2>1. registered' \in [DeviceId -> Ref]
    BY <1>2, <1>t DEF StoreDevice, Ref
  <2>2. call' = Move(r, "ok") \/ call' = Move(r, "error")
    BY <1>2 DEF StoreDevice
  <2>3. call' \in [Req -> Call] /\ Holding'
    BY <2>2, MoveType DEF Stage, Ended, HoldsNew, HoldsOld
  <2> QED
    BY <1>2, <1>t, <2>1, <2>3, AgentType DEF StoreDevice
<1>3. CASE OnRefused(r, a)
  <2>1. call' \in [Req -> Call] /\ Holding'
    BY <1>3, MoveType DEF OnRefused, Stage, Ended, HoldsNew, HoldsOld
  <2> QED
    BY <1>3, <1>t, <2>1, AgentType DEF OnRefused
<1>4. CASE Combine(r, a)
  <2> DEFINE o == call[r].old
             n == call[r].new
             new == [heap[o] EXCEPT !.active = heap[n].active, !.lazy = heap[n].lazy]
  <2>1. o \in Req /\ n \in Req /\ call[r].dev \in DeviceId
    BY <1>4, <1>h DEF Combine, HoldsOld, HoldsNew
  <2>2. new \in Device
    <3>1. heap[o] \in Device /\ heap[n] \in Device
      BY <1>t, <2>1
    <3> QED
      BY <3>1 DEF Device
  <2>3. heap' = [heap EXCEPT ![o] = new]
    BY <1>4 DEF Combine
  <2>4. heap' \in [Req -> Device]
    BY <1>t, <2>2, <2>3
  <2>5. call' \in [Req -> Call] /\ Holding'
    BY <1>4, <2>1, MoveType DEF Combine, Stage
  <2> QED
    BY <1>4, <1>t, <2>4, <2>5, AgentType DEF Combine
<1>5. CASE OnUpdated(r, a)
  <2>1. call[r].old \in Req /\ call[r].new \in Req /\ call[r].dev \in DeviceId
    BY <1>5, <1>h DEF OnUpdated, HoldsOld, HoldsNew
  <2>2. heap' \in [Req -> Device]
    <3> DEFINE new == [heap[call[r].new] EXCEPT !.registrationId = a.id]
    <3>1. heap[call[r].new] \in Device
      BY <1>t, <2>1
    <3>2. new \in Device
      BY <1>a, <3>1 DEF Device
    <3>3. heap' = [heap EXCEPT ![r] = new]
      BY <1>5 DEF OnUpdated, CloneWith
    <3> QED
      BY <1>t, <3>2, <3>3
  <2>3. call' \in [Req -> Call] /\ Holding'
    BY <1>5, <2>1, MoveType DEF OnUpdated, Stage
  <2> QED
    BY <1>5, <1>t, <2>2, <2>3, AgentType DEF OnUpdated
<1>6. CASE OnExpired(r, a)
  <2>1. registered' \in [DeviceId -> Ref]
    BY <1>6, <1>t DEF OnExpired, Remove
  <2>2. call' \in [Req -> Call] /\ Holding'
    BY <1>6, MoveType DEF OnExpired, Stage, Ended, HoldsNew, HoldsOld
  <2> QED
    BY <1>6, <1>t, <2>1, <2>2, AgentType DEF OnExpired
<1>7. CASE OnSubscribed(r, a)
  <2> DEFINE o == call[r].old
             l == IF heap[o].subscriptions = None THEN r ELSE heap[o].subscriptions
  <2>0. o \in Ref
    BY <1>h DEF Call
  <2>1. heap' \in [Req -> Device]
    <3>1. CASE heap' = heap
      BY <3>1, <1>t
    <3>2. CASE heap' = [heap EXCEPT ![o].subscriptions = l]
      <4>1. CASE o \in Req
        <5>1. heap[o] \in Device /\ heap[o].subscriptions \in Ref /\ l \in Ref
          BY <1>t, <4>1 DEF Device, Ref
        <5> QED
          BY <1>t, <3>2, <5>1 DEF Device
      <4>2. CASE o \notin Req
        BY <1>t, <3>2, <4>2
      <4> QED
        BY <4>1, <4>2
    <3> QED
      BY <1>7, <3>1, <3>2 DEF OnSubscribed
  <2>2. lists' \in [Req -> Seq(Req)]
    <3>1. CASE lists' = lists
      BY <3>1, <1>t
    <3>2. CASE lists' = [lists EXCEPT ![l] = Append(@, a.id)]
      <4>1. \A k \in Req : Append(lists[k], a.id) \in Seq(Req)
        BY <1>t, <1>a, AppendProperties
      <4> QED
        BY <1>t, <3>2, <4>1
    <3> QED
      BY <1>7, <3>1, <3>2 DEF OnSubscribed
  <2>3. registered' \in [DeviceId -> Ref]
    BY <1>7, <1>t, <2>0 DEF OnSubscribed
  <2>4. call' = Move(r, "ok") \/ call' = Move(r, "error")
    BY <1>7 DEF OnSubscribed
  <2>5. call' \in [Req -> Call] /\ Holding'
    BY <2>4, MoveType DEF Stage, Ended, HoldsNew, HoldsOld
  <2> QED
    BY <1>7, <1>t, <2>1, <2>2, <2>3, <2>5, AgentType DEF OnSubscribed
<1>8. CASE OnUnsubscribed(r, a)
  <2> DEFINE o == call[r].old
             l == heap[o].subscriptions
             next == AfterUnsubscription(r, a)
  <2>0. o \in Ref
    BY <1>h DEF Call
  <2>1. lists' \in [Req -> Seq(Req)]
    <3>1. CASE lists' = lists
      BY <3>1, <1>t
    <3>2. CASE lists' = [lists EXCEPT ![l] = Splice(@)]
      <4>1. \A k \in Req : Splice(lists[k]) \in Seq(Req)
        BY <1>t, SpliceType
      <4> QED
        BY <1>t, <3>2, <4>1
    <3> QED
      BY <1>8, <3>1, <3>2 DEF OnUnsubscribed
  <2>2. registered' \in [DeviceId -> Ref]
    BY <1>8, <1>t, <2>0 DEF OnUnsubscribed
  <2>3. \/ next = call[r].at
        \/ next \in {"error", "ok"}
        \/ next \in {"unsubscribing", "expire"} /\ call[r].at = "unsubscribing"
    <3>1. CASE call[r].at # "unsubscribing"
      BY <3>1 DEF AfterUnsubscription
    <3>2. CASE call[r].at = "unsubscribing" /\ (~PassedOn(a.result) \/ call[r].op = "unsubscribe")
      BY <3>2 DEF AfterUnsubscription
    <3>3. CASE call[r].at = "unsubscribing" /\ PassedOn(a.result) /\ call[r].op # "unsubscribe"
      BY <3>3 DEF AfterUnsubscription
    <3> QED
      BY <3>1, <3>2, <3>3
  <2>4. call' \in [Req -> Call] /\ Holding'
    BY <1>8, <1>h, <2>3, MoveType DEF OnUnsubscribed, Call, Stage, Ended, HoldsNew, HoldsOld
  <2> QED
    BY <1>8, <1>t, <2>1, <2>2, <2>4, AgentType DEF OnUnsubscribed
<1> QED
  BY <1>1, <1>2, <1>3, <1>4, <1>5, <1>6, <1>7, <1>8 DEF Callback

LEMMA BrokerType ==
  ASSUME TypeInv, Broker
  PROVE  TypeInv'
<1>1. PICK m \in sent : BrokerAccepts(m) \/ BrokerFails(m)
  BY DEF Broker
<1>2. /\ m.req \in Req /\ m.kind \in MsgKind /\ m.id \in Ref /\ m.attrs \in SUBSET Attr
      /\ IdOf(m) \in Req
  BY DEF TypeInv, TypeOK, Message, IdOf, Ref
<1>3. \A result \in Result :
        [req |-> m.req, kind |-> m.kind, id |-> IdOf(m), result |-> result] \in Answer
  BY <1>2 DEF Answer
<1>4. PICK result \in Result : BrokerAnswers(m, result)
  BY <1>1 DEF BrokerAccepts, BrokerFails, Result
<1>5. answers' \subseteq Answer /\ sent' \subseteq Message
  BY <1>3, <1>4 DEF BrokerAnswers, TypeInv, TypeOK
<1>6. Effect(m) \/ UNCHANGED <<registrations, subscriptions, entity>>
  BY <1>1 DEF BrokerAccepts, BrokerFails
<1>7. registrations' \subseteq Req /\ subscriptions' \subseteq Req
  BY <1>2, <1>6 DEF Effect, TypeInv, TypeOK
<1>8. entity' \in [DeviceId -> SUBSET Attr]
  BY <1>2, <1>6 DEF Effect, TypeInv, TypeOK
<1>9. failures' \in 0..MaxFailures
  BY <1>1, ConstantsAssumption DEF BrokerAccepts, BrokerFails, TypeInv, TypeOK
<1> QED
  BY <1>4, <1>5, <1>7, <1>8, <1>9 DEF BrokerAnswers, agentVars, TypeInv, TypeOK, Holding

\* Every step keeps the types.
LEMMA NextType ==
  ASSUME TypeInv, [Next]_vars
  PROVE  TypeInv'
<1>1. CASE Client
  BY <1>1, ClientType
<1>2. CASE Agent
  <2>1. PICK r \in Req : Task(r) \/ \E a \in answers : Callback(r, a)
    BY <1>2 DEF Agent
  <2> QED
    BY <2>1, TaskType, CallbackType
<1>3. CASE Broker
  BY <1>3, BrokerType
<1>4. CASE UNCHANGED vars
  BY <1>4 DEF vars, TypeInv, TypeOK, Holding
<1> QED
  BY <1>1, <1>2, <1>3, <1>4 DEF Next

\* Every reachable state is well typed, and the calls hold the objects that
\* the tasks of deviceService.js read.
THEOREM TypeCorrect == Spec => []TypeInv
<1>1. Init => TypeInv
  BY InitType
<1>2. TypeInv /\ [Next]_vars => TypeInv'
  BY NextType
<1> QED
  BY <1>1, <1>2, PTL DEF Spec

\* So the type invariant of the runs holds.
THEOREM TypesHold == Spec => []TypeOK
BY TypeCorrect, PTL DEF TypeInv

----------------------------------------------------------------------------
\* CoverInv is kept.  Each lemma is about one way a step may change the calls.

Replacing == {"update", "updating", "clone", "replace"}

\* A request to an entity that has `there` brings what it lacks of `active`.
Brings(m, active, there) == m.kind = "entity" => active \subseteq m.attrs \cup there

\* A call moves on; objects keep their attributes; what is stored is covered.
LEMMA MoveCovers ==
  ASSUME TypeInv, CoverInv, NEW r \in Req, NEW stage \in Stage, call' = Move(r, stage),
         call[r].at # "idle", stage # "idle",
         \A q \in Req : heap'[q].active = heap[q].active,
         entity' = entity, answers' \subseteq answers,
         \A m \in sent' : m \in sent \/ (m.req = r /\ Brings(m, heap[r].active, entity[call[r].dev])),
         \A d \in DeviceId : \/ registered'[d] \in {None, registered[d]}
                             \/ CoveredFor(registered'[d], d),
         registered' \in [DeviceId -> Ref],
         stage \in HoldsNew => call[r].at \in HoldsNew,
         stage \in Replacing => heap[r].active \subseteq entity[call[r].dev]
  PROVE  CoverInv'
<1>1. /\ call \in [Req -> Call]
      /\ \A q \in Req : call[q].old \in Ref
      /\ \A m \in sent \cup answers : m.req \in Req
  BY DEF TypeInv, TypeOK, Call, Message, Answer
<1>2. \A q \in Req :
        /\ call'[q].dev = call[q].dev
        /\ call'[q].old = call[q].old /\ call'[q].new = call[q].new
        /\ call'[q].at = IF q = r THEN stage ELSE call[q].at
        /\ q # r => call'[q] = call[q]
  BY <1>1, MoveEffect DEF Move
<1>3. Began'
  BY <1>2 DEF CoverInv, Began
<1>4. Asked'
  BY <1>1, <1>2 DEF CoverInv, Asked
<1>5. OwnsNew'
  BY <1>2 DEF CoverInv, OwnsNew
<1>6. \A o \in Req, d \in DeviceId : CoveredFor(o, d) => CoveredFor(o, d)'
  BY <1>2 DEF CoveredFor
<1>7. RegistryCovered'
  BY <1>6 DEF CoverInv, RegistryCovered, Ref
<1>8. HeldCovered'
  <2> SUFFICES ASSUME NEW q \in Req, call'[q].old # None
               PROVE  CoveredFor(call[q].old, call[q].dev)'
    BY DEF HeldCovered
  <2>1. call[q].old \in Req /\ CoveredFor(call[q].old, call[q].dev)
    BY <1>1, <1>2 DEF CoverInv, HeldCovered, Ref
  <2> QED
    BY <1>2, <2>1 DEF CoveredFor
<1>9. RequestsCover'
  BY <1>1, <1>2 DEF CoverInv, RequestsCover, Brings
<1>10. AnswersCovered'
  BY <1>1, <1>2 DEF CoverInv, AnswersCovered
<1>11. ReplacementCovered'
  BY <1>2 DEF CoverInv, ReplacementCovered, Replacing
<1> QED
  BY <1>3, <1>4, <1>5, <1>7, <1>8, <1>9, <1>10, <1>11 DEF CoverInv

\* A call is made: it may hold what the registry has for its device, and the
\* only object whose attributes it sets is its own, which nobody knows yet.
LEMMA BeginCovers ==
  ASSUME TypeInv, CoverInv, NEW r \in Req, NEW op \in Ops, NEW d \in DeviceId,
         NEW old \in Ref, NEW new \in Ref, NEW stage \in Stage,
         Begin(r, op, d, old, new, stage),
         call[r].at = "idle", stage # "idle", stage \notin Replacing,
         stage \in HoldsNew => new = r, old \in {None, registered[d]},
         \A q \in Req : q # r => heap'[q].active = heap[q].active,
         registered' = registered, entity' = entity, answers' = answers,
         \A m \in sent' : m \in sent \/ (m.req = r /\ Brings(m, heap'[r].active, entity[d]))
  PROVE  CoverInv'
<1>1. /\ call \in [Req -> Call] /\ registered \in [DeviceId -> Ref]
      /\ \A m \in sent \cup answers : m.req \in Req /\ m.req # r
  BY DEF TypeInv, TypeOK, Call, Message, Answer, CoverInv, Asked
<1>2. \A q \in Req : call'[q] =
        IF q = r THEN [op |-> op, dev |-> d, old |-> old, new |-> new, at |-> stage] ELSE call[q]
  BY <1>1 DEF Begin
<1>3. \A q \in Req : call[q].at # "idle" => call[q].dev # None /\ q # r
  BY ConstantsAssumption DEF CoverInv, Began
<1>4. call[r].dev = None /\ call[r].old = None
  BY DEF CoverInv, Began, NoCall
<1>5. \A o \in Req, e \in DeviceId : CoveredFor(o, e) => o # r /\ CoveredFor(o, e)'
  BY <1>2, <1>4, ConstantsAssumption DEF CoveredFor
<1>6. Began'
  BY <1>2 DEF CoverInv, Began
<1>7. Asked'
  BY <1>1, <1>2 DEF CoverInv, Asked
<1>8. OwnsNew'
  BY <1>2 DEF CoverInv, OwnsNew
<1>9. RegistryCovered'
  BY <1>1, <1>5 DEF CoverInv, RegistryCovered, Ref
<1>10. HeldCovered'
  <2> SUFFICES ASSUME NEW q \in Req, call'[q].old # None
               PROVE  CoveredFor(call[q].old, call[q].dev)'
    BY DEF HeldCovered
  <2>1. CASE q = r
    BY <1>1, <1>2, <1>5, <2>1 DEF CoverInv, RegistryCovered, Ref
  <2>2. CASE q # r
    <3>1. call'[q] = call[q]
      BY <1>2, <2>2
    <3>2. call[q].dev \in DeviceId /\ call[q].old \in Req
      BY <1>1, <3>1 DEF CoverInv, Began, NoCall, Call, Ref
    <3>3. CoveredFor(call[q].old, call[q].dev)
      BY <3>1, <3>2, ConstantsAssumption DEF CoverInv, HeldCovered
    <3>4. CoveredFor(call[q].old, call[q].dev)'
      BY <1>2, <1>4, <2>2, <3>1, <3>2, <3>3, ConstantsAssumption DEF CoveredFor
    <3> QED
      BY <3>4
  <2> QED
    BY <2>1, <2>2
<1>11. RequestsCover'
  BY <1>1, <1>2 DEF CoverInv, RequestsCover, Brings
<1>12. AnswersCovered'
  BY <1>1, <1>2 DEF CoverInv, AnswersCovered
<1>13. ReplacementCovered'
  BY <1>2 DEF CoverInv, ReplacementCovered, Replacing
<1> QED
  BY <1>6, <1>7, <1>8, <1>9, <1>10, <1>11, <1>12, <1>13 DEF CoverInv

\* What a new request brings.
LEMMA MsgBrings ==
  ASSUME NEW r, NEW kind, NEW id, NEW attrs, NEW active, NEW there,
         kind = "entity" => active \subseteq attrs \cup there
  PROVE  Msg(r, kind, id, attrs).req = r /\ Brings(Msg(r, kind, id, attrs), active, there)
<1> DEFINE m == Msg(r, kind, id, attrs)
<1>1. m.req = r /\ m.kind = kind /\ m.attrs = attrs
  BY DEF Msg
<1> QED
  BY <1>1 DEF Brings

LEMMA ClientCovers ==
  ASSUME TypeInv, CoverInv, "put" \notin Ops, Client
  PROVE  CoverInv'
<1> USE DEF MayStart
<1>t. /\ registered \in [DeviceId -> Ref] /\ heap \in [Req -> Device]
      /\ lists \in [Req -> Seq(Req)] /\ call \in [Req -> Call]
  BY DEF TypeInv, TypeOK
<1>n. None \in Ref /\ \A r \in Req : r \in Ref
  BY DEF Ref
<1>1. ASSUME NEW r \in Req, NEW d \in DeviceId,
             NEW active \in SUBSET Attr, NEW lazy \in BOOLEAN, RegisterDevice(r, d, active, lazy)
      PROVE  CoverInv'
  <2>1. /\ heap'[r].active = active
        /\ \A q \in Req : q # r => heap'[q].active = heap[q].active
    BY <1>1, <1>t DEF RegisterDevice, NoDevice
  <2>2. \A m \in sent' : m \in sent \/ (m.req = r /\ Brings(m, heap'[r].active, entity[d]))
    <3>1. /\ Msg(r, "register", None, {}).req = r /\ Msg(r, "entity", None, active).req = r
          /\ Brings(Msg(r, "register", None, {}), active, entity[d])
          /\ Brings(Msg(r, "entity", None, active), active, entity[d])
      BY MsgBrings
    <3> QED
      BY <1>1, <2>1, <3>1 DEF RegisterDevice
  <2>3. \/ Begin(r, "register", d, None, r, "registering")
        \/ Begin(r, "register", d, None, r, "creating")
    BY <1>1 DEF RegisterDevice
  <2>4. /\ call[r].at = "idle" /\ "register" \in Ops
        /\ registered' = registered /\ entity' = entity /\ answers' = answers
    BY <1>1 DEF RegisterDevice, brokerVars
  <2> QED
    BY <1>n, <2>1, <2>2, <2>3, <2>4, BeginCovers DEF Stage, Replacing, HoldsNew
<1>2. ASSUME NEW r \in Req, NEW d \in DeviceId,
             NEW active \in SUBSET Attr, NEW lazy \in BOOLEAN, UpdateDevice(r, d, active, lazy)
      PROVE  CoverInv'
  <2>1. \A q \in Req : q # r => heap'[q].active = heap[q].active
    BY <1>2, <1>t DEF UpdateDevice
  <2>2. Begin(r, "updateRegister", d, None, r, "get") /\ "updateRegister" \in Ops
    BY <1>2 DEF UpdateDevice
  <2>3. /\ call[r].at = "idle" /\ sent' = sent
        /\ registered' = registered /\ entity' = entity /\ answers' = answers
    BY <1>2 DEF UpdateDevice, brokerVars
  <2> QED
    BY <1>n, <2>1, <2>2, <2>3, BeginCovers DEF Stage, Replacing, HoldsNew
<1>3. ASSUME NEW r \in Req, NEW d \in DeviceId, NEW active \in SUBSET Attr, NEW lazy \in BOOLEAN,
             NEW fields \in 1..2, PutDevice(r, d, active, lazy, fields)
      PROVE  FALSE
  BY <1>3 DEF PutDevice
<1>4. ASSUME NEW r \in Req, NEW d \in DeviceId, UnregisterDevice(r, d)
      PROVE  CoverInv'
  <2>1. registered[d] \in Ref
    BY <1>t
  <2>2. \/ Begin(r, "unregister", d, registered[d], None, "lost")
        \/ Begin(r, "unregister", d, registered[d], None, "unsubscribe")
    BY <1>4 DEF UnregisterDevice
  <2>3. /\ call[r].at = "idle" /\ "unregister" \in Ops /\ sent' = sent
        /\ \A q \in Req : heap'[q].active = heap[q].active
        /\ registered' = registered /\ entity' = entity /\ answers' = answers
    BY <1>4 DEF UnregisterDevice, brokerVars
  <2> QED
    BY <1>n, <2>1, <2>2, <2>3, BeginCovers DEF Stage, Ended, Replacing, HoldsNew
<1>5. ASSUME NEW r \in Req, NEW d \in DeviceId, Subscribe(r, d)
      PROVE  CoverInv'
  <2>1. registered[d] \in Ref
    BY <1>t
  <2>2. \A m \in sent' : m \in sent \/ (m.req = r /\ Brings(m, heap'[r].active, entity[d]))
    BY <1>5, MsgBrings DEF Subscribe
  <2>3. Begin(r, "subscribe", d, registered[d], None, "subscribing") /\ "subscribe" \in Ops
    BY <1>5 DEF Subscribe
  <2>4. /\ call[r].at = "idle" /\ \A q \in Req : heap'[q].active = heap[q].active
        /\ registered' = registered /\ entity' = entity /\ answers' = answers
    BY <1>5 DEF Subscribe, brokerVars
  <2> QED
    BY <1>n, <2>1, <2>2, <2>3, <2>4, BeginCovers DEF Stage, Replacing, HoldsNew
<1>6. ASSUME NEW r \in Req, NEW d \in DeviceId, Unsubscribe(r, d)
      PROVE  CoverInv'
  <2> DEFINE l == heap[registered[d]].subscriptions
  <2>1. registered[d] \in Req /\ l \in Req
    BY <1>6, <1>t DEF Unsubscribe, Device, Ref
  <2>2. PICK i \in DOMAIN lists[l] :
          /\ sent' = sent \cup {Msg(r, "unsubscribe", lists[l][i], {})}
          /\ Begin(r, "unsubscribe", d, registered[d], lists[l][i], "unsubscribing")
    BY <1>6 DEF Unsubscribe
  <2>3. lists[l][i] \in Req
    BY <1>t, <2>1, <2>2
  <2>4. \A m \in sent' : m \in sent \/ (m.req = r /\ Brings(m, heap'[r].active, entity[d]))
    BY <2>2, MsgBrings
  <2>5. /\ call[r].at = "idle" /\ "unsubscribe" \in Ops
        /\ \A q \in Req : heap'[q].active = heap[q].active
        /\ registered' = registered /\ entity' = entity /\ answers' = answers
    BY <1>6 DEF Unsubscribe, brokerVars
  <2>6. lists[l][i] \in Ref /\ registered[d] \in Ref
    BY <2>1, <2>3 DEF Ref
  <2> QED
    BY <2>2, <2>4, <2>5, <2>6, BeginCovers DEF Stage, Replacing, HoldsNew
<1>7. ASSUME ClearRegistry
      PROVE  CoverInv'
  BY <1>7 DEF ClearRegistry, brokerVars, CoverInv, Began, Asked, OwnsNew, RegistryCovered,
              HeldCovered, CoveredFor, RequestsCover, AnswersCovered, ReplacementCovered
<1> QED
  BY <1>1, <1>2, <1>3, <1>4, <1>5, <1>6, <1>7 DEF Client

LEMMA TaskCovers ==
  ASSUME TypeInv, CoverInv, NEW r \in Req, Task(r)
  PROVE  CoverInv'
<1>t. /\ registered \in [DeviceId -> Ref] /\ heap \in [Req -> Device] /\ call \in [Req -> Call]
      /\ call[r] \in Call
  BY DEF TypeInv, TypeOK
<1>r. call[r].at \in Replacing => heap[r].active \subseteq entity[call[r].dev]
  BY DEF CoverInv, ReplacementCovered, Replacing
<1>n. call[r].at \in HoldsNew => call[r].new = r /\ call[r].dev \in DeviceId
  BY DEF CoverInv, OwnsNew, TypeInv, Holding
<1>1. CASE GetOld(r)
  <2> DEFINE o == registered[call[r].dev]
             c == [call[r] EXCEPT !.old = o, !.at = IF o = None THEN "error" ELSE "difference"]
  <2>1. /\ call[r].dev \in DeviceId /\ call[r].new = r /\ call[r].at = "get"
        /\ call' = [call EXCEPT ![r] = c]
        /\ UNCHANGED <<registered, heap, sent, answers, entity>>
    BY <1>1, <1>n DEF GetOld, HoldsNew, brokerVars
  <2>2. o \in Ref
    BY <1>t, <2>1
  <2>3. /\ c.dev = call[r].dev /\ c.old = o /\ c.new = call[r].new
        /\ c.at \in {"error", "difference"}
    BY <1>t DEF Call
  <2>4. \A q \in Req : call'[q].dev = call[q].dev /\ (q # r => call'[q] = call[q]) /\ call'[r] = c
    BY <1>t, <2>1, <2>3
  <2>5. \A p \in Req, d \in DeviceId : CoveredFor(p, d) => CoveredFor(p, d)'
    BY <2>1, <2>4 DEF CoveredFor
  <2>6. Began' /\ OwnsNew' /\ ReplacementCovered'
    BY <2>1, <2>3, <2>4
    DEF CoverInv, Began, OwnsNew, ReplacementCovered, HoldsNew
  <2>7. Asked' /\ RequestsCover' /\ AnswersCovered'
    <3>1. \A m \in sent \cup answers : m.req \in Req
      BY DEF TypeInv, TypeOK, Message, Answer
    <3> QED
      BY <2>1, <2>3, <2>4, <3>1 DEF CoverInv, Asked, RequestsCover, AnswersCovered
  <2>8. RegistryCovered'
    BY <1>t, <2>1, <2>5 DEF CoverInv, RegistryCovered, Ref
  <2>9. HeldCovered'
    <3> SUFFICES ASSUME NEW q \in Req, call'[q].old # None
                 PROVE  CoveredFor(call[q].old, call[q].dev)'
      BY DEF HeldCovered
    <3>1. CASE q = r
      <4>1. o \in Req /\ CoveredFor(o, call[r].dev)
        BY <2>1, <2>2, <2>3, <2>4, <3>1 DEF CoverInv, RegistryCovered, Ref
      <4>2. call'[q].old = o /\ call'[q].dev = call[r].dev /\ call'[o].dev = call[o].dev
        BY <2>3, <2>4, <3>1, <4>1
      <4> QED
        BY <2>1, <4>1, <4>2 DEF CoveredFor
    <3>2. CASE q # r
      <4> DEFINE p == call[q].old
      <4>1. p \in Req /\ CoveredFor(p, call[q].dev)
        BY <1>t, <2>4, <3>2 DEF CoverInv, HeldCovered, Call, Ref
      <4>2. call'[q].old = p /\ call'[q].dev = call[q].dev /\ call'[p].dev = call[p].dev
        BY <2>4, <3>2, <4>1
      <4> QED
        BY <2>1, <4>1, <4>2 DEF CoveredFor
    <3> QED
      BY <3>1, <3>2
  <2> QED
    BY <2>6, <2>7, <2>8, <2>9 DEF CoverInv
<1>2. CASE SendDifference(r)
  <2>1. call[r].at = "difference" /\ call[r].new = r /\ call[r].old \in Req
    BY <1>2, <1>n DEF SendDifference, HoldsNew, HoldsOld, TypeInv, Holding
  <2>2. heap[call[r].old].active \subseteq entity[call[r].dev]
    BY <2>1, ConstantsAssumption DEF CoverInv, HeldCovered, CoveredFor
  <2>3. \A m \in sent' : m \in sent \/ (m.req = r /\ Brings(m, heap[r].active, entity[call[r].dev]))
    <3> DEFINE attrs == NewAttributes(heap[r].active, heap[call[r].old].active)
    <3>1. heap[r].active \subseteq attrs \cup entity[call[r].dev]
      BY <2>2 DEF NewAttributes
    <3>2. LET m == Msg(r, "entity", None, attrs)
          IN  m.req = r /\ Brings(m, heap[r].active, entity[call[r].dev])
      BY <3>1, MsgBrings
    <3>3. sent' = sent \cup {Msg(r, "entity", None, attrs)}
      BY <1>2, <2>1 DEF SendDifference
    <3> QED
      BY <3>2, <3>3
  <2>4. call' = Move(r, "combining") /\ UNCHANGED <<registered, heap, answers, entity>>
    BY <1>2 DEF SendDifference, brokerVars
  <2> QED
    BY <1>t, <2>1, <2>3, <2>4, MoveCovers DEF Stage, HoldsNew, Replacing
<1>3. CASE SendUpdate(r)
  <2>1. \A m \in sent' : m \in sent \/ (m.req = r /\ Brings(m, heap[r].active, entity[call[r].dev]))
    BY <1>3, MsgBrings DEF SendUpdate
  <2>2. call' = Move(r, "updating") \/ call' = Move(r, "clone")
    BY <1>3 DEF SendUpdate
  <2>3. call[r].at = "update" /\ UNCHANGED <<registered, heap, answers, entity>>
    BY <1>3 DEF SendUpdate, brokerVars
  <2> QED
    BY <1>t, <1>r, <2>1, <2>2, <2>3, MoveCovers DEF Stage, HoldsNew, Replacing
<1>4. CASE OnNothingToUpdate(r)
  <2>1. \A q \in Req : heap'[q].active = heap[q].active
    BY <1>4, <1>t, <1>n DEF OnNothingToUpdate, CloneWith, HoldsNew
  <2>2. /\ call[r].at = "clone" /\ call' = Move(r, "replace")
        /\ UNCHANGED <<registered, sent, answers, entity>>
    BY <1>4 DEF OnNothingToUpdate, brokerVars
  <2> QED
    BY <1>t, <1>r, <2>1, <2>2, MoveCovers DEF Stage, HoldsNew, Replacing
<1>5. CASE ReplaceDevice(r)
  <2>1. /\ call[r].at = "replace" /\ call[r].dev \in DeviceId
        /\ registered' = [registered EXCEPT ![call[r].dev] = r]
    BY <1>5, <1>n DEF ReplaceDevice, HoldsNew
  <2>2. CoveredFor(r, call[r].dev)
    BY <1>r, <2>1 DEF CoveredFor, Replacing
  <2>3. /\ registered' \in [DeviceId -> Ref]
        /\ \A d \in DeviceId : registered'[d] = registered[d] \/ CoveredFor(registered'[d], d)
    BY <1>t, <2>1, <2>2 DEF Ref
  <2>4. call' = Move(r, "ok") /\ UNCHANGED <<heap, sent, answers, entity>>
    BY <1>5 DEF ReplaceDevice, brokerVars
  <2> QED
    BY <2>1, <2>3, <2>4, MoveCovers DEF Stage, Ended, HoldsNew, Replacing
<1>6. CASE SendUnsubscriptions(r)
  <2>1. \A m \in sent' : m \in sent \/ (m.req = r /\ Brings(m, heap[r].active, entity[call[r].dev]))
    BY <1>6, MsgBrings DEF SendUnsubscriptions
  <2>2. call' = Move(r, "expire") \/ call' = Move(r, "unsubscribing")
    BY <1>6 DEF SendUnsubscriptions
  <2>3. call[r].at = "unsubscribe" /\ UNCHANGED <<registered, heap, answers, entity>>
    BY <1>6 DEF SendUnsubscriptions, brokerVars
  <2> QED
    BY <1>t, <2>1, <2>2, <2>3, MoveCovers DEF Stage, HoldsNew, Replacing
<1>7. CASE SendExpire(r)
  <2>1. \A m \in sent' : m \in sent \/ (m.req = r /\ Brings(m, heap[r].active, entity[call[r].dev]))
    BY <1>7, MsgBrings DEF SendExpire
  <2>2. call' = Move(r, "expiring") \/ call' = Move(r, "remove")
    BY <1>7 DEF SendExpire
  <2>3. call[r].at = "expire" /\ UNCHANGED <<registered, heap, answers, entity>>
    BY <1>7 DEF SendExpire, brokerVars
  <2> QED
    BY <1>t, <2>1, <2>2, <2>3, MoveCovers DEF Stage, HoldsNew, Replacing
<1>8. CASE RemoveUnregistered(r)
  <2>1. /\ registered' \in [DeviceId -> Ref]
        /\ \A d \in DeviceId : registered'[d] \in {None, registered[d]}
    BY <1>8, <1>t DEF RemoveUnregistered, Remove, Ref
  <2>2. /\ call[r].at = "remove" /\ call' = Move(r, "ok")
        /\ UNCHANGED <<heap, sent, answers, entity>>
    BY <1>8 DEF RemoveUnregistered, brokerVars
  <2> QED
    BY <2>1, <2>2, MoveCovers DEF Stage, Ended, HoldsNew, Replacing
<1> QED
  BY <1>1, <1>2, <1>3, <1>4, <1>5, <1>6, <1>7, <1>8 DEF Task

\* What a call stores under its device's id is the object it got from there.
StoresHeld(r) ==
  /\ registered' \in [DeviceId -> Ref]
  /\ \A d \in DeviceId : registered'[d] \in {None, registered[d]} \/ CoveredFor(registered'[d], d)

LEMMA HeldStored ==
  ASSUME TypeInv, CoverInv, NEW r \in Req, call[r].dev \in DeviceId,
         \/ registered' = registered
         \/ registered' = [registered EXCEPT ![call[r].dev] = call[r].old]
  PROVE  StoresHeld(r)
<1>1. registered \in [DeviceId -> Ref] /\ call[r].old \in Ref
  BY DEF TypeInv, TypeOK, Call
<1>2. call[r].old # None => CoveredFor(call[r].old, call[r].dev)
  BY DEF CoverInv, HeldCovered
<1> QED
  BY <1>1, <1>2 DEF StoresHeld

\* The entity has everything the call's own object has, so it may be copied
\* into the object the registry handed out.
LEMMA CombineCovers ==
  ASSUME TypeInv, CoverInv, NEW r \in Req, NEW o \in Req, NEW a \in answers,
         call[r].at = "combining", call' = Move(r, "update"),
         call[o].dev = call[r].dev, call[r].dev \in DeviceId,
         heap[r].active \subseteq entity[call[r].dev],
         heap'[o].active = heap[r].active,
         \A q \in Req : q # o => heap'[q].active = heap[q].active,
         answers' = answers \ {a}, UNCHANGED <<registered, sent, entity>>
  PROVE  CoverInv'
<1>1. /\ call \in [Req -> Call] /\ registered \in [DeviceId -> Ref]
      /\ \A q \in Req : call[q].old \in Ref
      /\ \A m \in sent \cup answers : m.req \in Req
  BY DEF TypeInv, TypeOK, Call, Message, Answer
<1>2. \A q \in Req :
        /\ call'[q].dev = call[q].dev
        /\ call'[q].old = call[q].old /\ call'[q].new = call[q].new
        /\ call'[q].at = IF q = r THEN "update" ELSE call[q].at
        /\ q # r => call'[q] = call[q]
  BY <1>1, MoveEffect DEF Move, Stage
<1>3. Began' /\ OwnsNew'
  BY <1>2 DEF CoverInv, Began, OwnsNew, HoldsNew
<1>4. Asked'
  BY <1>1, <1>2 DEF CoverInv, Asked
<1>5. heap'[o].active \subseteq entity'[call'[o].dev]
  BY <1>2
<1>6. \A p \in Req, d \in DeviceId : CoveredFor(p, d) => CoveredFor(p, d)'
  BY <1>2, <1>5 DEF CoveredFor
<1>7. RegistryCovered'
  BY <1>1, <1>6 DEF CoverInv, RegistryCovered, Ref
<1>8. HeldCovered'
  <2> SUFFICES ASSUME NEW q \in Req, call'[q].old # None
               PROVE  CoveredFor(call[q].old, call[q].dev)'
    BY DEF HeldCovered
  <2> DEFINE p == call[q].old
  <2>1. p \in Req /\ CoveredFor(p, call[q].dev)
    BY <1>1, <1>2 DEF CoverInv, HeldCovered, Ref
  <2>2. call'[q].old = p /\ call'[q].dev = call[q].dev /\ call'[p].dev = call[p].dev
    BY <1>2, <2>1
  <2> QED
    BY <1>2, <1>5, <2>1, <2>2 DEF CoveredFor
<1>9. RequestsCover'
  BY <1>1, <1>2, <1>5 DEF CoverInv, RequestsCover
<1>10. AnswersCovered'
  <2> SUFFICES ASSUME NEW b \in answers', b.kind = "entity" /\ b.result = "ok"
               PROVE  heap'[b.req].active \subseteq entity'[call'[b.req].dev]
    BY DEF AnswersCovered
  <2>1. b.req \in Req /\ heap[b.req].active \subseteq entity[call[b.req].dev]
    BY <1>1 DEF CoverInv, AnswersCovered
  <2> QED
    BY <1>2, <1>5, <2>1
<1>11. ReplacementCovered'
  BY <1>2, <1>5 DEF CoverInv, ReplacementCovered
<1> QED
  BY <1>3, <1>4, <1>7, <1>8, <1>9, <1>10, <1>11 DEF CoverInv

LEMMA CallbackCovers ==
  ASSUME TypeInv, CoverInv, NEW r \in Req, NEW a \in answers, Callback(r, a)
  PROVE  CoverInv'
<1>t. /\ registered \in [DeviceId -> Ref] /\ heap \in [Req -> Device] /\ call \in [Req -> Call]
      /\ call[r] \in Call /\ (answers \ {a}) \subseteq answers
  BY DEF TypeInv, TypeOK
<1>r. call[r].at \in Replacing => heap[r].active \subseteq entity[call[r].dev]
  BY DEF CoverInv, ReplacementCovered, Replacing
<1>n. call[r].at \in HoldsNew => call[r].new = r /\ call[r].dev \in DeviceId
  BY DEF CoverInv, OwnsNew, TypeInv, Holding
<1>b. a.req = r => call[r].at # "idle" /\ call[r].dev \in DeviceId
  BY DEF CoverInv, Asked, Began
<1>1. CASE OnRegistered(r, a)
  <2>1. \A q \in Req : heap'[q].active = heap[q].active
    BY <1>1, <1>t DEF OnRegistered, Device
  <2>2. \A m \in sent' : m \in sent \/ (m.req = r /\ Brings(m, heap[r].active, entity[call[r].dev]))
    BY <1>1, MsgBrings DEF OnRegistered
  <2>3. /\ call[r].at = "registering" /\ call' = Move(r, "creating")
        /\ answers' = answers \ {a} /\ UNCHANGED <<registered, entity>>
    BY <1>1 DEF OnRegistered, brokerVars
  <2> QED
    BY <1>t, <2>1, <2>2, <2>3, MoveCovers DEF Stage, HoldsNew, Replacing
<1>2. CASE StoreDevice(r, a)
  <2>1. /\ a.req = r /\ a.kind = "entity" /\ a.result = "ok" /\ call[r].at = "creating"
        /\ call[r].dev \in DeviceId
        /\ answers' = answers \ {a} /\ UNCHANGED <<heap, sent, entity>>
        /\ call' = Move(r, "ok") \/ call' = Move(r, "error")
        /\ registered' = registered \/ registered' = [registered EXCEPT ![call[r].dev] = r]
    BY <1>2, <1>b DEF StoreDevice, Succeeded, brokerVars
  <2>2. CoveredFor(r, call[r].dev)
    BY <2>1 DEF CoverInv, AnswersCovered, CoveredFor
  <2>3. /\ registered' \in [DeviceId -> Ref]
        /\ \A d \in DeviceId : registered'[d] = registered[d] \/ CoveredFor(registered'[d], d)
    BY <1>t, <2>1, <2>2 DEF Ref
  <2> QED
    BY <1>t, <2>1, <2>3, MoveCovers DEF Stage, Ended, HoldsNew, Replacing
<1>3. CASE OnRefused(r, a)
  <2>1. /\ a.req = r /\ call' = Move(r, "error") /\ answers' = answers \ {a}
        /\ UNCHANGED <<registered, heap, sent, entity>>
    BY <1>3 DEF OnRefused, brokerVars
  <2> QED
    BY <1>t, <1>b, <2>1, MoveCovers DEF Stage, Ended, HoldsNew, Replacing
<1>4. CASE Combine(r, a)
  <2> DEFINE o == call[r].old
  <2>1. /\ a.req = r /\ a.kind = "entity" /\ a.result = "ok" /\ call[r].at = "combining"
        /\ call[r].new = r /\ call[r].dev \in DeviceId /\ o \in Req
        /\ heap' = [heap EXCEPT ![o].active = heap[r].active, ![o].lazy = heap[r].lazy]
        /\ call' = Move(r, "update") /\ answers' = answers \ {a}
        /\ UNCHANGED <<registered, sent, entity>>
    BY <1>4, <1>n DEF Combine, Succeeded, brokerVars, HoldsNew, HoldsOld, TypeInv, Holding
  <2>2. heap[r].active \subseteq entity[call[r].dev] /\ CoveredFor(o, call[r].dev)
    BY <2>1, ConstantsAssumption DEF CoverInv, AnswersCovered, HeldCovered
  <2>3. /\ heap'[o].active = heap[r].active
        /\ \A q \in Req : q # o => heap'[q].active = heap[q].active
    BY <1>t, <2>1 DEF Device
  <2>4. CoverInv'
    BY <1>t, <2>1, <2>2, <2>3, CombineCovers DEF CoveredFor
  <2> QED
    BY <2>4
<1>5. CASE OnUpdated(r, a)
  <2>1. /\ call[r].at = "updating" /\ call[r].new = r
        /\ heap' = [heap EXCEPT ![r] = [heap[r] EXCEPT !.registrationId = a.id]]
        /\ call' = Move(r, "replace") /\ answers' = answers \ {a}
        /\ UNCHANGED <<registered, sent, entity>>
    BY <1>5, <1>n DEF OnUpdated, CloneWith, HoldsNew, brokerVars
  <2>2. \A q \in Req : heap'[q].active = heap[q].active
    BY <1>t, <2>1 DEF Device
  <2> QED
    BY <1>t, <1>r, <2>1, <2>2, MoveCovers DEF Stage, HoldsNew, Replacing
<1>6. CASE OnExpired(r, a)
  <2>1. /\ call[r].at = "expiring" /\ call' = Move(r, "ok") /\ answers' = answers \ {a}
        /\ UNCHANGED <<heap, sent, entity>>
    BY <1>6 DEF OnExpired, brokerVars
  <2>2. /\ registered' \in [DeviceId -> Ref]
        /\ \A d \in DeviceId : registered'[d] \in {None, registered[d]}
    BY <1>6, <1>t DEF OnExpired, Remove, Ref
  <2> QED
    BY <1>t, <2>1, <2>2, MoveCovers DEF Stage, Ended, HoldsNew, Replacing
<1>7. CASE OnSubscribed(r, a)
  <2>1. /\ a.req = r /\ answers' = answers \ {a} /\ UNCHANGED <<sent, entity>>
        /\ call' = Move(r, "ok") \/ call' = Move(r, "error")
        /\ \/ registered' = registered
           \/ registered' = [registered EXCEPT ![call[r].dev] = call[r].old]
    BY <1>7 DEF OnSubscribed, brokerVars
  <2>2. \A q \in Req : heap'[q].active = heap[q].active
    BY <1>7, <1>t DEF OnSubscribed, Device
  <2>3. StoresHeld(r)
    BY <1>t, <1>b, <2>1, HeldStored
  <2> QED
    BY <1>t, <1>b, <2>1, <2>2, <2>3, MoveCovers DEF StoresHeld, Stage, Ended, HoldsNew, Replacing
<1>8. CASE OnUnsubscribed(r, a)
  <2>1. /\ a.req = r /\ answers' = answers \ {a} /\ UNCHANGED <<heap, sent, entity>>
        /\ call' = Move(r, AfterUnsubscription(r, a))
        /\ \/ registered' = registered
           \/ registered' = [registered EXCEPT ![call[r].dev] = call[r].old]
    BY <1>8 DEF OnUnsubscribed, brokerVars
  <2>2. AfterUnsubscription(r, a) \in {call[r].at, "error", "ok", "unsubscribing", "expire"}
    BY DEF AfterUnsubscription
  <2>3. StoresHeld(r)
    BY <1>t, <1>b, <2>1, HeldStored
  <2>4. AfterUnsubscription(r, a) \in Stage
    BY <1>t, <2>2 DEF Call, Stage, Ended
  <2> QED
    BY <1>t, <1>b, <1>r, <2>1, <2>2, <2>3, <2>4, MoveCovers DEF StoresHeld, HoldsNew, Replacing
<1> QED
  BY <1>1, <1>2, <1>3, <1>4, <1>5, <1>6, <1>7, <1>8 DEF Callback

\* The Context Broker answers: entities only grow, and an answer says "ok"
\* only when the request took effect.
LEMMA BrokerAnswersCovers ==
  ASSUME TypeInv, CoverInv, NEW m \in sent, NEW result, BrokerAnswers(m, result),
         Effect(m) \/ (result # "ok" /\ entity' = entity)
  PROVE  CoverInv'
<1> DEFINE e == call[m.req].dev
           a == [req |-> m.req, kind |-> m.kind, id |-> IdOf(m), result |-> result]
<1>1. /\ m.req \in Req /\ registered \in [DeviceId -> Ref] /\ entity \in [DeviceId -> SUBSET Attr]
      /\ \A q \in Req : call[q].old \in Ref
      /\ \A n \in sent \cup answers : n.req \in Req
  BY DEF TypeInv, TypeOK, Message, Answer, Call
<1>2. /\ sent' = sent \ {m} /\ answers' = answers \cup {a}
      /\ UNCHANGED <<registered, heap, call>>
      /\ a.req = m.req /\ a.kind = m.kind /\ a.result = result
  BY DEF BrokerAnswers, agentVars
<1>3. \A q \in Req : call[q].at # "idle" => call[q].dev \in DeviceId
  BY DEF CoverInv, Began
<1>4. e \in DeviceId
  BY <1>1, <1>3 DEF CoverInv, Asked
<1>5. /\ \A d \in DeviceId : entity[d] \subseteq entity'[d]
      /\ m.kind = "entity" /\ result = "ok" => m.attrs \subseteq entity'[e]
  BY <1>1, <1>4 DEF Effect
<1>6. Began' /\ OwnsNew'
  BY <1>2 DEF CoverInv, Began, OwnsNew
<1>7. Asked'
  BY <1>1, <1>2 DEF CoverInv, Asked
<1>8. RegistryCovered'
  BY <1>2, <1>5 DEF CoverInv, RegistryCovered, CoveredFor
<1>9. \A q \in Req : call[q].old # None => call[q].dev \in DeviceId
  BY DEF CoverInv, Began, NoCall
<1>10. HeldCovered'
  BY <1>2, <1>5, <1>9 DEF CoverInv, HeldCovered, CoveredFor
<1>11. RequestsCover'
  <2> SUFFICES ASSUME NEW n \in sent', n.kind = "entity"
               PROVE  heap'[n.req].active \subseteq n.attrs \cup entity'[call'[n.req].dev]
    BY DEF RequestsCover
  <2>1. /\ n \in sent /\ n.req \in Req /\ call[n.req].dev \in DeviceId
    BY <1>1, <1>2, <1>3 DEF CoverInv, Asked
  <2>2. heap[n.req].active \subseteq n.attrs \cup entity[call[n.req].dev]
    BY <2>1 DEF CoverInv, RequestsCover
  <2> QED
    BY <1>2, <1>5, <2>1, <2>2
<1>12. AnswersCovered'
  <2> SUFFICES ASSUME NEW b \in answers', b.kind = "entity" /\ b.result = "ok"
               PROVE  heap'[b.req].active \subseteq entity'[call'[b.req].dev]
    BY DEF AnswersCovered
  <2>1. CASE b = a
    <3>1. heap[m.req].active \subseteq m.attrs \cup entity[e]
      BY <1>2, <2>1 DEF CoverInv, RequestsCover
    <3> QED
      BY <1>2, <1>4, <1>5, <2>1, <3>1
  <2>2. CASE b # a
    <3>1. b \in answers /\ b.req \in Req /\ call[b.req].dev \in DeviceId
      BY <1>1, <1>2, <1>3, <2>2 DEF CoverInv, Asked
    <3>2. heap[b.req].active \subseteq entity[call[b.req].dev]
      BY <3>1 DEF CoverInv, AnswersCovered
    <3> QED
      BY <1>2, <1>5, <3>1, <3>2
  <2> QED
    BY <2>1, <2>2
<1>13. ReplacementCovered'
  <2> SUFFICES ASSUME NEW q \in Req, call[q].at \in Replacing
               PROVE  heap[q].active \subseteq entity'[call[q].dev]
    BY <1>2 DEF ReplacementCovered, Replacing
  <2>1. heap[q].active \subseteq entity[call[q].dev] /\ call[q].dev \in DeviceId
    BY <1>3 DEF CoverInv, ReplacementCovered, Replacing
  <2> QED
    BY <1>5, <2>1
<1> QED
  BY <1>6, <1>7, <1>8, <1>10, <1>11, <1>12, <1>13 DEF CoverInv

LEMMA InitCovers == Init => CoverInv
BY DEF Init, CoverInv, Began, Asked, OwnsNew, RegistryCovered, HeldCovered, RequestsCover,
       AnswersCovered, ReplacementCovered, NoCall, HoldsNew

LEMMA NextCovers ==
  ASSUME "put" \notin Ops, TypeInv, CoverInv, [Next]_vars
  PROVE  CoverInv'
<1>1. CASE Client
  BY <1>1, ClientCovers
<1>2. CASE Agent
  BY <1>2, TaskCovers, CallbackCovers DEF Agent
<1>3. CASE Broker
  <2>1. ASSUME NEW m \in sent, BrokerAccepts(m)
        PROVE  CoverInv'
    BY <2>1, BrokerAnswersCovers DEF BrokerAccepts
  <2>2. ASSUME NEW m \in sent, BrokerFails(m)
        PROVE  CoverInv'
    BY <2>2, BrokerAnswersCovers DEF BrokerFails
  <2> QED
    BY <1>3, <2>1, <2>2 DEF Broker
<1>4. CASE UNCHANGED vars
  BY <1>4
  DEF vars, CoverInv, Began, Asked, OwnsNew, RegistryCovered, HeldCovered, CoveredFor,
      RequestsCover, AnswersCovered, ReplacementCovered
<1> QED
  BY <1>1, <1>2, <1>3, <1>4 DEF Next

\* However many calls about a device overlap, and whatever fails at the
\* Context Broker, the entity has every active attribute of the registered
\* device, as long as nobody updates a device through the provisioning API's
\* PUT (handleUpdateDevice), which writes into the registry's own object.
THEOREM EntitiesCover ==
  ASSUME "put" \notin Ops
  PROVE  Spec => []EntityCoversRegistry
<1>1. Init => TypeInv /\ CoverInv
  BY InitType, InitCovers
<1>2. TypeInv /\ CoverInv /\ [Next]_vars => (TypeInv /\ CoverInv)'
  BY NextType, NextCovers
<1>3. TypeInv /\ CoverInv => EntityCoversRegistry
  BY DEF CoverInv, RegistryCovered, CoveredFor, EntityCoversRegistry
<1> QED
  BY <1>1, <1>2, <1>3, PTL DEF Spec

----------------------------------------------------------------------------
\* Why registering replaces nothing.

\* The stages of registerDevice: a registering call never gets to the tasks of
\* other operations, which may end in a replaced or removed device.
Registering == {"registering", "creating"} \cup Ended

\* An answer to a subscription, which a handler takes at any stage, never
\* belongs to a registering call.
RegisterInv ==
  /\ Asked
  /\ \A r \in Req : call[r].op = "register" => call[r].at \in Registering
  /\ \A m \in sent \cup answers : m.kind = "subscribe" => call[m.req].op = "subscribe"

\* A register call that succeeds in this step found its id free.
StoresFree ==
  \A r \in Req :
    call[r].op = "register" /\ call[r].at # "ok" /\ call'[r].at = "ok"
    => registered[call[r].dev] = None

\* A call moves on.
LEMMA MoveRegisters ==
  ASSUME TypeInv, RegisterInv, NEW r \in Req, NEW stage \in Stage, stage # "idle",
         \A q \in Req : /\ call'[q].op = call[q].op
                        /\ call'[q].at = IF q = r THEN stage ELSE call[q].at,
         call[r].op = "register" => stage \in Registering,
         call[r].op = "register" /\ stage = "ok" /\ call[r].at # "ok"
           => registered[call[r].dev] = None,
         \A m \in sent' \cup answers' :
           m \in sent \cup answers \/ (m.req = r /\ m.kind # "subscribe")
  PROVE  RegisterInv' /\ StoresFree
<1>1. \A m \in sent \cup answers : m.req \in Req
  BY DEF TypeInv, TypeOK, Message, Answer
<1>2. Asked'
  BY <1>1 DEF RegisterInv, Asked
<1>3. \A q \in Req : call'[q].op = "register" => call'[q].at \in Registering
  BY DEF RegisterInv
<1>4. \A m \in sent' \cup answers' : m.kind = "subscribe" => call'[m.req].op = "subscribe"
  BY <1>1 DEF RegisterInv
<1>5. StoresFree
  BY DEF StoresFree
<1> QED
  BY <1>2, <1>3, <1>4, <1>5 DEF RegisterInv

\* A call is made.
LEMMA BeginRegisters ==
  ASSUME TypeInv, RegisterInv, NEW r \in Req, NEW op \in Ops, NEW d, NEW old, NEW new,
         NEW stage \in Stage, stage # "idle", call[r].at = "idle",
         Begin(r, op, d, old, new, stage),
         op = "register" => stage \in {"registering", "creating"},
         \A m \in sent' \cup answers' :
           \/ m \in sent \cup answers
           \/ m.req = r /\ (m.kind = "subscribe" => op = "subscribe")
  PROVE  RegisterInv' /\ StoresFree
<1>1. \A m \in sent \cup answers : m.req \in Req /\ m.req # r
  BY DEF TypeInv, TypeOK, Message, Answer, RegisterInv, Asked
<1>2. \A q \in Req : IF q = r THEN call'[q].op = op /\ call'[q].at = stage
                              ELSE call'[q] = call[q]
  BY DEF Begin, TypeInv, TypeOK
<1>3. Asked'
  BY <1>1, <1>2 DEF RegisterInv, Asked
<1>4. \A q \in Req : call'[q].op = "register" => call'[q].at \in Registering
  BY <1>2 DEF RegisterInv, Registering
<1>5. \A m \in sent' \cup answers' : m.kind = "subscribe" => call'[m.req].op = "subscribe"
  BY <1>1, <1>2 DEF RegisterInv
<1>6. StoresFree
  BY <1>2 DEF StoresFree, RegisterInv, Registering, Ended
<1> QED
  BY <1>3, <1>4, <1>5, <1>6 DEF RegisterInv

LEMMA ClientRegisters ==
  ASSUME TypeInv, RegisterInv, Client
  PROVE  RegisterInv' /\ StoresFree
<1> USE DEF MayStart
<1>1. ASSUME NEW r \in Req, NEW d \in DeviceId,
             NEW active \in SUBSET Attr, NEW lazy \in BOOLEAN, RegisterDevice(r, d, active, lazy)
      PROVE  RegisterInv' /\ StoresFree
  <2>1. CASE lazy
    BY <1>1, <2>1, BeginRegisters DEF RegisterDevice, Msg, Stage, Ended
  <2>2. CASE ~lazy
    BY <1>1, <2>2, BeginRegisters DEF RegisterDevice, Msg, Stage, Ended
  <2> QED
    BY <2>1, <2>2
<1>2. ASSUME NEW r \in Req, NEW d \in DeviceId,
             NEW active \in SUBSET Attr, NEW lazy \in BOOLEAN, UpdateDevice(r, d, active, lazy)
      PROVE  RegisterInv' /\ StoresFree
  BY <1>2, BeginRegisters DEF UpdateDevice, Stage, Ended
<1>3. ASSUME NEW r \in Req, NEW d \in DeviceId, NEW active \in SUBSET Attr, NEW lazy \in BOOLEAN,
             NEW fields \in 1..2, PutDevice(r, d, active, lazy, fields)
      PROVE  RegisterInv' /\ StoresFree
  <2>1. CASE registered[d] = None
    BY <1>3, <2>1, BeginRegisters DEF PutDevice, Stage, Ended
  <2>2. CASE registered[d] # None
    BY <1>3, <2>2, BeginRegisters DEF PutDevice, Stage, Ended
  <2> QED
    BY <2>1, <2>2
<1>4. ASSUME NEW r \in Req, NEW d \in DeviceId, UnregisterDevice(r, d)
      PROVE  RegisterInv' /\ StoresFree
  BY <1>4, BeginRegisters DEF UnregisterDevice, Stage, Ended
<1>5. ASSUME NEW r \in Req, NEW d \in DeviceId, Subscribe(r, d)
      PROVE  RegisterInv' /\ StoresFree
  <2>1. sent' = sent \cup {Msg(r, "subscribe", None, {})} /\ answers' = answers
    BY <1>5 DEF Subscribe
  <2>2. Msg(r, "subscribe", None, {}).req = r
    BY DEF Msg
  <2>3. /\ "subscribe" \in Ops /\ call[r].at = "idle"
        /\ Begin(r, "subscribe", d, registered[d], None, "subscribing")
    BY <1>5 DEF Subscribe
  <2>4. "subscribing" \in Stage
    BY DEF Stage
  <2> QED
    BY <2>1, <2>2, <2>3, <2>4, BeginRegisters
<1>6. ASSUME NEW r \in Req, NEW d \in DeviceId, Unsubscribe(r, d)
      PROVE  RegisterInv' /\ StoresFree
  <2>1. PICK id : /\ sent' = sent \cup {Msg(r, "unsubscribe", id, {})}
                  /\ Begin(r, "unsubscribe", d, registered[d], id, "unsubscribing")
    BY <1>6 DEF Unsubscribe
  <2>2. "unsubscribe" \in Ops /\ call[r].at = "idle" /\ answers' = answers
    BY <1>6 DEF Unsubscribe
  <2>3. "unsubscribing" \in Stage /\ Msg(r, "unsubscribe", id, {}).req = r
    BY DEF Stage, Msg
  <2>4. Msg(r, "unsubscribe", id, {}).kind # "subscribe"
    BY DEF Msg
  <2> QED
    BY <2>1, <2>2, <2>3, <2>4, BeginRegisters
<1>7. CASE ClearRegistry
  BY <1>7 DEF ClearRegistry, RegisterInv, Asked, StoresFree
<1> QED
  BY <1>1, <1>2, <1>3, <1>4, <1>5, <1>6, <1>7 DEF Client

LEMMA TaskRegisters ==
  ASSUME TypeInv, RegisterInv, NEW r \in Req, Task(r)
  PROVE  RegisterInv' /\ StoresFree
<1> USE DEF Stage, Ended
<1>1. call \in [Req -> Call] /\ answers' = answers
  BY DEF TypeInv, TypeOK, Task, GetOld, SendDifference, SendUpdate, OnNothingToUpdate,
         ReplaceDevice, SendUnsubscriptions, SendExpire, RemoveUnregistered
<1>2. call[r].op # "register"
  BY DEF RegisterInv, Registering, Task, GetOld, SendDifference, SendUpdate, OnNothingToUpdate,
         ReplaceDevice, SendUnsubscriptions, SendExpire, RemoveUnregistered
<1>3. \A m \in sent' : m \in sent \/ (m.req = r /\ m.kind # "subscribe")
  BY DEF Msg, Task, GetOld, SendDifference, SendUpdate, OnNothingToUpdate,
         ReplaceDevice, SendUnsubscriptions, SendExpire, RemoveUnregistered
<1>4. CASE GetOld(r)
  <2>1. PICK stage \in Stage \ {"idle"} :
          \A q \in Req : /\ call'[q].op = call[q].op
                         /\ call'[q].at = IF q = r THEN stage ELSE call[q].at
    <3> DEFINE stage == IF registered[call[r].dev] = None THEN "error" ELSE "difference"
    <3> QED
      BY <1>1, <1>4 DEF GetOld, Call
  <2> QED
    BY <1>1, <1>2, <1>3, <2>1, MoveRegisters
<1>5. ASSUME NEW stage \in Stage \ {"idle"}, call' = Move(r, stage)
      PROVE  RegisterInv' /\ StoresFree
  <2>1. \A q \in Req : /\ call'[q].op = call[q].op
                       /\ call'[q].at = IF q = r THEN stage ELSE call[q].at
    BY <1>1, <1>5, MoveEffect
  <2> QED
    BY <1>1, <1>2, <1>3, <1>5, <2>1, MoveRegisters
<1>6. CASE SendDifference(r)
  BY <1>5, <1>6 DEF SendDifference
<1>7. CASE SendUpdate(r)
  BY <1>5, <1>7 DEF SendUpdate
<1>8. CASE OnNothingToUpdate(r)
  BY <1>5, <1>8 DEF OnNothingToUpdate
<1>9. CASE ReplaceDevice(r)
  BY <1>5, <1>9 DEF ReplaceDevice
<1>10. CASE SendUnsubscriptions(r)
  BY <1>5, <1>10 DEF SendUnsubscriptions
<1>11. CASE SendExpire(r)
  BY <1>5, <1>11 DEF SendExpire
<1>12. CASE RemoveUnregistered(r)
  BY <1>5, <1>12 DEF RemoveUnregistered
<1> QED
  BY <1>4, <1>6, <1>7, <1>8, <1>9, <1>10, <1>11, <1>12 DEF Task

LEMMA CallbackRegisters ==
  ASSUME TypeInv, RegisterInv, NEW r \in Req, NEW a \in answers, Callback(r, a)
  PROVE  RegisterInv' /\ StoresFree
<1>a. a.req = r /\ answers' = answers \ {a}
  BY Zenon DEF Callback, OnRegistered, StoreDevice, OnRefused, Combine, OnUpdated, OnExpired,
               OnSubscribed, OnUnsubscribed
<1>1. /\ call \in [Req -> Call] /\ call[r].at \in Stage
      /\ answers' \subseteq answers
      /\ call[r].at # "idle"
  BY <1>a DEF TypeInv, TypeOK, Call, RegisterInv, Asked
<1>2. \A m \in sent' : m \in sent \/ (m.req = r /\ m.kind # "subscribe")
  <2>1. CASE OnRegistered(r, a)
    BY <2>1 DEF OnRegistered, Msg
  <2>2. CASE ~OnRegistered(r, a)
    <3>1. sent' = sent
      BY <2>2, Zenon DEF Callback, StoreDevice, OnRefused, Combine, OnUpdated, OnExpired,
                         OnSubscribed, OnUnsubscribed
    <3> QED
      BY <3>1
  <2> QED
    BY <2>1, <2>2
<1>3. ASSUME NEW stage \in Stage \ {"idle"}, call' = Move(r, stage),
             call[r].op = "register" =>
               /\ stage \in Registering
               /\ stage = "ok" => call[r].at = "ok" \/ registered[call[r].dev] = None
      PROVE  RegisterInv' /\ StoresFree
  <2>1. \A q \in Req : /\ call'[q].op = call[q].op
                       /\ call'[q].at = IF q = r THEN stage ELSE call[q].at
    BY <1>1, <1>3, MoveEffect
  <2> QED
    BY <1>1, <1>2, <1>3, <2>1, MoveRegisters
<1>4. call[r].op = "register" => call[r].at \in Registering
  BY DEF RegisterInv
<1>5. CASE OnRegistered(r, a)
  BY <1>3, <1>5 DEF OnRegistered, Registering, Stage, Ended
<1>6. CASE StoreDevice(r, a)
  BY <1>3, <1>6 DEF StoreDevice, Storable, Registering, Stage, Ended
<1>7. CASE OnRefused(r, a)
  BY <1>3, <1>7 DEF OnRefused, Registering, Stage, Ended
<1>8. CASE Combine(r, a)
  BY <1>3, <1>4, <1>8 DEF Combine, Registering, Stage, Ended
<1>9. CASE OnUpdated(r, a)
  BY <1>3, <1>4, <1>9 DEF OnUpdated, Registering, Stage, Ended
<1>10. CASE OnExpired(r, a)
  BY <1>3, <1>4, <1>10 DEF OnExpired, Registering, Stage, Ended
<1>11. CASE OnSubscribed(r, a)
  <2>1. call[r].op # "register"
    BY <1>1, <1>11 DEF OnSubscribed, RegisterInv
  <2> QED
    BY <1>3, <1>11, <2>1 DEF OnSubscribed, Stage, Ended
<1>12. CASE OnUnsubscribed(r, a)
  <2>1. CASE call[r].at = "unsubscribing"
    BY <1>3, <1>4, <1>12, <2>1 DEF OnUnsubscribed, AfterUnsubscription, Registering, Stage, Ended
  <2>2. CASE call[r].at # "unsubscribing"
    BY <1>1, <1>3, <1>4, <1>12, <2>2 DEF OnUnsubscribed, AfterUnsubscription
  <2> QED
    BY <2>1, <2>2
<1> QED
  BY <1>5, <1>6, <1>7, <1>8, <1>9, <1>10, <1>11, <1>12 DEF Callback

LEMMA NextRegisters ==
  ASSUME TypeInv, RegisterInv, [Next]_vars
  PROVE  RegisterInv' /\ StoresFree
<1>1. CASE Client
  BY <1>1, ClientRegisters
<1>2. CASE Agent
  BY <1>2, TaskRegisters, CallbackRegisters DEF Agent
<1>3. CASE Broker
  <2>1. PICK m \in sent, result \in Result : BrokerAnswers(m, result)
    BY <1>3 DEF Broker, BrokerAccepts, BrokerFails, Result
  <2> QED
    BY <2>1 DEF BrokerAnswers, agentVars, RegisterInv, Asked, StoresFree
<1>4. CASE UNCHANGED vars
  BY <1>4 DEF vars, RegisterInv, Asked, StoresFree
<1> QED
  BY <1>1, <1>2, <1>3, <1>4 DEF Next

\* Whatever operations overlap and whatever fails, a register call that
\* succeeds never takes over an id that is in use: between the look at the
\* registry in store (deviceRegistryMemory.js) and the answer to the client
\* nothing comes, and no other task ends a register call with success.
THEOREM NothingReplaced == Spec => RegisterNeverReplaces
<1>1. Init => TypeInv /\ RegisterInv
  <2>1. Init => RegisterInv
    BY DEF Init, RegisterInv, Asked, NoCall
  <2> QED
    BY <2>1, InitType
<1>2. TypeInv /\ RegisterInv /\ [Next]_vars => (TypeInv /\ RegisterInv)' /\ StoresFree
  BY NextType, NextRegisters
<1>3. TypeInv /\ RegisterInv /\ [Next]_vars
      => [\A r \in Req :
            /\ call[r].op = "register" /\ call[r].at # "ok" /\ call'[r].at = "ok"
            => registered[call[r].dev] = None]_vars
  BY <1>2 DEF StoresFree
<1> QED
  BY <1>1, <1>2, <1>3, PTL DEF Spec, RegisterNeverReplaces

----------------------------------------------------------------------------
\* Clients that wait for each answer: what a call awaits, and whose objects
\* and registrations it works with.

StagesOf(op) ==
  Ended \cup CASE op = "register" -> {"registering", "creating"}
               [] op \in {"put", "updateRegister"} -> HoldsNew
               [] op = "unregister" -> {"unsubscribe", "unsubscribing", "expire", "expiring",
                                        "remove"}
               [] op = "subscribe" -> {"subscribing"}
               [] op = "unsubscribe" -> {"unsubscribing"}
               [] OTHER -> {}

\* The stages in which a call has a request of a kind, or its answer, under way.
\* Only unsubscriptions may come back when nobody waits for them any more.
AwaitedAt(kind) ==
  CASE kind = "register" -> {"registering", "updating"}
    [] kind = "entity" -> {"creating", "combining"}
    [] kind = "expire" -> {"expiring"}
    [] kind = "subscribe" -> {"subscribing"}
    [] OTHER -> Stage \ {"idle"}

Single(m) == m.kind # "unsubscribe"

\* A call awaits one answer at a time, but for the unsubscriptions.
OneAwaited ==
  /\ \A m, n \in sent : Single(m) /\ Single(n) /\ m.req = n.req => m = n
  /\ \A a, b \in answers : Single(a) /\ Single(b) /\ a.req = b.req => a = b
  /\ \A m \in sent, a \in answers : Single(m) /\ Single(a) => m.req # a.req

AtItsStage ==
  /\ \A r \in Req : call[r].at # "idle" => call[r].at \in StagesOf(call[r].op)
  /\ \A m \in sent \cup answers : call[m.req].at \in AwaitedAt(m.kind)

OneAtATime ==
  \A q, r \in Req : Busy(q) /\ Busy(r) /\ call[q].dev = call[r].dev => q = r

SerialInv == Began /\ AtItsStage /\ OneAwaited /\ OneAtATime

\* o is None, or was made for the device of r.
Of(o, r) == o # None => o \in Req /\ call[r].dev # None /\ call[o].dev = call[r].dev

\* Objects stay with their device, and so do the registrations they name.
OwnInv ==
  /\ \A r \in Req :
       /\ Of(call[r].old, r)
       /\ call[r].at \in HoldsNew => Of(call[r].new, r)
       /\ Of(heap[r].registrationId, r)
  /\ \A d \in DeviceId : registered[d] # None => call[registered[d]].dev = d
  /\ \A m \in sent \cup answers : m.kind = "register" => Of(m.id, m.req)

\* An unregistering call asks the broker to expire what the device names, and
\* once the broker said so, it has.
ExpireInv ==
  /\ \A m \in sent : m.kind = "expire" => m.id = heap[call[m.req].old].registrationId
  /\ \A a \in answers : a.kind = "expire" /\ a.result = "ok" =>
       heap[call[a.req].old].registrationId \notin registrations
  /\ \A r \in Req : call[r].at = "remove" => call[r].old \in Req /\ ~heap[call[r].old].lazy

ExpiredInv == SerialInv /\ OwnInv /\ ExpireInv

----------------------------------------------------------------------------
\* SerialInv is kept.

\* The stages a call awaits an answer in are those of no task.
LEMMA AwaitingStages ==
  ASSUME NEW kind \in MsgKind, NEW stage, stage \in AwaitedAt(kind)
  PROVE  /\ stage # "idle"
         /\ kind # "unsubscribe" =>
              stage \in {"registering", "updating", "creating", "combining", "expiring", "subscribing"}
BY DEF AwaitedAt, MsgKind, Stage, Ended

\* Nobody has asked anything for a call that was not made, and a call that
\* awaits nothing has unsubscriptions under way at most.
LEMMA NothingAwaited ==
  ASSUME TypeInv, SerialInv, NEW r \in Req,
         call[r].at \notin {"registering", "updating", "creating", "combining", "expiring", "subscribing"}
  PROVE  /\ \A m \in sent \cup answers : m.req = r => ~ Single(m)
         /\ call[r].at = "idle" => \A m \in sent \cup answers : m.req # r
<1>1. \A m \in sent \cup answers : m.kind \in MsgKind
  BY DEF TypeInv, TypeOK, Message, Answer
<1>2. \A m \in sent \cup answers : call[m.req].at \in AwaitedAt(m.kind)
  BY DEF SerialInv, AtItsStage
<1> QED
  BY <1>1, <1>2, AwaitingStages DEF Single

\* A call is made, with at most one request, which it awaits.
LEMMA BeginSerial ==
  ASSUME TypeInv, SerialInv, NEW r \in Req, NEW op \in Ops, NEW d \in DeviceId,
         NEW old, NEW new, NEW stage \in StagesOf(op), stage # "idle",
         Begin(r, op, d, old, new, stage), call[r].at = "idle",
         \A q \in Req : call[q].dev = d => ~Busy(q),
         answers' = answers,
         \/ sent' = sent
         \/ \E m : /\ sent' = sent \cup {m}
                   /\ m.req = r /\ stage \in AwaitedAt(m.kind)
  PROVE  SerialInv'
<1>1. /\ call \in [Req -> Call]
      /\ \A m \in sent \cup answers : m.req \in Req /\ m.req # r
  BY NothingAwaited DEF TypeInv, TypeOK, Message, Answer
<1>2. \A q \in Req : call'[q] =
        IF q = r THEN [op |-> op, dev |-> d, old |-> old, new |-> new, at |-> stage] ELSE call[q]
  BY <1>1 DEF Begin
<1>3. Began'
  BY <1>2 DEF SerialInv, Began
<1>4. AtItsStage'
  <2>1. \A q \in Req : call'[q].at # "idle" => call'[q].at \in StagesOf(call'[q].op)
    BY <1>2 DEF SerialInv, AtItsStage
  <2>2. \A m \in sent \cup answers : call'[m.req].at \in AwaitedAt(m.kind)
    BY <1>1, <1>2 DEF SerialInv, AtItsStage
  <2>3. \A m \in sent' \cup answers' : call'[m.req].at \in AwaitedAt(m.kind)
    BY <1>2, <2>2
  <2> QED
    BY <2>1, <2>3 DEF AtItsStage
<1>5. OneAwaited'
  BY <1>1 DEF SerialInv, OneAwaited
<1>6. OneAtATime'
  BY <1>1, <1>2 DEF SerialInv, OneAtATime, Busy
<1> QED
  BY <1>3, <1>4, <1>5, <1>6 DEF SerialInv

\* A call moves on, and awaits what it asks for, if anything.
LEMMA MoveSerial ==
  ASSUME TypeInv, SerialInv, NEW r \in Req, NEW stage \in Stage, stage # "idle",
         call[r].at # "idle", stage \in StagesOf(call[r].op),
         \A q \in Req : /\ call'[q].op = call[q].op /\ call'[q].dev = call[q].dev
                        /\ call'[q].at = IF q = r THEN stage ELSE call[q].at
                        /\ q # r => call'[q] = call[q],
         call[r].at \in Ended => stage \in Ended,
         answers' \subseteq answers,
         \/ stage = call[r].at /\ sent' = sent
         \/ /\ \A m \in sent \cup answers' : m.req = r => ~Single(m)
            /\ \/ sent' = sent
               \/ \E m : sent' = sent \cup {m} /\ m.req = r /\ stage \in AwaitedAt(m.kind)
               \/ \A m \in sent' : m \in sent \/ (m.req = r /\ m.kind = "unsubscribe")
  PROVE  SerialInv'
<1>1. \A m \in sent \cup answers : m.req \in Req /\ m.kind \in MsgKind
  BY DEF TypeInv, TypeOK, Message, Answer
<1>3. Began'
  BY DEF SerialInv, Began
<1>4. AtItsStage'
  <2>1. \A q \in Req : call'[q].at # "idle" => call'[q].at \in StagesOf(call'[q].op)
    BY DEF SerialInv, AtItsStage
  <2>2. \A m \in sent \cup answers : call[m.req].at \in AwaitedAt(m.kind)
    BY DEF SerialInv, AtItsStage
  <2>3. \A m \in sent \cup answers : m.req # r => call'[m.req].at \in AwaitedAt(m.kind)
    BY <1>1, <2>2
  <2>4. AwaitedAt("unsubscribe") = Stage \ {"idle"}
    BY DEF AwaitedAt
  <2>5. ASSUME NEW m \in sent' \cup answers', m.req = r
        PROVE  call'[m.req].at \in AwaitedAt(m.kind)
    BY <2>2, <2>4, <2>5 DEF Single
  <2>6. ASSUME NEW m \in sent' \cup answers', m.req # r
        PROVE  call'[m.req].at \in AwaitedAt(m.kind)
    BY <2>3, <2>6
  <2> QED
    BY <2>1, <2>5, <2>6 DEF AtItsStage
<1>5. OneAwaited'
  BY <1>1 DEF SerialInv, OneAwaited, Single
<1>6. OneAtATime'
  BY DEF SerialInv, OneAtATime, Busy
<1> QED
  BY <1>3, <1>4, <1>5, <1>6 DEF SerialInv

----------------------------------------------------------------------------
\* OwnInv and ExpireInv are kept.

\* Of, said of the next state's calls.
OfNext(o, r) == o # None => o \in Req /\ call'[r].dev # None /\ call'[o].dev = call'[r].dev

\* What OwnInv asks of the next state.
LEMMA OwnNext ==
  ASSUME \A q \in Req : /\ OfNext(call'[q].old, q)
                        /\ call'[q].at \in HoldsNew => OfNext(call'[q].new, q)
                        /\ OfNext(heap'[q].registrationId, q),
         \A d \in DeviceId : registered'[d] # None => call'[registered'[d]].dev = d,
         \A m \in sent' \cup answers' : m.kind = "register" => OfNext(m.id, m.req)
  PROVE  OwnInv'
<1>1. ASSUME NEW q \in Req
      PROVE  /\ Of(call[q].old, q)'
             /\ (call[q].at \in HoldsNew => Of(call[q].new, q))'
             /\ Of(heap[q].registrationId, q)'
  BY DEF Of, OfNext
<1>2. ASSUME NEW m \in sent' \cup answers', m.kind = "register"
      PROVE  Of(m.id, m.req)'
  BY <1>2 DEF Of, OfNext
<1> QED
  BY <1>1, <1>2 DEF OwnInv

\* A call is made: it may hold what the registry has for its device.
LEMMA BeginOwns ==
  ASSUME TypeInv, SerialInv, OwnInv, NEW r \in Req, NEW op \in Ops, NEW d \in DeviceId,
         NEW old \in {None, registered[d]}, NEW new, NEW stage, call[r].at = "idle",
         Begin(r, op, d, old, new, stage),
         stage \in HoldsNew => new \in {r, registered[d]},
         \A q \in Req : heap'[q].registrationId \in {heap[q].registrationId, None},
         registered' = registered, answers' = answers,
         \A m \in sent' : m \in sent \/ m.kind # "register" \/ m.id = None
  PROVE  OwnInv'
<1>1. /\ call \in [Req -> Call] /\ registered \in [DeviceId -> Ref]
      /\ \A m \in sent \cup answers : m.req \in Req
      /\ \A q \in Req : call[q].at = "idle" => call[q].dev = None
      /\ \A q \in Req : call[q].at # "idle" => call[q].dev # None
      /\ d # None
  BY ConstantsAssumption DEF TypeInv, TypeOK, Message, Answer, SerialInv, Began, NoCall
<1>2. \A q \in Req : call'[q] =
        IF q = r THEN [op |-> op, dev |-> d, old |-> old, new |-> new, at |-> stage] ELSE call[q]
  BY <1>1 DEF Begin
<1>3. \A q \in Req : \A o : Of(o, q) => OfNext(o, q)
  BY <1>1, <1>2 DEF Of, OfNext
<1>4. /\ OfNext(registered[d], r) /\ OfNext(r, r)
      /\ \A q : OfNext(None, q)
  <2>1. registered[d] # None => registered[d] \in Req /\ call[registered[d]].dev = d
    BY <1>1 DEF OwnInv, Ref
  <2> QED
    BY <1>1, <1>2, <2>1 DEF OfNext
<1>5. \A q \in Req : /\ OfNext(call[q].old, q)
                     /\ call[q].at \in HoldsNew => OfNext(call[q].new, q)
                     /\ OfNext(heap[q].registrationId, q)
  BY <1>3 DEF OwnInv
<1>6. ASSUME NEW q \in Req
      PROVE  /\ OfNext(call'[q].old, q)
             /\ call'[q].at \in HoldsNew => OfNext(call'[q].new, q)
             /\ OfNext(heap'[q].registrationId, q)
  <2>1. OfNext(heap'[q].registrationId, q)
    BY <1>4, <1>5
  <2>2. CASE q # r
    BY <1>2, <1>5, <2>1, <2>2
  <2>3. CASE q = r
    <3>1. call'[q].old = old /\ call'[q].new = new /\ call'[q].at = stage
      BY <1>2, <2>3
    <3> QED
      BY <1>4, <2>1, <2>3, <3>1
  <2> QED
    BY <2>2, <2>3
<1>7. \A e \in DeviceId : registered'[e] # None => call'[registered'[e]].dev = e
  BY <1>1, <1>2, ConstantsAssumption DEF OwnInv, Ref
<1>8. \A m \in sent' \cup answers' : m.kind = "register" => OfNext(m.id, m.req)
  BY <1>1, <1>3, <1>4 DEF OwnInv
<1> QED
  BY <1>6, <1>7, <1>8, OwnNext

\* A call moves on.
LEMMA MoveOwns ==
  ASSUME TypeInv, SerialInv, OwnInv, NEW r \in Req, call[r].at # "idle",
         \A q \in Req : call'[q].dev = call[q].dev /\ (q # r => call'[q] = call[q]),
         call'[r].old \in {None, call[r].old, registered[call[r].dev]},
         call'[r].at \in HoldsNew => call[r].at \in HoldsNew /\ call'[r].new = call[r].new,
         \A q \in Req : \/ heap'[q].registrationId = heap[q].registrationId
                        \/ q = r /\ Of(heap'[r].registrationId, r),
         registered' \in [DeviceId -> Ref],
         \A d \in DeviceId : \/ registered'[d] \in {registered[d], None}
                             \/ d = call[r].dev /\ Of(registered'[d], r),
         answers' \subseteq answers,
         \A m \in sent' : m \in sent \/ m.kind # "register" \/ (m.req = r /\ Of(m.id, r))
  PROVE  OwnInv'
<1>1. /\ registered \in [DeviceId -> Ref]
      /\ \A m \in sent \cup answers : m.req \in Req
      /\ call[r].dev \in DeviceId
  BY DEF TypeInv, TypeOK, Message, Answer, SerialInv, Began
<1>2. \A q \in Req : \A o : Of(o, q) => OfNext(o, q)
  BY DEF Of, OfNext
<1>3. Of(None, r) /\ Of(registered[call[r].dev], r)
  BY <1>1, ConstantsAssumption DEF OwnInv, Of, Ref
<1>4. ASSUME NEW q \in Req
      PROVE  /\ OfNext(call'[q].old, q)
             /\ call'[q].at \in HoldsNew => OfNext(call'[q].new, q)
             /\ OfNext(heap'[q].registrationId, q)
  <2>0. Of(call[q].old, q) /\ (call[q].at \in HoldsNew => Of(call[q].new, q))
    BY DEF OwnInv
  <2>1. OfNext(heap'[q].registrationId, q)
    BY <1>2 DEF OwnInv
  <2>2. CASE q # r
    BY <1>2, <2>0, <2>1, <2>2
  <2>3. CASE q = r
    BY <1>2, <1>3, <2>0, <2>1, <2>3
  <2> QED
    BY <2>2, <2>3
<1>5. \A d \in DeviceId : registered'[d] # None => call'[registered'[d]].dev = d
  BY <1>1 DEF OwnInv, Of, Ref
<1>6. \A m \in sent' \cup answers' : m.kind = "register" => OfNext(m.id, m.req)
  BY <1>1, <1>2 DEF OwnInv
<1> QED
  BY <1>4, <1>5, <1>6, OwnNext

\* Some object of a device that nobody else works on may change.
LEMMA BeginExpires ==
  ASSUME TypeInv, SerialInv, SerialInv', OwnInv, ExpireInv, NEW r \in Req, NEW d \in DeviceId,
         call[r].at = "idle",
         \A q \in Req : q # r => call'[q] = call[q],
         call'[r].at \notin {"expiring", "remove"},
         \A q \in Req : call[q].dev = d => ~Busy(q),
         \A q \in Req : \/ /\ heap'[q].registrationId = heap[q].registrationId
                           /\ heap'[q].lazy = heap[q].lazy
                        \/ call[q].dev \in {None, d},
         registrations' = registrations, answers' = answers,
         \A m \in sent' : m \in sent \/ m.req = r
  PROVE  ExpireInv'
<1>1. \A m \in sent' \cup answers' : m.kind = "expire" => call'[m.req].at = "expiring"
  BY DEF SerialInv, AtItsStage, AwaitedAt
<1>2. \A m \in sent \cup answers : m.req \in Req
  BY DEF TypeInv, TypeOK, Message, Answer
<1>3. ASSUME NEW q \in Req, call[q].at \in {"expiring", "remove"}
      PROVE  /\ heap'[call[q].old].registrationId = heap[call[q].old].registrationId
             /\ heap'[call[q].old].lazy = heap[call[q].old].lazy
  <2>1. call[q].old \in Req /\ call[q].old # None
    BY <1>3, ConstantsAssumption DEF TypeInv, Holding, HoldsOld, ExpireInv
  <2>2. call[call[q].old].dev = call[q].dev /\ call[q].dev # None
    BY <2>1 DEF OwnInv, Of
  <2>3. call[q].dev # d
    BY <1>3 DEF Busy, Ended
  <2> QED
    BY <2>1, <2>2, <2>3
<1>4. \A m \in sent' : m.kind = "expire" => m \in sent /\ m.req # r
  BY <1>1
<1>5. \A a \in answers' : a.kind = "expire" => a.req # r
  BY <1>1
<1>6. \A m \in sent' : m.kind = "expire" => m.id = heap'[call'[m.req].old].registrationId
  BY <1>1, <1>2, <1>3, <1>4 DEF ExpireInv
<1>7. \A a \in answers' : a.kind = "expire" /\ a.result = "ok" =>
        heap'[call'[a.req].old].registrationId \notin registrations'
  BY <1>1, <1>2, <1>3, <1>5 DEF ExpireInv
<1>8. \A q \in Req : call'[q].at = "remove" => call'[q].old \in Req /\ ~heap'[call'[q].old].lazy
  BY <1>3 DEF ExpireInv
<1> QED
  BY <1>6, <1>7, <1>8 DEF ExpireInv

LEMMA MoveExpires ==
  ASSUME TypeInv, SerialInv, SerialInv', OwnInv, ExpireInv, NEW r \in Req,
         \A q \in Req : q # r => call'[q] = call[q],
         call'[r].at \in {"expiring", "remove"} =>
           /\ call'[r].old = call[r].old
           /\ \A q \in Req : /\ heap'[q].registrationId = heap[q].registrationId
                             /\ heap'[q].lazy = heap[q].lazy,
         call'[r].at = "expiring" => call[r].old \in Req,
         call'[r].at = "remove" =>
           call[r].at = "remove" \/ (call[r].old \in Req /\ ~heap[call[r].old].lazy),
         \A q \in Req : \/ /\ heap'[q].registrationId = heap[q].registrationId
                           /\ heap'[q].lazy = heap[q].lazy
                        \/ Busy(r) /\ call[q].dev = call[r].dev,
         registrations' = registrations, answers' \subseteq answers,
         \A m \in sent' : \/ m \in sent
                          \/ /\ m.req = r
                             /\ m.kind = "expire" => m.id = heap[call[r].old].registrationId
  PROVE  ExpireInv'
<1>1. \A m \in sent' \cup answers' : m.kind = "expire" => call'[m.req].at = "expiring"
  BY DEF SerialInv, AtItsStage, AwaitedAt
<1>2. \A m \in sent \cup answers : m.req \in Req
  BY DEF TypeInv, TypeOK, Message, Answer
<1>3. ASSUME NEW q \in Req, call[q].at \in {"expiring", "remove"}, q # r
      PROVE  /\ heap'[call[q].old].registrationId = heap[call[q].old].registrationId
             /\ heap'[call[q].old].lazy = heap[call[q].old].lazy
  <2>1. call[q].old \in Req /\ call[q].old # None
    BY <1>3, ConstantsAssumption DEF TypeInv, Holding, HoldsOld, ExpireInv
  <2>2. call[call[q].old].dev = call[q].dev
    BY <2>1 DEF OwnInv, Of
  <2>3. Busy(q)
    BY <1>3 DEF Busy, Ended
  <2> QED
    BY <1>3, <2>1, <2>2, <2>3 DEF SerialInv, OneAtATime
<1>4. ASSUME NEW m \in sent', m.kind = "expire"
      PROVE  m.id = heap'[call'[m.req].old].registrationId
  <2>1. CASE m.req = r
    BY <1>1, <1>4, <2>1 DEF ExpireInv
  <2>2. CASE m.req # r
    BY <1>1, <1>2, <1>3, <1>4, <2>2 DEF ExpireInv
  <2> QED
    BY <2>1, <2>2
<1>5. ASSUME NEW a \in answers', a.kind = "expire", a.result = "ok"
      PROVE  heap'[call'[a.req].old].registrationId \notin registrations'
  <2>1. CASE a.req = r
    BY <1>1, <1>5, <2>1 DEF ExpireInv
  <2>2. CASE a.req # r
    BY <1>1, <1>2, <1>3, <1>5, <2>2 DEF ExpireInv
  <2> QED
    BY <2>1, <2>2
<1>6. ASSUME NEW q \in Req, call'[q].at = "remove"
      PROVE  call'[q].old \in Req /\ ~heap'[call'[q].old].lazy
  <2>1. CASE q = r
    BY <1>6, <2>1 DEF ExpireInv
  <2>2. CASE q # r
    BY <1>3, <1>6, <2>2 DEF ExpireInv
  <2> QED
    BY <2>1, <2>2
<1> QED
  BY <1>4, <1>5, <1>6 DEF ExpireInv

----------------------------------------------------------------------------
\* The Context Broker answers.

LEMMA BrokerExpires ==
  ASSUME TypeInv, ExpiredInv, Broker
  PROVE  ExpiredInv'
<1>1. PICK m \in sent, result \in Result :
        /\ BrokerAnswers(m, result)
        /\ \/ Effect(m)
           \/ registrations' = registrations /\ result # "ok"
  BY DEF Broker, BrokerAccepts, BrokerFails, Result
<1> DEFINE a == [req |-> m.req, kind |-> m.kind, id |-> IdOf(m), result |-> result]
<1>2. /\ sent' = sent \ {m} /\ answers' = answers \cup {a}
      /\ UNCHANGED <<registered, heap, lists, call>>
  BY <1>1 DEF BrokerAnswers, agentVars
<1>3. /\ \A n \in sent \cup answers : n.req \in Req /\ call[n.req].at # "idle"
      /\ m.req \in Req /\ m.id \in Ref /\ m.kind \in MsgKind
      /\ call[m.req].dev \in DeviceId
  <2>1. \A n \in sent \cup answers : n.req \in Req /\ n.kind \in MsgKind
    BY DEF TypeInv, TypeOK, Message, Answer
  <2>2. \A n \in sent \cup answers : call[n.req].at # "idle"
    BY <2>1, AwaitingStages DEF ExpiredInv, SerialInv, AtItsStage
  <2>3. m.id \in Ref
    BY DEF TypeInv, TypeOK, Message
  <2> QED
    BY <2>1, <2>2, <2>3 DEF ExpiredInv, SerialInv, Began
<1>4. a.req = m.req /\ a.kind = m.kind /\ a.id = IdOf(m) /\ a.result = result
  OBVIOUS
<1> HIDE DEF a
<1>5. SerialInv'
  <2>1. Began' /\ OneAtATime'
    BY <1>2 DEF ExpiredInv, SerialInv, Began, OneAtATime, Busy
  <2>2. AtItsStage'
    BY <1>2, <1>4 DEF ExpiredInv, SerialInv, AtItsStage
  <2>3. OneAwaited'
    BY <1>2, <1>4 DEF ExpiredInv, SerialInv, OneAwaited, Single
  <2> QED
    BY <2>1, <2>2, <2>3 DEF SerialInv
<1>6. Of(m.req, m.req)
  BY <1>3, ConstantsAssumption DEF Of
<1>7. OwnInv'
  <2>1. \A n \in sent' \cup answers' : n.kind = "register" => Of(n.id, n.req)
    BY <1>2, <1>4, <1>6 DEF ExpiredInv, OwnInv, IdOf
  <2> QED
    BY <1>2, <2>1 DEF ExpiredInv, OwnInv, Of
<1>8. ExpireInv'
  <2>1. ASSUME NEW b \in answers, b.kind = "expire", b.result = "ok",
               heap[call[b.req].old].registrationId \in registrations'
        PROVE  FALSE
    <3> DEFINE o == call[b.req].old  x == heap[o].registrationId
    <3>1. x \notin registrations
      BY <2>1 DEF ExpiredInv, ExpireInv
    <3>2. m.kind = "register" /\ x = IdOf(m) /\ x \in Req
      BY <1>1, <1>3, <2>1, <3>1 DEF Effect, IdOf, Ref
    <3>3. call[b.req].at = "expiring" /\ b.req \in Req
      BY <1>3, <2>1 DEF ExpiredInv, SerialInv, AtItsStage, AwaitedAt
    <3>4. o \in Req
      BY <3>3 DEF TypeInv, Holding, HoldsOld
    <3>5. call[o].dev = call[b.req].dev /\ call[x].dev = call[o].dev
      <4>1. o # None /\ x # None
        BY <3>2, <3>4, ConstantsAssumption
      <4> QED
        BY <3>2, <3>3, <3>4, <4>1 DEF ExpiredInv, OwnInv, Of
    <3>6. call[x].dev = call[m.req].dev
      BY <1>3, <3>2, ConstantsAssumption DEF ExpiredInv, OwnInv, Of, IdOf
    <3>7. call[m.req].at \in {"registering", "updating"}
      BY <3>2 DEF ExpiredInv, SerialInv, AtItsStage, AwaitedAt
    <3>8. Busy(m.req) /\ Busy(b.req) /\ m.req # b.req
      BY <3>3, <3>7 DEF Busy, Ended
    <3> QED
      BY <1>3, <3>3, <3>5, <3>6, <3>8 DEF ExpiredInv, SerialInv, OneAtATime
  <2>2. ASSUME m.kind = "expire", result = "ok"
        PROVE  heap[call[m.req].old].registrationId \notin registrations'
    BY <1>1, <2>2 DEF Effect, ExpiredInv, ExpireInv
  <2>3. \A b \in answers' : b.kind = "expire" /\ b.result = "ok" =>
          heap'[call'[b.req].old].registrationId \notin registrations'
    BY <1>2, <1>4, <2>1, <2>2
  <2> QED
    BY <1>2, <2>3 DEF ExpiredInv, ExpireInv
<1> QED
  BY <1>5, <1>7, <1>8 DEF ExpiredInv

\* A call is made.
LEMMA BeginKeeps ==
  ASSUME TypeInv, ExpiredInv, NEW r \in Req, NEW op \in Ops, NEW d \in DeviceId,
         NEW old \in {None, registered[d]}, NEW new, NEW stage \in StagesOf(op),
         stage \notin {"idle", "expiring", "remove"},
         MayStart(r, op, d), ~Overlap, Begin(r, op, d, old, new, stage),
         stage \in HoldsNew => new \in {r, registered[d]},
         \A q \in Req : /\ heap'[q].registrationId \in {heap[q].registrationId, None}
                        /\ \/ /\ heap'[q].registrationId = heap[q].registrationId
                              /\ heap'[q].lazy = heap[q].lazy
                           \/ call[q].dev \in {None, d},
         registered' = registered, registrations' = registrations, answers' = answers,
         \/ sent' = sent
         \/ \E m : /\ sent' = sent \cup {m}
                   /\ m.req = r /\ stage \in AwaitedAt(m.kind)
                   /\ m.kind = "register" => m.id = None
  PROVE  ExpiredInv'
<1>1. call[r].at = "idle" /\ \A q \in Req : call[q].dev = d => ~Busy(q)
  BY DEF MayStart
<1>2. SerialInv'
  BY <1>1, BeginSerial DEF ExpiredInv
<1>3. OwnInv'
  BY <1>1, BeginOwns DEF ExpiredInv
<1>4. /\ \A q \in Req : q # r => call'[q] = call[q]
      /\ call'[r].at = stage
  BY DEF Begin, TypeInv, TypeOK
<1>5. ExpireInv'
  BY <1>1, <1>2, <1>4, BeginExpires DEF ExpiredInv
<1> QED
  BY <1>2, <1>3, <1>5 DEF ExpiredInv

\* A call moves on.
LEMMA MoveKeeps ==
  ASSUME TypeInv, ExpiredInv, NEW r \in Req, NEW stage \in Stage, stage # "idle",
         call[r].at # "idle", stage \in StagesOf(call[r].op),
         \A q \in Req : q # r => call'[q] = call[q],
         call'[r].op = call[r].op, call'[r].dev = call[r].dev, call'[r].new = call[r].new,
         call'[r].at = stage,
         call'[r].old \in {None, call[r].old, registered[call[r].dev]},
         call[r].at \in Ended => stage \in Ended,
         stage \in HoldsNew => call[r].at \in HoldsNew,
         stage \in {"expiring", "remove"} => call'[r].old = call[r].old /\ heap' = heap,
         stage = "expiring" => call[r].old \in Req,
         stage = "remove" =>
           call[r].at = "remove" \/ (call[r].old \in Req /\ ~heap[call[r].old].lazy),
         \A q \in Req : \/ heap'[q].registrationId = heap[q].registrationId
                        \/ q = r /\ Of(heap'[r].registrationId, r),
         \A q \in Req : \/ /\ heap'[q].registrationId = heap[q].registrationId
                           /\ heap'[q].lazy = heap[q].lazy
                        \/ Busy(r) /\ call[q].dev = call[r].dev,
         registered' \in [DeviceId -> Ref],
         \A d \in DeviceId : \/ registered'[d] \in {registered[d], None}
                             \/ d = call[r].dev /\ Of(registered'[d], r),
         registrations' = registrations, answers' \subseteq answers,
         \/ stage = call[r].at /\ sent' = sent
         \/ /\ \A m \in sent \cup answers' : m.req = r => ~Single(m)
            /\ \/ sent' = sent
               \/ \E m : /\ sent' = sent \cup {m} /\ m.req = r /\ stage \in AwaitedAt(m.kind)
                         /\ m.kind = "register" => Of(m.id, r)
                         /\ m.kind = "expire" => m.id = heap[call[r].old].registrationId
               \/ \A m \in sent' : m \in sent \/ (m.req = r /\ m.kind = "unsubscribe")
  PROVE  ExpiredInv'
<1>1. \A q \in Req : /\ call'[q].op = call[q].op /\ call'[q].dev = call[q].dev
                     /\ call'[q].at = IF q = r THEN stage ELSE call[q].at
  OBVIOUS
<1>2. SerialInv'
  BY <1>1, MoveSerial DEF ExpiredInv
<1>3. \A m \in sent' : m \in sent \/ m.kind # "register" \/ (m.req = r /\ Of(m.id, r))
  OBVIOUS
<1>4. OwnInv'
  BY <1>1, <1>3, MoveOwns DEF ExpiredInv
<1>5. \A m \in sent' : \/ m \in sent
                       \/ /\ m.req = r
                          /\ m.kind = "expire" => m.id = heap[call[r].old].registrationId
  OBVIOUS
<1>6. ExpireInv'
  BY <1>1, <1>2, <1>5, MoveExpires DEF ExpiredInv
<1> QED
  BY <1>2, <1>4, <1>6 DEF ExpiredInv

\* The stages of each operation, spelt out.
LEMMA Stages ==
  /\ \A op : StagesOf(op) \subseteq Stage \ {"idle"} /\ Ended \subseteq StagesOf(op)
  /\ StagesOf("register") = {"registering", "creating"} \cup Ended
  /\ \A op \in {"put", "updateRegister"} : StagesOf(op) = HoldsNew \cup Ended
  /\ StagesOf("unregister") =
       {"unsubscribe", "unsubscribing", "expire", "expiring", "remove"} \cup Ended
  /\ StagesOf("subscribe") = {"subscribing"} \cup Ended
  /\ StagesOf("unsubscribe") = {"unsubscribing"} \cup Ended
  /\ Ended = {"ok", "error", "lost"}
  /\ "register" \notin {"put", "updateRegister"}
BY DEF StagesOf, Stage, HoldsNew, Ended

LEMMA Awaited ==
  /\ AwaitedAt("register") = {"registering", "updating"}
  /\ AwaitedAt("entity") = {"creating", "combining"}
  /\ AwaitedAt("expire") = {"expiring"}
  /\ AwaitedAt("subscribe") = {"subscribing"}
  /\ AwaitedAt("unsubscribe") = Stage \ {"idle"}
BY DEF AwaitedAt

LEMMA ClientKeeps ==
  ASSUME TypeInv, ExpiredInv, ~Overlap, Client
  PROVE  ExpiredInv'
<1> USE Stages, Awaited
<1>t. /\ registered \in [DeviceId -> Ref] /\ heap \in [Req -> Device]
      /\ \A q \in Req : call[q].at = "idle" => call[q].dev = None
  BY DEF TypeInv, TypeOK, ExpiredInv, SerialInv, Began, NoCall
<1>m. \A r, kind, id, attrs : /\ Msg(r, kind, id, attrs).req = r
                              /\ Msg(r, kind, id, attrs).kind = kind
                              /\ Msg(r, kind, id, attrs).id = id
  BY DEF Msg
<1>1. ASSUME NEW r \in Req, NEW d \in DeviceId,
             NEW active \in SUBSET Attr, NEW lazy \in BOOLEAN, RegisterDevice(r, d, active, lazy)
      PROVE  ExpiredInv'
  <2> DEFINE stage == IF lazy THEN "registering" ELSE "creating"
             m == IF lazy THEN Msg(r, "register", None, {}) ELSE Msg(r, "entity", None, active)
  <2>1. /\ MayStart(r, "register", d) /\ Begin(r, "register", d, None, r, stage)
        /\ registered' = registered /\ registrations' = registrations /\ answers' = answers
        /\ sent' = sent \cup {m}
    BY <1>1 DEF RegisterDevice, brokerVars
  <2>2. m.req = r /\ stage \in AwaitedAt(m.kind) /\ m.id = None
    BY <1>m
  <2>3. \A q \in Req : /\ q # r => heap'[q] = heap[q]
                       /\ heap'[r].registrationId = None
    BY <1>1, <1>t DEF RegisterDevice, NoDevice
  <2>4. call[r].dev = None /\ "register" \in Ops
    BY <2>1, <1>t DEF MayStart
  <2> HIDE DEF m
  <2>5. stage \in StagesOf("register") /\ stage \notin {"idle", "expiring", "remove"} /\ stage \notin HoldsNew
    BY DEF HoldsNew
  <2> QED
    BY <2>1, <2>2, <2>3, <2>4, <2>5, BeginKeeps
<1>2. ASSUME NEW r \in Req, NEW d \in DeviceId,
             NEW active \in SUBSET Attr, NEW lazy \in BOOLEAN, UpdateDevice(r, d, active, lazy)
      PROVE  ExpiredInv'
  <2>1. /\ MayStart(r, "updateRegister", d) /\ Begin(r, "updateRegister", d, None, r, "get")
        /\ registered' = registered /\ registrations' = registrations /\ answers' = answers
        /\ sent' = sent
    BY <1>2 DEF UpdateDevice, brokerVars
  <2>2. \A q \in Req : /\ q # r => heap'[q] = heap[q]
                       /\ heap'[r].registrationId = None
    BY <1>2, <1>t DEF UpdateDevice, NoDevice
  <2>3. call[r].dev = None /\ "updateRegister" \in Ops /\ "get" \in HoldsNew
    BY <2>1, <1>t DEF MayStart, HoldsNew
  <2> QED
    BY <2>1, <2>2, <2>3, BeginKeeps
<1>3. ASSUME NEW r \in Req, NEW d \in DeviceId, NEW active \in SUBSET Attr, NEW lazy \in BOOLEAN,
             NEW fields \in 1..2, PutDevice(r, d, active, lazy, fields)
      PROVE  ExpiredInv'
  <2> DEFINE o == registered[d]
  <2>1. /\ MayStart(r, "put", d)
        /\ registered' = registered /\ registrations' = registrations /\ answers' = answers
        /\ sent' = sent
    BY <1>3 DEF PutDevice, brokerVars
  <2>2. "put" \in Ops /\ "get" \in HoldsNew
    BY <2>1 DEF MayStart, HoldsNew
  <2>3. CASE o = None
    <3>1. Begin(r, "put", d, None, None, "error") /\ heap' = heap
      BY <1>3, <2>3 DEF PutDevice
    <3>2. "error" \notin HoldsNew
      BY DEF HoldsNew
    <3> QED
      BY <2>1, <2>2, <3>1, <3>2, BeginKeeps
  <2>4. CASE o # None
    <3> DEFINE stage == IF fields = 1 THEN "error" ELSE "get"
    <3>1. /\ Begin(r, "put", d, None, o, stage)
          /\ heap' = [heap EXCEPT ![o].active = active, ![o].lazy = lazy]
      BY <1>3, <2>4 DEF PutDevice
    <3>2. o \in Req /\ call[o].dev = d
      BY <1>t, <2>4 DEF ExpiredInv, OwnInv, Ref
    <3>3. \A q \in Req : /\ q # o => heap'[q] = heap[q]
                         /\ heap'[q].registrationId = heap[q].registrationId
      BY <1>t, <3>1 DEF Device
    <3>4. stage \in StagesOf("put") /\ stage \notin {"idle", "expiring", "remove"}
      BY <2>2
    <3> HIDE DEF stage
    <3> QED
      BY <2>1, <2>2, <3>1, <3>2, <3>3, <3>4, BeginKeeps
  <2> QED
    BY <2>3, <2>4
<1>4. ASSUME NEW r \in Req, NEW d \in DeviceId, UnregisterDevice(r, d)
      PROVE  ExpiredInv'
  <2> DEFINE stage == IF registered[d] = None THEN "lost" ELSE "unsubscribe"
  <2>1. /\ MayStart(r, "unregister", d) /\ Begin(r, "unregister", d, registered[d], None, stage)
        /\ registered' = registered /\ registrations' = registrations /\ answers' = answers
        /\ sent' = sent /\ heap' = heap
    BY <1>4 DEF UnregisterDevice, brokerVars
  <2>2. "unregister" \in Ops /\ stage \notin HoldsNew /\ stage \in StagesOf("unregister")
        /\ stage \notin {"idle", "expiring", "remove"}
    BY <2>1 DEF MayStart, HoldsNew
  <2> HIDE DEF stage
  <2> QED
    BY <2>1, <2>2, BeginKeeps
<1>5. ASSUME NEW r \in Req, NEW d \in DeviceId, Subscribe(r, d)
      PROVE  ExpiredInv'
  <2> DEFINE m == Msg(r, "subscribe", None, {})
  <2>1. /\ MayStart(r, "subscribe", d)
        /\ Begin(r, "subscribe", d, registered[d], None, "subscribing")
        /\ registered' = registered /\ registrations' = registrations /\ answers' = answers
        /\ sent' = sent \cup {m} /\ heap' = heap
    BY <1>5 DEF Subscribe, brokerVars
  <2>2. "subscribe" \in Ops /\ "subscribing" \notin HoldsNew
    BY <2>1 DEF MayStart, HoldsNew
  <2>3. m.req = r /\ "subscribing" \in AwaitedAt(m.kind) /\ m.kind # "register"
    BY <1>m
  <2> HIDE DEF m
  <2> QED
    BY <2>1, <2>2, <2>3, BeginKeeps
<1>6. ASSUME NEW r \in Req, NEW d \in DeviceId, Unsubscribe(r, d)
      PROVE  ExpiredInv'
  <2>1. PICK id :
        /\ Begin(r, "unsubscribe", d, registered[d], id, "unsubscribing")
        /\ sent' = sent \cup {Msg(r, "unsubscribe", id, {})}
    BY <1>6 DEF Unsubscribe
  <2> DEFINE m == Msg(r, "unsubscribe", id, {})
  <2>2. /\ MayStart(r, "unsubscribe", d)
        /\ registered' = registered /\ registrations' = registrations /\ answers' = answers
        /\ heap' = heap
    BY <1>6 DEF Unsubscribe, brokerVars
  <2>3. "unsubscribe" \in Ops /\ "unsubscribing" \notin HoldsNew
    BY <2>2 DEF MayStart, HoldsNew
  <2>4. m.req = r /\ "unsubscribing" \in AwaitedAt(m.kind) /\ m.kind # "register"
    BY <1>m DEF Stage
  <2>5. sent' = sent \cup {m}
    BY <2>1
  <2> HIDE DEF m
  <2> QED
    BY <2>1, <2>2, <2>3, <2>4, <2>5, BeginKeeps
<1>7. CASE ClearRegistry
  BY <1>7 DEF ClearRegistry, brokerVars, ExpiredInv, SerialInv, Began, AtItsStage, OneAwaited,
              OneAtATime, Busy, OwnInv, Of, ExpireInv
<1> QED
  BY <1>1, <1>2, <1>3, <1>4, <1>5, <1>6, <1>7 DEF Client

\* What the stage of a call says of its operation.
LEMMA OpAt ==
  ASSUME ExpiredInv, NEW r \in Req, call[r].at # "idle"
  PROVE  /\ call[r].at \in StagesOf(call[r].op)
         /\ call[r].dev \in DeviceId
         /\ call[r].at \in HoldsNew => HoldsNew \subseteq StagesOf(call[r].op)
         /\ call[r].at \in {"unsubscribe", "expire", "expiring", "remove"} =>
              call[r].op = "unregister"
<1>1. call[r].at \in StagesOf(call[r].op) /\ call[r].dev \in DeviceId
  BY DEF ExpiredInv, SerialInv, AtItsStage, Began
<1>2. call[r].at \in HoldsNew => HoldsNew \subseteq StagesOf(call[r].op)
  BY <1>1 DEF StagesOf, HoldsNew, Ended
<1>3. call[r].at \in {"unsubscribe", "expire", "expiring", "remove"} => call[r].op = "unregister"
  BY <1>1 DEF StagesOf, HoldsNew, Ended
<1> QED
  BY <1>1, <1>2, <1>3

LEMMA TaskKeeps ==
  ASSUME TypeInv, ExpiredInv, NEW r \in Req, Task(r)
  PROVE  ExpiredInv'
<1> USE Stages, Awaited
<1>t. /\ registered \in [DeviceId -> Ref] /\ heap \in [Req -> Device] /\ call \in [Req -> Call]
      /\ \A d \in DeviceId : registered[d] # None => registered[d] \in Req
  BY DEF TypeInv, TypeOK, Ref
<1>m. \A q, kind, id, attrs : /\ Msg(q, kind, id, attrs).req = q
                              /\ Msg(q, kind, id, attrs).kind = kind
                              /\ Msg(q, kind, id, attrs).id = id
  BY DEF Msg
<1>0. /\ call[r].at \in {"get", "difference", "update", "clone", "replace",
                         "unsubscribe", "expire", "remove"}
      /\ registrations' = registrations /\ answers' = answers
  BY DEF Task, GetOld, SendDifference, SendUpdate, OnNothingToUpdate, ReplaceDevice,
         SendUnsubscriptions, SendExpire, RemoveUnregistered, brokerVars
<1>1. /\ Busy(r)
      /\ \A m \in sent \cup answers' : m.req = r => ~Single(m)
  <2>1. Busy(r)
    BY <1>0 DEF Busy
  <2> QED
    BY <1>0, <2>1, NothingAwaited DEF ExpiredInv
<1>2. /\ call[r].at \in HoldsNew => HoldsNew \subseteq StagesOf(call[r].op)
      /\ call[r].at \in {"unsubscribe", "expire", "expiring", "remove"} => call[r].op = "unregister"
      /\ call[r].dev \in DeviceId
  BY <1>0, OpAt
<1>3. call[r].at \in HoldsOld => call[r].old \in Req
  BY DEF TypeInv, Holding
<1>4. ASSUME NEW stage \in Stage, call' = Move(r, stage)
      PROVE  /\ call'[r].op = call[r].op /\ call'[r].dev = call[r].dev
             /\ call'[r].new = call[r].new /\ call'[r].old = call[r].old /\ call'[r].at = stage
             /\ \A q \in Req : q # r => call'[q] = call[q]
  BY <1>t, <1>4, MoveEffect DEF Move
<1> USE DEF HoldsNew
<1>5. CASE GetOld(r)
  <2> DEFINE stage == IF registered[call[r].dev] = None THEN "error" ELSE "difference"
  <2>1. /\ \A q \in Req : q # r => call'[q] = call[q]
        /\ call'[r].op = call[r].op /\ call'[r].dev = call[r].dev /\ call'[r].new = call[r].new
        /\ call'[r].old = registered[call[r].dev] /\ call'[r].at = stage
    BY <1>t, <1>5 DEF GetOld, Call
  <2>2. sent' = sent /\ heap' = heap /\ registered' = registered
    BY <1>5 DEF GetOld
  <2>3. stage \in Stage /\ stage \in StagesOf(call[r].op) /\ stage \notin {"idle", "expiring", "remove"}
    BY <1>0, <1>2, <1>5 DEF GetOld
  <2>4. stage \in HoldsNew => call[r].at \in HoldsNew
    BY <1>5 DEF GetOld
  <2>5. call[r].at \notin Ended
    BY <1>0
  <2> HIDE DEF stage
  <2> QED
    BY <1>t, <1>0, <1>1, <2>1, <2>2, <2>3, <2>4, <2>5, MoveKeeps
<1>6. CASE SendDifference(r)
  <2>1. PICK attrs : sent' = sent \cup {Msg(r, "entity", None, attrs)}
    BY <1>6 DEF SendDifference
  <2> DEFINE m == Msg(r, "entity", None, attrs)
  <2>2. /\ call[r].at = "difference" /\ call' = Move(r, "combining")
        /\ heap' = heap /\ registered' = registered
    BY <1>6 DEF SendDifference
  <2>3. sent' = sent \cup {m} /\ m.req = r /\ "combining" \in AwaitedAt(m.kind) /\ m.kind = "entity"
    BY <1>m, <2>1
  <2>4. "combining" \in Stage \ {"idle"} /\ "combining" \in StagesOf(call[r].op)
    BY <1>2, <2>2
  <2> HIDE DEF m
  <2> QED
    BY <1>t, <1>0, <1>1, <1>4, <2>2, <2>3, <2>4, MoveKeeps
<1>7. CASE SendUpdate(r)
  <2>1. heap' = heap /\ registered' = registered /\ call[r].at = "update"
    BY <1>7 DEF SendUpdate
  <2>2. CASE heap[call[r].old].lazy
    <3> DEFINE m == Msg(r, "register", heap[call[r].old].registrationId, {})
    <3>1. sent' = sent \cup {m} /\ call' = Move(r, "updating")
      BY <1>7, <2>2 DEF SendUpdate, KnownRegistration
    <3>2. m.req = r /\ m.kind = "register" /\ m.id = heap[call[r].old].registrationId
      BY <1>m
    <3>3. call[r].old \in Req /\ call[r].old # None
      BY <1>3, <2>1, ConstantsAssumption DEF HoldsOld
    <3>4. Of(m.id, r)
      BY <3>2, <3>3 DEF ExpiredInv, OwnInv, Of
    <3>5. "updating" \in Stage \ {"idle"} /\ "updating" \in StagesOf(call[r].op)
      BY <1>2, <2>1
    <3> HIDE DEF m
    <3> QED
      BY <1>t, <1>0, <1>1, <1>4, <2>1, <3>1, <3>2, <3>4, <3>5, MoveKeeps
  <2>3. CASE ~heap[call[r].old].lazy
    <3>1. sent' = sent /\ call' = Move(r, "clone")
      BY <1>7, <2>3 DEF SendUpdate
    <3>2. "clone" \in Stage \ {"idle"} /\ "clone" \in StagesOf(call[r].op)
      BY <1>2, <2>1
    <3> QED
      BY <1>t, <1>0, <1>1, <1>4, <2>1, <3>1, <3>2, MoveKeeps
  <2> QED
    BY <2>2, <2>3
<1>8. CASE OnNothingToUpdate(r)
  <2>1. /\ call[r].at = "clone" /\ call' = Move(r, "replace")
        /\ sent' = sent /\ registered' = registered
        /\ CloneWith(r, heap[call[r].old].registrationId)
    BY <1>8 DEF OnNothingToUpdate
  <2>2. /\ \A q \in Req : q # r => heap'[q] = heap[q]
        /\ heap'[r].registrationId = heap[call[r].old].registrationId
    <3>1. heap[call[r].new] \in Device
      BY <1>t, <2>1 DEF TypeInv, Holding
    <3> QED
      BY <1>t, <2>1, <3>1 DEF CloneWith, Device
  <2>3. call[r].old \in Req /\ call[r].old # None
    BY <1>3, <2>1, ConstantsAssumption DEF HoldsOld
  <2>4. Of(heap'[r].registrationId, r)
    BY <2>2, <2>3 DEF ExpiredInv, OwnInv, Of
  <2>5. "replace" \in Stage \ {"idle"} /\ "replace" \in StagesOf(call[r].op)
    BY <1>2, <2>1
  <2> QED
    BY <1>t, <1>0, <1>1, <1>4, <2>1, <2>2, <2>4, <2>5, MoveKeeps
<1>9. CASE ReplaceDevice(r)
  <2>1. /\ call[r].at = "replace" /\ call' = Move(r, "ok")
        /\ sent' = sent /\ heap' = heap
        /\ registered' = [registered EXCEPT ![call[r].dev] = r]
    BY <1>9 DEF ReplaceDevice
  <2>2. Of(r, r)
    BY <1>2, ConstantsAssumption DEF Of
  <2>3. registered' \in [DeviceId -> Ref]
    BY <1>t, <2>1 DEF Ref
  <2>4. "ok" \in Stage \ {"idle"} /\ "ok" \in StagesOf(call[r].op)
    OBVIOUS
  <2>5. \A d \in DeviceId : d # call[r].dev => registered'[d] = registered[d]
    BY <1>t, <2>1
  <2>6. registered'[call[r].dev] = r
    BY <1>t, <1>2, <2>1
  <2> QED
    BY <1>t, <1>0, <1>1, <1>4, <2>1, <2>2, <2>3, <2>4, <2>5, <2>6, MoveKeeps
<1>10. CASE SendUnsubscriptions(r)
  <2> DEFINE list == ListOf(call[r].old)
             stage == IF list = <<>> THEN "expire" ELSE "unsubscribing"
  <2>1. /\ call[r].at = "unsubscribe" /\ call' = Move(r, stage)
        /\ heap' = heap /\ registered' = registered
        /\ sent' = sent \cup {Msg(r, "unsubscribe", list[i], {}) : i \in DOMAIN list}
    BY <1>10 DEF SendUnsubscriptions
  <2>2. \A m \in sent' : m \in sent \/ (m.req = r /\ m.kind = "unsubscribe")
    BY <1>m, <2>1
  <2>3. stage \in Stage \ {"idle"} /\ stage \in StagesOf(call[r].op)
        /\ stage \notin {"expiring", "remove"} /\ stage \notin HoldsNew
    BY <1>2, <2>1
  <2> HIDE DEF list, stage
  <2> QED
    BY <1>t, <1>0, <1>1, <1>4, <2>1, <2>2, <2>3, MoveKeeps
<1>11. CASE SendExpire(r)
  <2>1. heap' = heap /\ registered' = registered /\ call[r].at = "expire" /\ call[r].old \in Req
    BY <1>3, <1>11 DEF SendExpire, HoldsOld
  <2>2. CASE heap[call[r].old].lazy
    <3> DEFINE m == Msg(r, "expire", heap[call[r].old].registrationId, {})
    <3>1. sent' = sent \cup {m} /\ call' = Move(r, "expiring")
      BY <1>11, <2>2 DEF SendExpire, KnownRegistration
    <3>2. m.req = r /\ m.kind = "expire" /\ m.id = heap[call[r].old].registrationId
      BY <1>m
    <3>3. "expiring" \in Stage \ {"idle"} /\ "expiring" \in StagesOf(call[r].op)
      BY <1>2, <2>1
    <3> HIDE DEF m
    <3> QED
      BY <1>t, <1>0, <1>1, <1>4, <2>1, <3>1, <3>2, <3>3, MoveKeeps
  <2>3. CASE ~heap[call[r].old].lazy
    <3>1. sent' = sent /\ call' = Move(r, "remove")
      BY <1>11, <2>3 DEF SendExpire
    <3>2. "remove" \in Stage \ {"idle"} /\ "remove" \in StagesOf(call[r].op)
      BY <1>2, <2>1
    <3> QED
      BY <1>t, <1>0, <1>1, <1>4, <2>1, <2>3, <3>1, <3>2, MoveKeeps
  <2> QED
    BY <2>2, <2>3
<1>12. CASE RemoveUnregistered(r)
  <2>1. /\ call[r].at = "remove" /\ call' = Move(r, "ok")
        /\ sent' = sent /\ heap' = heap
        /\ registered' = [registered EXCEPT ![call[r].dev] = None]
    BY <1>12 DEF RemoveUnregistered, Remove
  <2>2. registered' \in [DeviceId -> Ref]
    BY <1>t, <2>1 DEF Ref
  <2>3. "ok" \in Stage \ {"idle"} /\ "ok" \in StagesOf(call[r].op)
    OBVIOUS
  <2>4. \A d \in DeviceId : registered'[d] \in {registered[d], None}
    BY <1>t, <2>1
  <2> QED
    BY <1>t, <1>0, <1>1, <1>4, <2>1, <2>2, <2>3, <2>4, MoveKeeps
<1> QED
  BY <1>5, <1>6, <1>7, <1>8, <1>9, <1>10, <1>11, <1>12 DEF Task

LEMMA CallbackKeeps ==
  ASSUME TypeInv, ExpiredInv, NEW r \in Req, NEW a \in answers, Callback(r, a)
  PROVE  ExpiredInv'
<1> USE Stages, Awaited
<1>t. /\ registered \in [DeviceId -> Ref] /\ heap \in [Req -> Device] /\ call \in [Req -> Call]
      /\ a.kind \in MsgKind /\ a.id \in Req
  BY DEF TypeInv, TypeOK, Answer
<1>m. \A q, kind, id, attrs : /\ Msg(q, kind, id, attrs).req = q
                              /\ Msg(q, kind, id, attrs).kind = kind
  BY DEF Msg
<1>0. /\ a.req = r /\ answers' = answers \ {a} /\ registrations' = registrations
      /\ call[r].at \in AwaitedAt(a.kind) /\ call[r].at # "idle"
  <2>1. a.req = r /\ answers' = answers \ {a} /\ registrations' = registrations
    BY DEF Callback, OnRegistered, StoreDevice, OnRefused, Combine, OnUpdated, OnExpired,
           OnSubscribed, OnUnsubscribed, brokerVars
  <2>2. call[r].at \in AwaitedAt(a.kind)
    BY <2>1 DEF ExpiredInv, SerialInv, AtItsStage
  <2> QED
    BY <1>t, <2>1, <2>2, AwaitingStages
<1>1. a.kind # "unsubscribe" =>
        /\ Busy(r)
        /\ \A m \in sent \cup answers' : m.req = r => ~Single(m)
  <2>1. a.kind # "unsubscribe" => Busy(r)
    BY <1>t, <1>0, AwaitingStages DEF Busy
  <2>2. a.kind # "unsubscribe" => \A m \in sent \cup answers' : m.req = r => ~Single(m)
    BY <1>0 DEF ExpiredInv, SerialInv, OneAwaited, Single
  <2> QED
    BY <2>1, <2>2
<1>2. /\ call[r].at \in HoldsNew => HoldsNew \subseteq StagesOf(call[r].op)
      /\ call[r].at \in StagesOf(call[r].op)
      /\ call[r].dev \in DeviceId
  BY <1>0, OpAt
<1>3. call[r].at \in HoldsOld => call[r].old \in Req
  BY DEF TypeInv, Holding
<1>4. ASSUME NEW stage \in Stage, call' = Move(r, stage)
      PROVE  /\ call'[r].op = call[r].op /\ call'[r].dev = call[r].dev
             /\ call'[r].new = call[r].new /\ call'[r].old = call[r].old /\ call'[r].at = stage
             /\ \A q \in Req : q # r => call'[q] = call[q]
  BY <1>t, <1>4, MoveEffect DEF Move
<1> USE DEF HoldsNew
<1>5. CASE OnRegistered(r, a)
  <2> DEFINE m == Msg(r, "entity", None, heap[r].active)
  <2>1. /\ a.kind = "register" /\ call[r].at = "registering" /\ call' = Move(r, "creating")
        /\ sent' = sent \cup {m} /\ registered' = registered
        /\ heap' = [heap EXCEPT ![r].registrationId = a.id]
    BY <1>5 DEF OnRegistered
  <2>2. "creating" \in Stage \ {"idle"} /\ "creating" \in StagesOf(call[r].op)
    BY <1>2, <2>1 DEF StagesOf, Ended
  <2>3. m.req = r /\ m.kind = "entity"
    BY <1>m
  <2>4. /\ \A q \in Req : q # r => heap'[q] = heap[q]
        /\ heap'[r].registrationId = a.id
    BY <1>t, <2>1 DEF Device
  <2>5. Of(a.id, r)
    BY <1>0, <2>1 DEF ExpiredInv, OwnInv
  <2> HIDE DEF m
  <2> QED
    BY <1>t, <1>0, <1>1, <1>4, <2>1, <2>2, <2>3, <2>4, <2>5, MoveKeeps
<1>6. CASE StoreDevice(r, a)
  <2> DEFINE stage == IF Storable(call[r].dev) THEN "ok" ELSE "error"
  <2>1. /\ a.kind = "entity" /\ call' = Move(r, stage) /\ sent' = sent /\ heap' = heap
        /\ registered' \in {registered, [registered EXCEPT ![call[r].dev] = r]}
    BY <1>6 DEF StoreDevice
  <2>2. Of(r, r)
    BY <1>2, ConstantsAssumption DEF Of
  <2>3. registered' \in [DeviceId -> Ref]
    BY <1>t, <2>1 DEF Ref
  <2>4. stage \in Stage \ {"idle"} /\ stage \in StagesOf(call[r].op)
        /\ stage \in Ended /\ stage \notin HoldsNew
    OBVIOUS
  <2>5. \A d \in DeviceId : registered'[d] = registered[d] \/ (d = call[r].dev /\ registered'[d] = r)
    BY <1>t, <2>1
  <2> HIDE DEF stage
  <2> QED
    BY <1>t, <1>0, <1>1, <1>4, <2>1, <2>2, <2>3, <2>4, <2>5, MoveKeeps
<1>7. CASE OnRefused(r, a)
  <2>1. /\ a.kind # "unsubscribe" /\ call' = Move(r, "error") /\ sent' = sent /\ heap' = heap
        /\ registered' = registered
    BY <1>7 DEF OnRefused
  <2>2. "error" \in Stage \ {"idle"} /\ "error" \in StagesOf(call[r].op)
    OBVIOUS
  <2> QED
    BY <1>t, <1>0, <1>1, <1>4, <2>1, <2>2, MoveKeeps
<1>8. CASE Combine(r, a)
  <2> DEFINE o == call[r].old
  <2>1. /\ a.kind = "entity" /\ call[r].at = "combining" /\ call' = Move(r, "update")
        /\ sent' = sent /\ registered' = registered
        /\ heap' = [heap EXCEPT ![o].active = heap[call[r].new].active,
                                ![o].lazy = heap[call[r].new].lazy]
    BY <1>8 DEF Combine
  <2>2. "update" \in Stage \ {"idle"} /\ "update" \in StagesOf(call[r].op)
    BY <1>2, <2>1
  <2>3. \A q \in Req : /\ q # o => heap'[q] = heap[q]
                       /\ heap'[q].registrationId = heap[q].registrationId
    BY <1>t, <2>1 DEF Device
  <2>4. o \in Req /\ o # None
    BY <1>3, <2>1, ConstantsAssumption DEF HoldsOld
  <2>5. call[o].dev = call[r].dev
    BY <2>4 DEF ExpiredInv, OwnInv, Of
  <2> HIDE DEF o
  <2>6. call'[r].old = call[r].old
    BY <1>4, <2>1, <2>2
  <2> QED
    BY <1>t, <1>0, <1>1, <1>4, <2>1, <2>2, <2>3, <2>5, <2>6, MoveKeeps
<1>9. CASE OnUpdated(r, a)
  <2>1. /\ a.kind = "register" /\ call[r].at = "updating" /\ call' = Move(r, "replace")
        /\ sent' = sent /\ registered' = registered
        /\ CloneWith(r, a.id)
    BY <1>9 DEF OnUpdated
  <2>2. "replace" \in Stage \ {"idle"} /\ "replace" \in StagesOf(call[r].op)
    BY <1>2, <2>1
  <2>3. /\ \A q \in Req : q # r => heap'[q] = heap[q]
        /\ heap'[r].registrationId = a.id
    <3>1. heap[call[r].new] \in Device
      BY <1>t, <2>1 DEF TypeInv, Holding
    <3> QED
      BY <1>t, <2>1, <3>1 DEF CloneWith, Device
  <2>4. Of(a.id, r)
    BY <1>0, <2>1 DEF ExpiredInv, OwnInv
  <2> QED
    BY <1>t, <1>0, <1>1, <1>4, <2>1, <2>2, <2>3, <2>4, MoveKeeps
<1>10. CASE OnExpired(r, a)
  <2>1. /\ a.kind = "expire" /\ call' = Move(r, "ok") /\ sent' = sent /\ heap' = heap
        /\ registered' = [registered EXCEPT ![call[r].dev] = None]
    BY <1>10 DEF OnExpired, Remove
  <2>2. registered' \in [DeviceId -> Ref]
    BY <1>t, <2>1 DEF Ref
  <2>3. "ok" \in Stage \ {"idle"} /\ "ok" \in StagesOf(call[r].op)
    OBVIOUS
  <2>4. \A d \in DeviceId : registered'[d] \in {registered[d], None}
    BY <1>t, <2>1
  <2> QED
    BY <1>t, <1>0, <1>1, <1>4, <2>1, <2>2, <2>3, <2>4, MoveKeeps
<1>11. CASE OnSubscribed(r, a)
  <2> DEFINE stage == IF PassedOn(a.result) THEN "ok" ELSE "error"
             o == call[r].old
  <2>1. /\ a.kind = "subscribe" /\ call' = Move(r, stage) /\ sent' = sent
        /\ registered' \in {registered, [registered EXCEPT ![call[r].dev] = o]}
    BY <1>11 DEF OnSubscribed
  <2>2. \A q \in Req : /\ heap'[q].registrationId = heap[q].registrationId
                       /\ heap'[q].lazy = heap[q].lazy
    BY <1>t, <1>11 DEF OnSubscribed, Device
  <2>3. Of(o, r) /\ o \in Ref
    BY <1>t DEF ExpiredInv, OwnInv, Call
  <2>4. registered' \in [DeviceId -> Ref]
    BY <1>t, <2>1, <2>3
  <2>5. stage \in Stage \ {"idle"} /\ stage \in StagesOf(call[r].op)
        /\ stage \in Ended /\ stage \notin HoldsNew
    OBVIOUS
  <2>6. \A d \in DeviceId : registered'[d] = registered[d] \/ (d = call[r].dev /\ registered'[d] = o)
    BY <1>t, <2>1
  <2> HIDE DEF stage, o
  <2> QED
    BY <1>t, <1>0, <1>1, <1>4, <2>1, <2>2, <2>3, <2>4, <2>5, <2>6, MoveKeeps
<1>12. CASE OnUnsubscribed(r, a)
  <2> DEFINE stage == AfterUnsubscription(r, a)
             o == call[r].old
  <2>1. /\ call' = Move(r, stage) /\ sent' = sent /\ heap' = heap
        /\ registered' \in {registered, [registered EXCEPT ![call[r].dev] = o]}
    BY <1>12 DEF OnUnsubscribed
  <2>3. Of(o, r) /\ o \in Ref
    BY <1>t DEF ExpiredInv, OwnInv, Call
  <2>4. registered' \in [DeviceId -> Ref]
    BY <1>t, <2>1, <2>3
  <2>6. \A d \in DeviceId : registered'[d] = registered[d] \/ (d = call[r].dev /\ registered'[d] = o)
    BY <1>t, <2>1
  <2>7. CASE call[r].at # "unsubscribing"
    <3>1. stage = call[r].at
      BY <2>7 DEF AfterUnsubscription
    <3>2. stage \in Stage \ {"idle"} /\ stage \in StagesOf(call[r].op)
      BY <1>t, <1>0, <1>2, <3>1 DEF Call
    <3>3. stage = "expiring" => call[r].old \in Req
      BY <1>3, <3>1 DEF HoldsOld
    <3>4. stage = "remove" => call[r].at = "remove"
      BY <3>1
    <3>5. answers' \subseteq answers
      BY <1>0
    <3> HIDE DEF stage, o
    <3>6. /\ call'[r].op = call[r].op /\ call'[r].dev = call[r].dev
          /\ call'[r].new = call[r].new /\ call'[r].old = call[r].old /\ call'[r].at = stage
          /\ \A q \in Req : q # r => call'[q] = call[q]
      BY <1>4, <2>1, <3>2
    <3> QED
      BY <1>0, <2>1, <2>3, <2>4, <2>6, <3>1, <3>2, <3>3, <3>4, <3>5, <3>6, MoveKeeps
  <2>8. CASE call[r].at = "unsubscribing"
    <3>1. call[r].op \in {"unregister", "unsubscribe"}
      BY <1>2, <2>8 DEF StagesOf, Ended
    <3>2. stage \in Stage \ {"idle"} /\ stage \in StagesOf(call[r].op)
          /\ stage \notin {"expiring", "remove"} /\ stage \notin HoldsNew
      BY <2>8, <3>1 DEF AfterUnsubscription
    <3>3. \A m \in sent \cup answers' : m.req = r => ~Single(m)
      BY <1>0, <2>8, NothingAwaited DEF ExpiredInv
    <3>5. answers' \subseteq answers /\ call[r].at \notin Ended
      BY <1>0, <2>8
    <3> HIDE DEF stage, o
    <3>6. /\ call'[r].op = call[r].op /\ call'[r].dev = call[r].dev
          /\ call'[r].new = call[r].new /\ call'[r].old = call[r].old /\ call'[r].at = stage
          /\ \A q \in Req : q # r => call'[q] = call[q]
      BY <1>4, <2>1, <3>2
    <3> QED
      BY <1>0, <2>1, <2>3, <2>4, <2>6, <3>2, <3>3, <3>5, <3>6, MoveKeeps
  <2> QED
    BY <2>7, <2>8
<1> QED
  BY <1>5, <1>6, <1>7, <1>8, <1>9, <1>10, <1>11, <1>12 DEF Callback

LEMMA NextKeeps ==
  ASSUME TypeInv, ExpiredInv, ~Overlap, [Next]_vars
  PROVE  ExpiredInv'
<1>1. CASE Client
  BY <1>1, ClientKeeps
<1>2. CASE Agent
  BY <1>2, TaskKeeps, CallbackKeeps DEF Agent
<1>3. CASE Broker
  BY <1>3, BrokerExpires
<1>4. CASE UNCHANGED vars
  BY <1>4 DEF vars, ExpiredInv, SerialInv, Began, AtItsStage, OneAwaited, OneAtATime, Busy,
              OwnInv, Of, ExpireInv
<1> QED
  BY <1>1, <1>2, <1>3, <1>4 DEF Next

LEMMA InitExpired == Init => ExpiredInv
<1> SUFFICES ASSUME Init PROVE ExpiredInv
  OBVIOUS
<1>1. SerialInv
  BY DEF Init, SerialInv, Began, AtItsStage, OneAwaited, OneAtATime, Busy, NoCall
<1>2. OwnInv
  BY DEF Init, OwnInv, Of, NoCall, NoDevice, HoldsNew
<1>3. ExpireInv
  BY DEF Init, ExpireInv, NoCall
<1> QED
  BY <1>1, <1>2, <1>3 DEF ExpiredInv

\* The step that ends an unregistering call well is the one that takes the
\* broker's word, or the one for a device that had nothing registered.
LEMMA RemovedExpired ==
  ASSUME TypeInv, ExpiredInv, [Next]_vars, NEW r \in Req,
         call[r].op = "unregister", call[r].at # "ok", call'[r].at = "ok",
         heap[call[r].old].lazy
  PROVE  heap[call[r].old].registrationId \notin registrations'
<1> USE Stages, Awaited
<1>t. /\ call \in [Req -> Call]
      /\ "unregister" \notin {"register", "put", "updateRegister", "subscribe", "unsubscribe"}
  BY DEF TypeInv, TypeOK
<1>1. CASE Client
  <2>1. ASSUME NEW q \in Req, NEW op, NEW d, NEW old, NEW new, NEW stage,
               Begin(q, op, d, old, new, stage), stage # "ok"
        PROVE  FALSE
    BY <1>t, <2>1 DEF Begin
  <2>2. ASSUME NEW q \in Req, NEW d \in DeviceId, NEW active \in SUBSET Attr, NEW lazy \in BOOLEAN,
               RegisterDevice(q, d, active, lazy) \/ UpdateDevice(q, d, active, lazy)
        PROVE  FALSE
    BY <2>1, <2>2 DEF RegisterDevice, UpdateDevice
  <2>3. ASSUME NEW q \in Req, NEW d \in DeviceId, NEW active \in SUBSET Attr, NEW lazy \in BOOLEAN,
               NEW fields \in 1..2, PutDevice(q, d, active, lazy, fields)
        PROVE  FALSE
    BY <2>1, <2>3 DEF PutDevice
  <2>4. ASSUME NEW q \in Req, NEW d \in DeviceId,
               UnregisterDevice(q, d) \/ Subscribe(q, d) \/ Unsubscribe(q, d)
        PROVE  FALSE
    BY <2>1, <2>4 DEF UnregisterDevice, Subscribe, Unsubscribe
  <2>5. ~ClearRegistry
    BY DEF ClearRegistry
  <2> QED
    BY <1>1, <2>2, <2>3, <2>4, <2>5 DEF Client
<1>2. CASE Agent
  <2>0. PICK q \in Req : Task(q) \/ \E a \in answers : Callback(q, a)
    BY <1>2 DEF Agent
  <2>1. q = r
    <3>1. ASSUME NEW stage, call' = Move(q, stage)
          PROVE  q = r
      BY <1>t, <3>1 DEF Move
    <3>2. CASE Task(q)
      <4>1. CASE GetOld(q)
        BY <1>t, <4>1 DEF GetOld
      <4>2. CASE SendDifference(q) \/ OnNothingToUpdate(q) \/ ReplaceDevice(q) \/ RemoveUnregistered(q)
        BY <3>1, <4>2 DEF SendDifference, OnNothingToUpdate, ReplaceDevice, RemoveUnregistered
      <4>3. CASE SendUpdate(q) \/ SendExpire(q)
        BY <3>1, <4>3 DEF SendUpdate, SendExpire
      <4>4. CASE SendUnsubscriptions(q)
        BY <3>1, <4>4 DEF SendUnsubscriptions
      <4> QED
        BY <3>2, <4>1, <4>2, <4>3, <4>4 DEF Task
    <3>3. ASSUME NEW a \in answers, Callback(q, a)
          PROVE  q = r
      <4>1. CASE \/ OnRegistered(q, a) \/ OnRefused(q, a) \/ Combine(q, a)
                 \/ OnUpdated(q, a) \/ OnExpired(q, a)
        BY <3>1, <4>1 DEF OnRegistered, OnRefused, Combine, OnUpdated, OnExpired
      <4>2. CASE StoreDevice(q, a)
        BY <3>1, <4>2 DEF StoreDevice
      <4>3. CASE OnSubscribed(q, a) \/ OnUnsubscribed(q, a)
        BY <3>1, <4>3 DEF OnSubscribed, OnUnsubscribed
      <4> QED
        BY <3>3, <4>1, <4>2, <4>3 DEF Callback
    <3> QED
      BY <2>0, <3>2, <3>3
  <2>2. /\ call[r].at # "idle" => call[r].at \in StagesOf("unregister")
        /\ \A a \in answers : a.req = r => call[r].at \in AwaitedAt(a.kind)
    BY DEF ExpiredInv, SerialInv, AtItsStage
  <2>3. \A stage : call' = Move(r, stage) => stage = "ok"
    BY <1>t DEF Move, Call
  <2>4. CASE Task(r)
    <3>1. CASE RemoveUnregistered(r)
      BY <3>1 DEF RemoveUnregistered, ExpiredInv, ExpireInv
    <3>2. CASE ReplaceDevice(r)
      BY <2>2, <3>2 DEF ReplaceDevice
    <3>3. CASE GetOld(r)
      BY <2>2, <3>3 DEF GetOld
    <3> QED
      BY <2>3, <2>4, <3>1, <3>2, <3>3 DEF Task, SendDifference, SendUpdate, OnNothingToUpdate,
         SendUnsubscriptions, SendExpire
  <2>5. ASSUME NEW a \in answers, Callback(r, a)
        PROVE  heap[call[r].old].registrationId \notin registrations'
    <3>1. CASE OnExpired(r, a)
      BY <3>1 DEF OnExpired, Succeeded, ExpiredInv, ExpireInv, brokerVars
    <3>2. CASE StoreDevice(r, a)
      BY <2>2, <3>2 DEF StoreDevice
    <3>3. CASE OnSubscribed(r, a)
      BY <2>2, <3>3 DEF OnSubscribed
    <3>4. CASE OnUnsubscribed(r, a)
      BY <2>3, <3>4 DEF OnUnsubscribed, AfterUnsubscription
    <3> QED
      BY <2>3, <2>5, <3>1, <3>2, <3>3, <3>4 DEF Callback, OnRegistered, OnRefused, Combine, OnUpdated
  <2> QED
    BY <2>0, <2>1, <2>4, <2>5
<1>3. CASE Broker
  BY <1>3 DEF Broker, BrokerAccepts, BrokerFails, BrokerAnswers, agentVars
<1>4. CASE UNCHANGED vars
  BY <1>4 DEF vars
<1> QED
  BY <1>1, <1>2, <1>3, <1>4 DEF Next

\* Among clients that wait for the last answer about a device before they call
\* about it again, unregisterDevice takes a device out of the registry only
\* once the Context Broker has let go of the registration the registry knew,
\* whatever failed or lost its answer: every request a call awaits is its only
\* one, and objects and registrations stay with their device.
THEOREM RemovedAfterExpiry ==
  ASSUME ~Overlap
  PROVE  Spec => RemovedOnlyWhenExpired
<1>1. Init => TypeInv /\ ExpiredInv
  BY InitType, InitExpired
<1>2. TypeInv /\ ExpiredInv /\ [Next]_vars => (TypeInv /\ ExpiredInv)'
  BY NextType, NextKeeps
<1>3. TypeInv /\ ExpiredInv /\ [Next]_vars
      => [\A r \in Req :
            /\ call[r].op = "unregister" /\ call[r].at # "ok" /\ call'[r].at = "ok"
            /\ heap[call[r].old].lazy
            => heap[call[r].old].registrationId \notin registrations']_vars
  BY RemovedExpired
<1> QED
  BY <1>1, <1>2, <1>3, PTL DEF Spec, RemovedOnlyWhenExpired
----------------------------------------------------------------------------
\* Why the registry and the Context Broker agree: while clients wait for each
\* answer, no PUT takes the lazy attributes away, nothing has failed, and only
\* the operations of the provisioning API and subscribe are called.

Provisioned == ~Overlap /\ ~MayClearLazy /\ Ops \subseteq {"register", "unregister", "put", "subscribe"}

\* The live registrations of a device but those left by a refused register.
Kept(d) == LiveRegistrations(d) \ LeftByRefusedRegister(d)

Matches(d) == Kept(d) = KnownRegistrations(d) /\ LiveSubscriptions(d) = KnownSubscriptions(d)

\* The object stored for a device, its registration and its list were made by
\* calls that ended well; what is registered is lazy, so it will be expired.
StoredInv(d) ==
  LET o == registered[d] IN
  o # None =>
    /\ call[o].at = "ok"
    /\ heap[o].registrationId # None => heap[o].lazy /\ call[heap[o].registrationId].at = "ok"
    /\ heap[o].subscriptions # None => /\ call[heap[o].subscriptions].dev = d
                                       /\ call[heap[o].subscriptions].at = "ok"

\* The objects of a busy call: the one that is stored, or one of its own.
ObjectsInv(r) ==
  LET o == registered[call[r].dev] IN
  /\ call[r].at \in HoldsNew => call[r].new = o
  /\ call[r].at \in HoldsOld \cup {"subscribing", "remove"} => call[r].old = o /\ o # None
  /\ call[r].at \in {"registering", "creating"} => heap[r].subscriptions = None
  /\ call[r].at = "registering" => heap[r].lazy /\ heap[r].registrationId = None
  /\ call[r].at = "creating" =>
       heap[r].registrationId = None \/ (heap[r].registrationId = r /\ heap[r].lazy)
  /\ call[r].at = "updating" => heap[o].lazy
  /\ call[r].at = "clone" => ~heap[o].lazy
  /\ call[r].at = "replace" =>
       /\ heap[r].subscriptions = heap[o].subscriptions
       /\ heap[r].registrationId # None =>
            /\ heap[r].lazy
            /\ heap[r].registrationId # r => call[heap[r].registrationId].at = "ok"

AnsweredIds(r, kind) == {a.id : a \in {b \in answers : b.req = r /\ b.kind = kind}}

\* The live registrations of the device of a busy call.
BusyRegistrations(r) ==
  CASE call[r].at = "replace"  -> {heap[r].registrationId} \ {None}
    [] call[r].at = "creating" ->
         KnownRegistrations(call[r].dev) \cup ({heap[r].registrationId} \ {None})
    [] call[r].at = "expiring" -> KnownRegistrations(call[r].dev) \ AnsweredIds(r, "expire")
    [] OTHER                   -> KnownRegistrations(call[r].dev) \cup AnsweredIds(r, "register")

\* Its live subscriptions: unregisterDevice has asked to end all that are left.
SubscriptionsInv(r) ==
  LET live == LiveSubscriptions(call[r].dev) IN
  CASE call[r].at \in {"expire", "expiring", "remove"} -> live = {}
    [] call[r].at = "unsubscribing" ->
         \A i \in live : \E m \in sent : m.req = r /\ m.kind = "unsubscribe" /\ m.id = i
    [] OTHER -> live = KnownSubscriptions(call[r].dev) \cup AnsweredIds(r, "subscribe")

BusyInv(r) ==
  ObjectsInv(r) /\ Kept(call[r].dev) = BusyRegistrations(r) /\ SubscriptionsInv(r)

\* The registration a request names.
Named(m) ==
  IF m.kind = "expire" \/ call[m.req].at = "updating"
    THEN heap[call[m.req].old].registrationId ELSE None

\* Nothing comes back that nobody waits for, requests are about the device, and
\* answers say what was asked.
RequestsInv(d) ==
  /\ \A m \in sent \cup answers :
       call[m.req].dev = d /\ m.kind = "unsubscribe" => call[m.req].at = "unsubscribing"
  /\ \A m \in sent :
       call[m.req].dev = d /\ m.kind = "unsubscribe" => m.id \in Req /\ call[m.id].dev = d
  /\ \A m \in sent :
       call[m.req].dev = d /\ m.kind \in {"register", "expire", "subscribe"} => m.id = Named(m)
  /\ \A a \in answers : call[a.req].dev = d =>
       /\ a.result = "ok"
       /\ a.kind \in {"register", "expire", "subscribe"} =>
            a.id = IF Named(a) = None THEN a.req ELSE Named(a)

DeviceInv(d) ==
  /\ StoredInv(d) /\ RequestsInv(d)
  /\ Quiet(d) => Matches(d)
  /\ \A r \in Req : call[r].dev = d /\ Busy(r) => BusyInv(r)

\* Nothing is there under the name of a call before the call makes it.
FreshInv ==
  \A r \in Req : /\ call[r].at \notin Ended => lists[r] = <<>>
                 /\ call[r].at = "idle" => r \notin registrations \cup subscriptions

MatchInv == failures = 0 => FreshInv /\ \A d \in DeviceId : DeviceInv(d)

----------------------------------------------------------------------------
\* What the registry names and what is live, of a device nothing happens to.

LEMMA SameKnown ==
  ASSUME NEW d \in DeviceId, registered'[d] = registered[d],
         registered[d] # None =>
           heap'[registered[d]].registrationId = heap[registered[d]].registrationId
  PROVE  KnownRegistrations(d)' = KnownRegistrations(d)
BY DEF KnownRegistrations

LEMMA SameListed ==
  ASSUME NEW d \in DeviceId, registered'[d] = registered[d],
         registered[d] # None =>
           /\ heap'[registered[d]].subscriptions = heap[registered[d]].subscriptions
           /\ heap[registered[d]].subscriptions # None =>
                lists'[heap[registered[d]].subscriptions] = lists[heap[registered[d]].subscriptions]
  PROVE  KnownSubscriptions(d)' = KnownSubscriptions(d)
<1>1. registered[d] # None => ListOf(registered[d])' = ListOf(registered[d])
  BY DEF ListOf
<1> QED
  BY <1>1 DEF KnownSubscriptions

\* A refused register call leaves its registration.
LEMMA KeptMember ==
  ASSUME NEW d, NEW i
  PROVE  /\ i \in Kept(d) <=> /\ i \in registrations /\ call[i].dev = d
                              /\ ~(call[i].op = "register" /\ call[i].at = "error")
         /\ i \in Kept(d)' <=> /\ i \in registrations' /\ call'[i].dev = d
                               /\ ~(call'[i].op = "register" /\ call'[i].at = "error")
         /\ i \in LiveSubscriptions(d) <=> i \in subscriptions /\ call[i].dev = d
         /\ i \in LiveSubscriptions(d)' <=> i \in subscriptions' /\ call'[i].dev = d
BY DEF Kept, LiveRegistrations, LeftByRefusedRegister, LiveSubscriptions

\* The device's objects are its own, and so is its list.
LEMMA StoredOwn ==
  ASSUME TypeInv, ExpiredInv, NEW d \in DeviceId, StoredInv(d), registered[d] # None
  PROVE  LET o == registered[d] IN
         /\ o \in Req /\ call[o].dev = d
         /\ heap[o].registrationId # None =>
              heap[o].registrationId \in Req /\ call[heap[o].registrationId].dev = d
         /\ heap[o].subscriptions # None =>
              heap[o].subscriptions \in Req /\ call[heap[o].subscriptions].dev = d
<1> DEFINE o == registered[d]
<1>1. o \in Req /\ call[o].dev = d
  BY DEF TypeInv, TypeOK, Ref, ExpiredInv, OwnInv
<1>2. heap[o].registrationId # None =>
        heap[o].registrationId \in Req /\ call[heap[o].registrationId].dev = d
  BY <1>1 DEF ExpiredInv, OwnInv, Of
<1>3. heap[o] \in Device
  BY <1>1 DEF TypeInv, TypeOK
<1>4. heap[o].subscriptions # None =>
        heap[o].subscriptions \in Req /\ call[heap[o].subscriptions].dev = d
  BY <1>3 DEF StoredInv, Device, Ref
<1> QED
  BY <1>1, <1>2, <1>4

\* A device keeps DeviceInv while nothing touches what is its own.
LEMMA OtherDevice ==
  ASSUME TypeInv, ExpiredInv, NEW e \in DeviceId, DeviceInv(e),
         registered'[e] = registered[e],
         \A q \in Req : call'[q].dev = e <=> call[q].dev = e,
         \A q \in Req : call[q].dev = e =>
           /\ call'[q] = call[q] /\ heap'[q] = heap[q] /\ lists'[q] = lists[q]
           /\ q \in registrations' <=> q \in registrations
           /\ q \in subscriptions' <=> q \in subscriptions,
         registrations' \cup subscriptions' \subseteq Req,
         \A m \in sent \cup sent' :
           m.req \in Req /\ (call[m.req].dev = e => (m \in sent <=> m \in sent')),
         \A a \in answers \cup answers' :
           a.req \in Req /\ (call[a.req].dev = e => (a \in answers <=> a \in answers'))
  PROVE  DeviceInv(e)'
<1> DEFINE o == registered[e]
<1>t. registrations \cup subscriptions \subseteq Req
  BY DEF TypeInv, TypeOK
<1>1. o # None =>
        /\ o \in Req /\ call[o].dev = e
        /\ heap[o].registrationId # None =>
             heap[o].registrationId \in Req /\ call[heap[o].registrationId].dev = e
        /\ heap[o].subscriptions # None =>
             heap[o].subscriptions \in Req /\ call[heap[o].subscriptions].dev = e
  BY StoredOwn DEF DeviceInv
<1>2. registered'[e] = o
  OBVIOUS
<1> HIDE DEF o
<1>3. KnownRegistrations(e)' = KnownRegistrations(e)
  BY <1>1, <1>2, SameKnown DEF o
<1>4. KnownSubscriptions(e)' = KnownSubscriptions(e)
  BY <1>1, <1>2, SameListed DEF o
<1>5. Kept(e)' = Kept(e)
  <2>1. \A i : i \in Kept(e)' <=> i \in Kept(e)
    BY <1>t, KeptMember
  <2> QED
    BY <2>1
<1>6. LiveSubscriptions(e)' = LiveSubscriptions(e)
  <2>1. \A i : i \in LiveSubscriptions(e)' <=> i \in LiveSubscriptions(e)
    BY <1>t, KeptMember
  <2> QED
    BY <2>1
<1>7. StoredInv(e)'
  BY <1>1, <1>2 DEF DeviceInv, StoredInv, o
<1>8. \A q \in Req : call[q].dev = e /\ call[q].at \in HoldsOld =>
        call[q].old \in Req /\ heap'[call[q].old] = heap[call[q].old]
  <2>1. ASSUME NEW q \in Req, call[q].dev = e, call[q].at \in HoldsOld
        PROVE  call[q].old \in Req /\ call[call[q].old].dev = e
    <3>1. call[q].old \in Req /\ call[q].old # None
      BY <2>1, ConstantsAssumption DEF TypeInv, Holding
    <3> QED
      BY <2>1, <3>1 DEF ExpiredInv, OwnInv, Of
  <2> QED
    BY <2>1
<1>9. RequestsInv(e)'
  <2>1. ASSUME NEW m \in sent \cup answers, call[m.req].dev = e
        PROVE  Named(m)' = Named(m) /\ call'[m.req] = call[m.req]
    <3>1. m.req \in Req /\ call'[m.req] = call[m.req]
      BY <2>1
    <3>2. m.kind = "expire" => call[m.req].at = "expiring"
      BY DEF ExpiredInv, SerialInv, AtItsStage, AwaitedAt
    <3>3. m.kind = "expire" \/ call[m.req].at = "updating" =>
            heap'[call[m.req].old] = heap[call[m.req].old]
      BY <1>8, <2>1, <3>1, <3>2 DEF HoldsOld
    <3> QED
      BY <3>1, <3>3 DEF Named
  <2>2. \A m \in sent' : call'[m.req].dev = e => m \in sent /\ call[m.req].dev = e
    OBVIOUS
  <2>3. \A a \in answers' : call'[a.req].dev = e => a \in answers /\ call[a.req].dev = e
    OBVIOUS
  <2>4. RequestsInv(e)
    BY DEF DeviceInv
  <2>5. ASSUME NEW m \in sent' \cup answers', call'[m.req].dev = e, m.kind = "unsubscribe"
        PROVE  call'[m.req].at = "unsubscribing"
    BY <2>1, <2>2, <2>3, <2>4, <2>5 DEF RequestsInv
  <2>8. ASSUME NEW m \in sent', call'[m.req].dev = e, m.kind = "unsubscribe"
        PROVE  m.id \in Req /\ call'[m.id].dev = e
    BY <2>2, <2>4, <2>8 DEF RequestsInv
  <2>6. ASSUME NEW m \in sent', call'[m.req].dev = e, m.kind \in {"register", "expire", "subscribe"}
        PROVE  m.id = Named(m)'
    BY <2>1, <2>2, <2>4, <2>6 DEF RequestsInv
  <2>7. ASSUME NEW a \in answers', call'[a.req].dev = e
        PROVE  /\ a.result = "ok"
               /\ a.kind \in {"register", "expire", "subscribe"} =>
                    a.id = IF Named(a)' = None THEN a.req ELSE Named(a)'
    BY <2>1, <2>3, <2>4, <2>7 DEF RequestsInv
  <2> QED
    BY <2>5, <2>6, <2>7, <2>8 DEF RequestsInv
<1>10. Quiet(e)' => Matches(e)'
  BY <1>3, <1>4, <1>5, <1>6 DEF DeviceInv, Quiet, Matches, Busy
<1>11. ASSUME NEW r \in Req, call'[r].dev = e, Busy(r)'
       PROVE  BusyInv(r)'
  <2>1. call[r].dev = e /\ call'[r] = call[r] /\ heap'[r] = heap[r] /\ BusyInv(r)
    BY <1>11 DEF Busy, DeviceInv
  <2>2. ObjectsInv(r)'
    <3>1. ObjectsInv(r)
      BY <2>1 DEF BusyInv
    <3>2. /\ call[r].at \in {"updating", "clone", "replace"} => o # None
      BY <2>1, <3>1, ConstantsAssumption DEF ObjectsInv, HoldsNew, TypeInv, Holding, o
    <3>3. o # None => heap'[o] = heap[o]
      BY <1>1
    <3>4. heap[r].registrationId # None =>
            call'[heap[r].registrationId] = call[heap[r].registrationId]
      BY <2>1 DEF ExpiredInv, OwnInv, Of
    <3> QED
      BY <1>2, <2>1, <3>1, <3>2, <3>3, <3>4 DEF ObjectsInv, o
  <2>3. \A kind : AnsweredIds(r, kind)' = AnsweredIds(r, kind)
    BY <2>1 DEF AnsweredIds
  <2>4. (Kept(call[r].dev) = BusyRegistrations(r))'
    <3>1. KnownRegistrations(call[r].dev)' = KnownRegistrations(call[r].dev)
      BY <1>3, <2>1
    <3>2. BusyRegistrations(r)' = BusyRegistrations(r)
      <4>1. /\ AnsweredIds(r, "expire")' = AnsweredIds(r, "expire")
            /\ AnsweredIds(r, "register")' = AnsweredIds(r, "register")
        BY <2>3
      <4> QED
        BY <2>1, <3>1, <4>1 DEF BusyRegistrations
    <3>3. Kept(call[r].dev)' = Kept(call[r].dev)
      BY <1>5, <2>1
    <3>4. Kept(call[r].dev) = BusyRegistrations(r)
      BY <2>1 DEF BusyInv
    <3> QED
      BY <3>2, <3>3, <3>4
  <2>5. SubscriptionsInv(r)'
    BY <1>4, <1>6, <2>1, <2>3 DEF BusyInv, SubscriptionsInv
  <2> QED
    BY <2>2, <2>4, <2>5 DEF BusyInv
<1> QED
  BY <1>7, <1>9, <1>10, <1>11 DEF DeviceInv

\* A step of one call keeps MatchInv if it keeps what that is for its device.
LEMMA ActorKeeps ==
  ASSUME TypeInv, TypeInv', ExpiredInv, MatchInv, failures = 0,
         NEW r \in Req, NEW d \in DeviceId,
         call[r].dev \in {None, d}, call'[r].dev = d,
         \A q \in Req : q # r => call'[q] = call[q] /\ (call[q].dev = d => ~Busy(q)),
         \A e \in DeviceId : e # d => registered'[e] = registered[e],
         \A q \in Req : q # r /\ call[q].dev # d => heap'[q] = heap[q] /\ lists'[q] = lists[q],
         \A i \in Req : call'[i].dev # d =>
           /\ i \in registrations' <=> i \in registrations
           /\ i \in subscriptions' <=> i \in subscriptions,
         \A m \in sent \cup sent' : m.req # r => (m \in sent <=> m \in sent'),
         \A a \in answers \cup answers' : a.req # r => (a \in answers <=> a \in answers'),
         StoredInv(d)', RequestsInv(d)', FreshInv',
         Busy(r)' => BusyInv(r)',
         ~Busy(r)' => Matches(d)'
  PROVE  MatchInv'
<1>t. /\ \A m \in sent \cup sent' \cup answers \cup answers' : m.req \in Req
      /\ registrations' \cup subscriptions' \subseteq Req
      /\ d # None
  BY ConstantsAssumption DEF TypeInv, TypeOK, Message, Answer
<1>1. ASSUME NEW e \in DeviceId, e # d
      PROVE  DeviceInv(e)'
  <2>1. DeviceInv(e)
    BY DEF MatchInv
  <2>2. e # None
    BY ConstantsAssumption
  <2>3. \A q \in Req : call'[q].dev = e <=> call[q].dev = e
    BY <1>1, <2>2
  <2>4. \A q \in Req : call[q].dev = e =>
           /\ call'[q] = call[q] /\ heap'[q] = heap[q] /\ lists'[q] = lists[q]
           /\ q \in registrations' <=> q \in registrations
           /\ q \in subscriptions' <=> q \in subscriptions
    BY <1>1, <2>2
  <2>5. /\ \A m \in sent \cup sent' :
             m.req \in Req /\ (call[m.req].dev = e => (m \in sent <=> m \in sent'))
        /\ \A a \in answers \cup answers' :
             a.req \in Req /\ (call[a.req].dev = e => (a \in answers <=> a \in answers'))
    BY <1>1, <1>t, <2>2
  <2> QED
    BY <1>1, <1>t, <2>1, <2>3, <2>4, <2>5, OtherDevice
<1>2. DeviceInv(d)'
  <2>1. Quiet(d)' => ~Busy(r)'
    BY DEF Quiet
  <2>2. ASSUME NEW q \in Req, call'[q].dev = d, Busy(q)'
        PROVE  BusyInv(q)'
    BY <2>2 DEF Busy
  <2> QED
    BY <2>1, <2>2 DEF DeviceInv
<1> QED
  BY <1>1, <1>2 DEF MatchInv

\* Unless it awaits an answer, a busy call has nothing under way.
LEMMA Silent ==
  ASSUME TypeInv, ExpiredInv, NEW r \in Req, NEW d \in DeviceId, call[r].dev = d, RequestsInv(d),
         call[r].at \notin {"registering", "updating", "creating", "combining", "expiring",
                            "subscribing", "unsubscribing"}
  PROVE  \A m \in sent \cup answers : m.req # r
<1>1. \A m \in sent \cup answers : m.req = r => m.kind = "unsubscribe"
  BY NothingAwaited DEF ExpiredInv, Single
<1>2. \A m \in sent \cup answers : m.req = r => m.kind # "unsubscribe"
  BY DEF RequestsInv
<1> QED
  BY <1>1, <1>2

\* What is under way for the device of a busy call, the call has asked.
LEMMA OnlyOwn ==
  ASSUME TypeInv, ExpiredInv, NEW r \in Req, NEW d \in DeviceId, call[r].dev = d, RequestsInv(d),
         Busy(r) \/ (\A q \in Req : call[q].dev = d => ~Busy(q))
  PROVE  \A m \in sent \cup answers : call[m.req].dev = d => m.req = r /\ Busy(r)
<1>1. ASSUME NEW m \in sent \cup answers, call[m.req].dev = d
      PROVE  Busy(m.req) /\ m.req \in Req
  <2>1. m.req \in Req /\ m.kind \in MsgKind
    BY DEF TypeInv, TypeOK, Message, Answer
  <2>2. call[m.req].at \in AwaitedAt(m.kind)
    BY DEF ExpiredInv, SerialInv, AtItsStage
  <2>3. CASE m.kind = "unsubscribe"
    BY <1>1, <2>3, <2>1 DEF RequestsInv, Busy, Ended
  <2>4. CASE m.kind # "unsubscribe"
    BY <2>1, <2>2, <2>4, AwaitingStages DEF Busy, Ended
  <2> QED
    BY <2>1, <2>3, <2>4
<1> QED
  BY <1>1 DEF ExpiredInv, SerialInv, OneAtATime

\* A call that moves on asks for what its new stage awaits, and has nothing
\* else under way.
LEMMA Moved ==
  ASSUME TypeInv, TypeInv', ExpiredInv, MatchInv, failures = 0,
         NEW r \in Req, NEW d \in DeviceId, NEW M, Busy(r), call[r].dev = d,
         call'[r].dev = d, call'[r].op = call[r].op, call'[r].at # "idle",
         ~(call'[r].op = "register" /\ call'[r].at = "error"),
         \A q \in Req : q # r => call'[q] = call[q],
         \A e \in DeviceId : e # d => registered'[e] = registered[e],
         \A q \in Req : q # r /\ call[q].dev # d => heap'[q] = heap[q] /\ lists'[q] = lists[q],
         \A q \in Req : lists'[q] = lists[q] \/ call'[q].at \in Ended,
         registrations' = registrations, subscriptions' = subscriptions,
         answers' \subseteq answers,
         \A a \in answers : a.req # r => a \in answers',
         \A m \in sent \cup answers' : m.req # r,
         sent' = sent \cup M,
         \A m \in M : /\ m.req = r
                      /\ m.kind = "unsubscribe" =>
                           call'[r].at = "unsubscribing" /\ m.id \in Req /\ call'[m.id].dev = d
                      /\ m.kind \in {"register", "expire", "subscribe"} => m.id = Named(m)',
         StoredInv(d)',
         Busy(r)' =>
           /\ ObjectsInv(r)'
           /\ call'[r].at = "replace" => Kept(d) = {heap'[r].registrationId} \ {None}
           /\ call'[r].at = "creating" =>
                Kept(d) = KnownRegistrations(d)' \cup ({heap'[r].registrationId} \ {None})
           /\ call'[r].at \notin {"replace", "creating"} => Kept(d) = KnownRegistrations(d)'
           /\ call'[r].at \in {"expire", "expiring", "remove"} => LiveSubscriptions(d) = {}
           /\ call'[r].at = "unsubscribing" =>
                \A i \in LiveSubscriptions(d) :
                  \E m \in sent' : m.req = r /\ m.kind = "unsubscribe" /\ m.id = i
           /\ call'[r].at \notin {"expire", "expiring", "remove", "unsubscribing"} =>
                LiveSubscriptions(d) = KnownSubscriptions(d)',
         ~Busy(r)' =>
           Kept(d) = KnownRegistrations(d)' /\ LiveSubscriptions(d) = KnownSubscriptions(d)'
  PROVE  MatchInv'
<1>t. /\ \A m \in sent \cup sent' \cup answers \cup answers' : m.req \in Req
      /\ d # None
  BY ConstantsAssumption DEF TypeInv, TypeOK, Message, Answer
<1>0. DeviceInv(d) /\ FreshInv
  BY DEF MatchInv
<1>1. \A q \in Req : q # r /\ call[q].dev = d => ~Busy(q)
  BY DEF ExpiredInv, SerialInv, OneAtATime
<1>2. \A q \in Req : call'[q].dev = call[q].dev
  OBVIOUS
<1>3. /\ \A m \in sent \cup answers' : call[m.req].dev # d
      /\ \A m \in sent' \cup answers' : m.req # r => call'[m.req].dev # d
  BY <1>0, <1>2, <1>t, OnlyOwn DEF DeviceInv
<1>4. RequestsInv(d)'
  <2>1. \A a \in answers' : call'[a.req].dev # d
    BY <1>2, <1>3, <1>t
  <2>2. \A m \in sent' : call'[m.req].dev = d => m \in M
    BY <1>3
  <2>3. \A m \in sent' \cup answers' :
          call'[m.req].dev = d /\ m.kind = "unsubscribe" => call'[m.req].at = "unsubscribing"
    BY <2>1, <2>2
  <2>4. \A m \in sent' : call'[m.req].dev = d /\ m.kind \in {"register", "expire", "subscribe"}
          => m.id = Named(m)'
    BY <2>2
  <2>5. \A m \in sent' : call'[m.req].dev = d /\ m.kind = "unsubscribe"
          => m.id \in Req /\ call'[m.id].dev = d
    BY <2>2
  <2> QED
    BY <2>1, <2>3, <2>4, <2>5 DEF RequestsInv
<1>5. FreshInv'
  BY <1>0 DEF FreshInv, Busy, Ended
<1>6. Kept(d)' = Kept(d)
  <2>1. Busy(r) /\ \A i \in registrations : i \in Req
    BY DEF TypeInv, TypeOK
  <2>2. \A i : i \in Kept(d)' <=> i \in Kept(d)
    BY <2>1, KeptMember DEF Busy, Ended
  <2> QED
    BY <2>2
<1>7. LiveSubscriptions(d)' = LiveSubscriptions(d)
  <2>1. \A i \in subscriptions : i \in Req
    BY DEF TypeInv, TypeOK
  <2>2. \A i : i \in LiveSubscriptions(d)' <=> i \in LiveSubscriptions(d)
    BY <1>2, <2>1, KeptMember
  <2> QED
    BY <2>2
<1>8. \A kind : AnsweredIds(r, kind)' = {}
  BY DEF AnsweredIds
<1>9. Busy(r)' => BusyInv(r)'
  <2> SUFFICES ASSUME Busy(r)' PROVE BusyInv(r)'
    OBVIOUS
  <2>1. AnsweredIds(r, "expire")' = {} /\ AnsweredIds(r, "register")' = {}
        /\ AnsweredIds(r, "subscribe")' = {}
    BY <1>8
  <2>2. Kept(d)' = BusyRegistrations(r)'
    BY <1>6, <2>1 DEF BusyRegistrations
  <2>3. SubscriptionsInv(r)'
    BY <1>7, <2>1 DEF SubscriptionsInv
  <2> QED
    BY <2>2, <2>3 DEF BusyInv
<1>10. ~Busy(r)' => Matches(d)'
  BY <1>6, <1>7 DEF Matches
<1>11. \A m \in sent \cup sent' : m.req # r => (m \in sent <=> m \in sent')
  OBVIOUS
<1>12. \A a \in answers \cup answers' : a.req # r => (a \in answers <=> a \in answers')
  OBVIOUS
<1>13. \A i \in Req : call'[i].dev # d =>
         /\ i \in registrations' <=> i \in registrations
         /\ i \in subscriptions' <=> i \in subscriptions
  OBVIOUS
<1>14. \A q \in Req : q # r => call'[q] = call[q] /\ (call[q].dev = d => ~Busy(q))
  BY <1>1
<1> QED
  BY <1>4, <1>5, <1>9, <1>10, <1>11, <1>12, <1>13, <1>14, ActorKeeps

\* The object the registry holds, while a busy call leaves it alone.
LEMMA SameStored ==
  ASSUME TypeInv, ExpiredInv, NEW r \in Req, NEW d \in DeviceId, StoredInv(d),
         \A q \in Req : q # r => call'[q] = call[q],
         call[r].at # "ok",
         registered'[d] = registered[d],
         registered[d] # None =>
           /\ heap'[registered[d]].registrationId = heap[registered[d]].registrationId
           /\ heap'[registered[d]].subscriptions = heap[registered[d]].subscriptions
           /\ heap[registered[d]].lazy => heap'[registered[d]].lazy
  PROVE  StoredInv(d)'
<1> DEFINE o == registered[d]
<1>1. o # None =>
        /\ o \in Req
        /\ heap[o].registrationId # None => heap[o].registrationId \in Req
        /\ heap[o].subscriptions # None => heap[o].subscriptions \in Req
  BY StoredOwn
<1> QED
  BY <1>1 DEF StoredInv

\* A busy call is of one of the operations that are called.
LEMMA BusyOps ==
  ASSUME TypeInv, ExpiredInv, Provisioned, NEW r \in Req, Busy(r)
  PROVE  /\ call[r].op \in {"register", "unregister", "put", "subscribe"}
         /\ call[r].at \in {"registering", "creating"} => call[r].op = "register"
         /\ call[r].at \in HoldsNew => call[r].op = "put"
         /\ call[r].at \in {"unsubscribe", "unsubscribing", "expire", "expiring", "remove"} =>
              call[r].op = "unregister"
         /\ call[r].at = "subscribing" => call[r].op = "subscribe"
<1>1. call[r].at \in StagesOf(call[r].op) \ Ended
  BY DEF ExpiredInv, SerialInv, AtItsStage, Busy
<1>2. call[r].op \in {"register", "unregister", "put", "subscribe", "none"}
  BY DEF TypeInv, TypeOK, Call, Provisioned
<1>3. call[r].op # "none"
  BY <1>1 DEF StagesOf
<1> QED
  BY <1>1, <1>2, <1>3 DEF StagesOf, HoldsNew

\* Every task keeps MatchInv: what it asks for is what its object names.
LEMMA TaskMatch ==
  ASSUME TypeInv, TypeInv', ExpiredInv, MatchInv, Provisioned, failures = 0,
         NEW r \in Req, Task(r), NEW d \in DeviceId, call[r].dev = d
  PROVE  MatchInv'
<1> DEFINE o == registered[d]
<1>t. /\ registered \in [DeviceId -> Ref] /\ heap \in [Req -> Device] /\ call \in [Req -> Call]
      /\ lists \in [Req -> Seq(Req)]
  BY DEF TypeInv, TypeOK
<1>m. \A q, kind, id, attrs : /\ Msg(q, kind, id, attrs).req = q
                              /\ Msg(q, kind, id, attrs).kind = kind
                              /\ Msg(q, kind, id, attrs).id = id
  BY DEF Msg
<1>0. /\ call[r].at \in {"get", "difference", "update", "clone", "replace",
                         "unsubscribe", "expire", "remove"}
      /\ registrations' = registrations /\ subscriptions' = subscriptions
      /\ answers' = answers /\ lists' = lists
  BY DEF Task, GetOld, SendDifference, SendUpdate, OnNothingToUpdate, ReplaceDevice,
         SendUnsubscriptions, SendExpire, RemoveUnregistered, brokerVars
<1>1. Busy(r) /\ DeviceInv(d) /\ BusyInv(r)
  <2>1. Busy(r)
    BY <1>0 DEF Busy, Ended
  <2> QED
    BY <2>1 DEF MatchInv, DeviceInv
<1>2. /\ \A m \in sent \cup answers' : m.req # r
      /\ AnsweredIds(r, "expire") = {} /\ AnsweredIds(r, "register") = {}
      /\ AnsweredIds(r, "subscribe") = {}
  <2>1. \A m \in sent \cup answers : m.req # r
    BY <1>0, <1>1, Silent DEF DeviceInv
  <2> QED
    BY <1>0, <2>1 DEF AnsweredIds
<1>3. /\ call[r].op \in {"put", "unregister"}
      /\ call[r].at \in HoldsNew => call[r].new = o
      /\ call[r].at \in HoldsOld \cup {"remove"} => call[r].old = o
      /\ o \in Req /\ o # None /\ o # r
  <2>1. call[r].op \in {"put", "unregister"}
    BY <1>0, <1>1, BusyOps DEF HoldsNew
  <2>2. ObjectsInv(r)
    BY <1>1 DEF BusyInv
  <2>3. o # None /\ o \in Req
    BY <1>0, <1>1, <1>t, <2>2, ConstantsAssumption
    DEF ObjectsInv, HoldsNew, HoldsOld, TypeInv, Holding, Ref
  <2>4. call[o].at = "ok"
    BY <1>1, <2>3 DEF DeviceInv, StoredInv
  <2> QED
    BY <1>0, <2>1, <2>2, <2>3, <2>4 DEF ObjectsInv
<1>4. /\ call[r].at # "replace" => Kept(d) = KnownRegistrations(d)
      /\ call[r].at = "replace" => Kept(d) = {heap[r].registrationId} \ {None}
      /\ call[r].at \in {"expire", "remove"} => LiveSubscriptions(d) = {}
      /\ call[r].at \notin {"expire", "remove"} => LiveSubscriptions(d) = KnownSubscriptions(d)
  <2>1. Kept(d) = BusyRegistrations(r)
    BY <1>1 DEF BusyInv
  <2>2. SubscriptionsInv(r)
    BY <1>1 DEF BusyInv
  <2> QED
    BY <1>0, <1>2, <2>1, <2>2 DEF BusyRegistrations, SubscriptionsInv
<1>5. ASSUME NEW stage \in Stage, call' = Move(r, stage)
      PROVE  /\ call'[r].op = call[r].op /\ call'[r].dev = call[r].dev
             /\ call'[r].new = call[r].new /\ call'[r].old = call[r].old /\ call'[r].at = stage
             /\ \A q \in Req : q # r => call'[q] = call[q]
  BY <1>t, <1>5, MoveEffect DEF Move
<1>6. ASSUME registered' = registered, heap'[o] = heap[o],
             \A q \in Req : q # r => call'[q] = call[q]
      PROVE  /\ KnownRegistrations(d)' = KnownRegistrations(d)
             /\ KnownSubscriptions(d)' = KnownSubscriptions(d)
             /\ StoredInv(d)'
  <2>1. /\ KnownRegistrations(d)' = KnownRegistrations(d)
        /\ KnownSubscriptions(d)' = KnownSubscriptions(d)
    BY <1>0, <1>6 DEF KnownRegistrations, KnownSubscriptions, ListOf
  <2>2. StoredInv(d)'
    BY <1>0, <1>1, <1>6, SameStored DEF DeviceInv
  <2> QED
    BY <2>1, <2>2
<1>7. \A q \in Req : lists'[q] = lists[q]
  BY <1>0
<1>8. answers' \subseteq answers /\ \A a \in answers : a.req # r => a \in answers'
  BY <1>0
<1>9. StoredInv(d) /\ registered[d] = o /\ call[o].at = "ok"
  BY <1>1, <1>3 DEF DeviceInv, StoredInv
<1>a. \A m \in sent \cup answers' : m.req # r
  BY <1>2
<1>b. Busy(r)
  BY <1>1
<1> DEFINE N == {}
<1>c. (\A m \in N : FALSE) /\ sent = sent \cup N
  OBVIOUS
<1> HIDE DEF o, N
<1>10. CASE GetOld(r)
  <2>1. /\ \A q \in Req : q # r => call'[q] = call[q]
        /\ call'[r].op = call[r].op /\ call'[r].dev = d /\ call'[r].new = o
        /\ call'[r].old = o /\ call'[r].at = "difference"
    BY <1>t, <1>3, <1>9, <1>10 DEF GetOld, Call, HoldsNew
  <2>2. sent' = sent \cup {} /\ heap' = heap /\ registered' = registered /\ call[r].at = "get"
    BY <1>10 DEF GetOld
  <2>3. ObjectsInv(r)'
    BY <1>3, <1>9, <2>1, <2>2 DEF ObjectsInv, HoldsNew, HoldsOld
  <2>4. Busy(r)'
    BY <2>1 DEF Busy, Ended
  <2>5. /\ StoredInv(d)' /\ Kept(d) = KnownRegistrations(d)'
        /\ LiveSubscriptions(d) = KnownSubscriptions(d)'
    BY <1>4, <1>6, <2>1, <2>2
  <2>6. /\ call'[r].op = call[r].op /\ call'[r].dev = d /\ call'[r].at = "difference"
        /\ \A q \in Req : q # r => call'[q] = call[q]
    BY <2>1
  <2>7. heap' = heap /\ registered' = registered /\ sent' = sent \cup N
    BY <1>c, <2>2
  <2> QED
    BY <1>0, <1>a, <1>b, <1>c, <1>7, <1>8, <2>3, <2>4, <2>5, <2>6, <2>7, Moved
<1>11. CASE SendDifference(r)
  <2>1. PICK attrs : sent' = sent \cup {Msg(r, "entity", None, attrs)}
    BY <1>11 DEF SendDifference
  <2> DEFINE M == {Msg(r, "entity", None, attrs)}
  <2>2. /\ call[r].at = "difference" /\ call' = Move(r, "combining")
        /\ heap' = heap /\ registered' = registered
    BY <1>11 DEF SendDifference
  <2>3. sent' = sent \cup M /\ \A m \in M : m.req = r /\ m.kind = "entity"
    BY <1>m, <2>1
  <2>4. "combining" \in Stage \ {"idle"}
    BY DEF Stage
  <2>5. ObjectsInv(r)'
    BY <1>3, <1>5, <1>9, <2>2, <2>4 DEF ObjectsInv, HoldsNew, HoldsOld
  <2> HIDE DEF M
  <2>6. /\ call'[r].op = call[r].op /\ call'[r].dev = d /\ call'[r].at = "combining"
        /\ \A q \in Req : q # r => call'[q] = call[q]
    BY <1>5, <2>2, <2>4
  <2>7. /\ StoredInv(d)' /\ Kept(d) = KnownRegistrations(d)'
        /\ LiveSubscriptions(d) = KnownSubscriptions(d)'
    BY <1>4, <1>6, <2>2, <2>6
  <2>8. Busy(r)'
    BY <2>6 DEF Busy, Ended
  <2>9. heap' = heap /\ registered' = registered
    BY <2>2
  <2> QED
    BY <1>0, <1>a, <1>b, <1>7, <1>8, <2>3, <2>5, <2>6, <2>7, <2>8, <2>9, Moved
<1>12. CASE SendUpdate(r)
  <2>1. heap' = heap /\ registered' = registered /\ call[r].at = "update" /\ call[r].old = o
    BY <1>3, <1>12 DEF SendUpdate, HoldsOld
  <2>2. CASE heap[o].lazy
    <3> DEFINE M == {Msg(r, "register", heap[o].registrationId, {})}
    <3>1. sent' = sent \cup M /\ call' = Move(r, "updating")
      BY <1>12, <2>1, <2>2 DEF SendUpdate, KnownRegistration
    <3>2. \A m \in M : m.req = r /\ m.kind = "register" /\ m.id = heap[o].registrationId
      BY <1>m
    <3>3. "updating" \in Stage \ {"idle"}
      BY DEF Stage
    <3> HIDE DEF M
    <3>4. \A m \in M : m.id = Named(m)'
      BY <1>5, <2>1, <3>1, <3>2, <3>3 DEF Named
    <3>5. ObjectsInv(r)'
      BY <1>3, <1>5, <1>9, <2>1, <2>2, <3>1, <3>3 DEF ObjectsInv, HoldsNew, HoldsOld
    <3>6. /\ call'[r].op = call[r].op /\ call'[r].dev = d /\ call'[r].at = "updating"
          /\ \A q \in Req : q # r => call'[q] = call[q]
      BY <1>5, <3>1, <3>3
    <3>7. /\ KnownRegistrations(d)' = KnownRegistrations(d)
          /\ KnownSubscriptions(d)' = KnownSubscriptions(d)
          /\ StoredInv(d)'
      BY <1>6, <2>1, <3>6
    <3>8. Busy(r)'
      BY <3>6 DEF Busy, Ended
    <3>9. /\ StoredInv(d)' /\ Kept(d) = KnownRegistrations(d)'
          /\ LiveSubscriptions(d) = KnownSubscriptions(d)'
      BY <1>4, <2>1, <3>7
    <3>10. heap' = heap /\ registered' = registered /\ sent' = sent \cup M
      BY <2>1, <3>1
    <3> QED
      BY <1>0, <1>a, <1>b, <1>7, <1>8, <3>2, <3>4, <3>5, <3>6, <3>8, <3>9, <3>10, Moved
  <2>3. CASE ~heap[o].lazy
    <3>1. sent' = sent \cup {} /\ call' = Move(r, "clone")
      BY <1>12, <2>1, <2>3 DEF SendUpdate
    <3>2. "clone" \in Stage \ {"idle"}
      BY DEF Stage
    <3>3. ObjectsInv(r)'
      BY <1>3, <1>5, <1>9, <2>1, <2>3, <3>1, <3>2 DEF ObjectsInv, HoldsNew, HoldsOld
    <3>4. /\ call'[r].op = call[r].op /\ call'[r].dev = d /\ call'[r].at = "clone"
          /\ \A q \in Req : q # r => call'[q] = call[q]
      BY <1>5, <3>1, <3>2
    <3>5. Busy(r)'
      BY <3>4 DEF Busy, Ended
    <3>6. /\ StoredInv(d)' /\ Kept(d) = KnownRegistrations(d)'
          /\ LiveSubscriptions(d) = KnownSubscriptions(d)'
      BY <1>4, <1>6, <2>1, <3>4
    <3>7. heap' = heap /\ registered' = registered /\ sent' = sent \cup N
      BY <1>c, <2>1, <3>1
    <3> QED
      BY <1>0, <1>a, <1>b, <1>c, <1>7, <1>8, <3>3, <3>4, <3>5, <3>6, <3>7, Moved
  <2> QED
    BY <2>2, <2>3
<1>13. CASE OnNothingToUpdate(r)
  <2>1. /\ call[r].at = "clone" /\ call' = Move(r, "replace")
        /\ sent' = sent /\ registered' = registered
        /\ CloneWith(r, heap[o].registrationId)
    BY <1>3, <1>13 DEF OnNothingToUpdate, HoldsOld
  <2>2. call[r].new = o /\ call[r].old = o /\ heap[o].registrationId = None
    <3>1. ~heap[o].lazy
      BY <1>1, <1>9, <2>1 DEF BusyInv, ObjectsInv
    <3> QED
      BY <1>3, <1>9, <2>1, <3>1 DEF StoredInv, HoldsNew, HoldsOld
  <2>3. /\ \A q \in Req : q # r => heap'[q] = heap[q]
        /\ heap'[r].registrationId = None
        /\ heap'[r].subscriptions = heap[o].subscriptions
    BY <1>t, <1>3, <2>1, <2>2 DEF CloneWith, Device
  <2>4. "replace" \in Stage \ {"idle"}
    BY DEF Stage
  <2>5. ObjectsInv(r)'
    BY <1>3, <1>5, <1>9, <2>1, <2>2, <2>3, <2>4 DEF ObjectsInv, HoldsNew, HoldsOld
  <2>6. Kept(d) = {heap'[r].registrationId} \ {None}
    BY <1>4, <1>3, <1>9, <2>1, <2>2, <2>3 DEF KnownRegistrations
  <2>7. /\ call'[r].op = call[r].op /\ call'[r].dev = d /\ call'[r].at = "replace"
        /\ \A q \in Req : q # r => call'[q] = call[q]
    BY <1>5, <2>1, <2>4
  <2>8. Busy(r)'
    BY <2>7 DEF Busy, Ended
  <2>9. StoredInv(d)' /\ LiveSubscriptions(d) = KnownSubscriptions(d)'
    BY <1>3, <1>4, <1>6, <2>1, <2>3, <2>7
  <2> QED
    BY <1>0, <1>a, <1>b, <1>c, <1>7, <1>8, <2>1, <2>3, <2>5, <2>6, <2>7, <2>8, <2>9, Moved
<1>14. CASE ReplaceDevice(r)
  <2>1. /\ call[r].at = "replace" /\ call' = Move(r, "ok")
        /\ sent' = sent \cup {} /\ heap' = heap
        /\ registered' = [registered EXCEPT ![d] = r]
    BY <1>14 DEF ReplaceDevice
  <2>2. "ok" \in Stage \ {"idle"} /\ "ok" \in Ended
    BY DEF Stage, Ended
  <2>3. registered'[d] = r /\ \A e \in DeviceId : e # d => registered'[e] = registered[e]
    BY <1>t, <2>1
  <2>4. /\ heap[r].subscriptions = heap[o].subscriptions
        /\ heap[r].registrationId # None =>
             heap[r].lazy /\ (heap[r].registrationId # r => call[heap[r].registrationId].at = "ok")
    BY <1>1, <1>9, <2>1 DEF BusyInv, ObjectsInv
  <2>5. /\ heap[r].registrationId # None => heap[r].registrationId \in Req
        /\ heap[r].subscriptions # None => heap[r].subscriptions \in Req
    BY <1>t DEF Device, Ref
  <2>6. /\ call'[r].at = "ok" /\ call'[r].dev = d
        /\ \A q \in Req : q # r => call'[q] = call[q]
    BY <1>5, <2>1, <2>2
  <2>7. r # None
    BY ConstantsAssumption
  <2>8. StoredInv(d)'
    BY <1>3, <1>9, <2>1, <2>3, <2>4, <2>5, <2>6 DEF StoredInv
  <2>9. Kept(d) = KnownRegistrations(d)'
    BY <1>4, <2>1, <2>3, <2>7 DEF KnownRegistrations
  <2>10. KnownSubscriptions(d) = KnownSubscriptions(d)'
    <3>1. ListOf(r)' = ListOf(o)
      BY <1>0, <2>1, <2>4 DEF ListOf
    <3> QED
      BY <1>3, <1>9, <2>3, <2>7, <3>1 DEF KnownSubscriptions
  <2>11. ~Busy(r)'
    BY <2>6, <2>2 DEF Busy
  <2>12. LiveSubscriptions(d) = KnownSubscriptions(d)'
    BY <1>4, <2>1, <2>10
  <2>13. /\ call'[r].op = call[r].op /\ call'[r].dev = d /\ call'[r].at = "ok"
         /\ \A q \in Req : q # r => call'[q] = call[q]
    BY <1>5, <2>1, <2>2
  <2>14. heap' = heap /\ sent' = sent \cup N
    BY <1>c, <2>1
  <2>15. \A e \in DeviceId : e # d => registered'[e] = registered[e]
    BY <2>3
  <2> QED
    BY <1>0, <1>a, <1>b, <1>c, <1>7, <1>8, <2>8, <2>9, <2>11, <2>12, <2>13, <2>14, <2>15, Moved
<1>15. CASE SendUnsubscriptions(r)
  <2> DEFINE list == ListOf(o)
             stage == IF list = <<>> THEN "expire" ELSE "unsubscribing"
             M == {Msg(r, "unsubscribe", list[i], {}) : i \in DOMAIN list}
  <2>1. /\ call[r].at = "unsubscribe" /\ call[r].old = o
        /\ heap' = heap /\ registered' = registered
    BY <1>3, <1>15 DEF SendUnsubscriptions, HoldsOld
  <2>2. call' = Move(r, stage) /\ sent' = sent \cup M
    BY <1>15, <2>1 DEF SendUnsubscriptions
  <2>3. \A m \in M : m.req = r /\ m.kind = "unsubscribe" /\ list # <<>>
    BY <1>m
  <2>4. stage \in Stage \ {"idle"} /\ stage \notin Ended /\ stage \in {"expire", "unsubscribing"}
    BY DEF Stage, Ended
  <2>5. ObjectsInv(r)'
    BY <1>3, <1>5, <1>9, <2>1, <2>2, <2>4 DEF ObjectsInv, HoldsNew, HoldsOld
  <2>6. LiveSubscriptions(d) = {list[i] : i \in DOMAIN list}
    BY <1>3, <1>4, <1>9, <2>1 DEF KnownSubscriptions
  <2>7. list = <<>> => LiveSubscriptions(d) = {}
    BY <2>6
  <2>8. \A i \in LiveSubscriptions(d) :
          \E m \in sent' : m.req = r /\ m.kind = "unsubscribe" /\ m.id = i
    <3>1. ASSUME NEW i \in DOMAIN list
          PROVE  \E m \in sent' : m.req = r /\ m.kind = "unsubscribe" /\ m.id = list[i]
      <4>1. Msg(r, "unsubscribe", list[i], {}) \in sent'
        BY <2>2
      <4> QED
        BY <1>m, <4>1
    <3> QED
      BY <2>6, <3>1
  <2>11. \A m \in M : m.id \in Req /\ call[m.id].dev = d
    <3>1. \A i \in LiveSubscriptions(d) : i \in Req /\ call[i].dev = d
      BY DEF LiveSubscriptions, TypeInv, TypeOK
    <3> QED
      BY <1>m, <2>6, <3>1
  <2>12. \A m \in M : m.id \in Req /\ call'[m.id].dev = d
    BY <1>5, <2>2, <2>4, <2>11
  <2>9. list # <<>> => stage = "unsubscribing"
    OBVIOUS
  <2>10. list = <<>> => stage = "expire"
    OBVIOUS
  <2> HIDE DEF M, list, stage
  <2>13. /\ call'[r].op = call[r].op /\ call'[r].dev = d /\ call'[r].at = stage
         /\ \A q \in Req : q # r => call'[q] = call[q]
    BY <1>5, <2>2, <2>4
  <2>14. Busy(r)'
    BY <2>4, <2>13 DEF Busy
  <2>15. StoredInv(d)' /\ Kept(d) = KnownRegistrations(d)'
    BY <1>4, <1>6, <2>1, <2>13
  <2>16. \A m \in M : /\ m.req = r /\ m.kind = "unsubscribe" /\ call'[r].at = "unsubscribing"
                       /\ m.id \in Req /\ call'[m.id].dev = d
    BY <2>3, <2>9, <2>12, <2>13
  <2>17. /\ call'[r].at \in {"expire", "unsubscribing"}
         /\ call'[r].at = "expire" => LiveSubscriptions(d) = {}
    BY <2>4, <2>7, <2>9, <2>13
  <2>18. call'[r].op = call[r].op /\ call'[r].dev = d /\ \A q \in Req : q # r => call'[q] = call[q]
    BY <2>13
  <2>19. registered' = registered /\ heap' = heap /\ sent' = sent \cup M
    BY <2>1, <2>2
  <2> QED
    BY <1>0, <1>a, <1>b, <1>7, <1>8, <2>5, <2>8, <2>14, <2>15, <2>16, <2>17, <2>18, <2>19, Moved
<1>16. CASE SendExpire(r)
  <2>1. /\ heap' = heap /\ registered' = registered /\ call[r].at = "expire" /\ call[r].old = o
        /\ call[r].op = "unregister"
    BY <1>1, <1>3, <1>16, BusyOps DEF SendExpire, HoldsOld
  <2>2. CASE heap[o].lazy
    <3> DEFINE M == {Msg(r, "expire", heap[o].registrationId, {})}
    <3>1. sent' = sent \cup M /\ call' = Move(r, "expiring")
      BY <1>16, <2>1, <2>2 DEF SendExpire, KnownRegistration
    <3>2. \A m \in M : m.req = r /\ m.kind = "expire" /\ m.id = heap[o].registrationId
      BY <1>m
    <3>3. "expiring" \in Stage \ {"idle"}
      BY DEF Stage
    <3> HIDE DEF M
    <3>4. \A m \in M : m.id = Named(m)'
      BY <1>5, <2>1, <3>1, <3>2, <3>3 DEF Named
    <3>5. ObjectsInv(r)'
      BY <1>3, <1>5, <1>9, <2>1, <3>1, <3>3 DEF ObjectsInv, HoldsNew, HoldsOld
    <3>6. /\ call'[r].op = call[r].op /\ call'[r].dev = d /\ call'[r].at = "expiring"
          /\ \A q \in Req : q # r => call'[q] = call[q]
      BY <1>5, <3>1, <3>3
    <3>7. /\ KnownRegistrations(d)' = KnownRegistrations(d)
          /\ KnownSubscriptions(d)' = KnownSubscriptions(d)
          /\ StoredInv(d)'
      BY <1>6, <2>1, <3>6
    <3>8. Busy(r)'
      BY <3>6 DEF Busy, Ended
    <3>9. /\ StoredInv(d)' /\ Kept(d) = KnownRegistrations(d)' /\ LiveSubscriptions(d) = {}
          /\ heap' = heap /\ registered' = registered /\ sent' = sent \cup M
      BY <1>4, <2>1, <3>1, <3>7
    <3> QED
      BY <1>0, <1>a, <1>b, <1>7, <1>8, <3>2, <3>4, <3>5, <3>6, <3>8, <3>9, Moved
  <2>3. CASE ~heap[o].lazy
    <3>1. sent' = sent \cup {} /\ call' = Move(r, "remove")
      BY <1>16, <2>1, <2>3 DEF SendExpire
    <3>2. "remove" \in Stage \ {"idle"}
      BY DEF Stage
    <3>3. ObjectsInv(r)'
      BY <1>3, <1>5, <1>9, <2>1, <3>1, <3>2 DEF ObjectsInv, HoldsNew, HoldsOld
    <3>6. /\ call'[r].op = call[r].op /\ call'[r].dev = d /\ call'[r].at = "remove"
          /\ \A q \in Req : q # r => call'[q] = call[q]
      BY <1>5, <3>1, <3>2
    <3>7. /\ KnownRegistrations(d)' = KnownRegistrations(d)
          /\ KnownSubscriptions(d)' = KnownSubscriptions(d)
          /\ StoredInv(d)'
      BY <1>6, <2>1, <3>6
    <3>8. Busy(r)'
      BY <3>6 DEF Busy, Ended
    <3>9. /\ StoredInv(d)' /\ Kept(d) = KnownRegistrations(d)' /\ LiveSubscriptions(d) = {}
          /\ heap' = heap /\ registered' = registered /\ sent' = sent \cup N
      BY <1>4, <1>c, <2>1, <3>1, <3>7
    <3> QED
      BY <1>0, <1>a, <1>b, <1>c, <1>7, <1>8, <3>3, <3>6, <3>8, <3>9, Moved
  <2> QED
    BY <2>2, <2>3
<1>17. CASE RemoveUnregistered(r)
  <2>1. /\ call[r].at = "remove" /\ call' = Move(r, "ok")
        /\ sent' = sent \cup {} /\ heap' = heap
        /\ registered' = [registered EXCEPT ![d] = None]
    BY <1>17 DEF RemoveUnregistered, Remove
  <2>2. "ok" \in Stage \ {"idle"} /\ "ok" \in Ended
    BY DEF Stage, Ended
  <2>3. registered'[d] = None /\ \A e \in DeviceId : e # d => registered'[e] = registered[e]
    BY <1>t, <2>1
  <2>4. heap[o].registrationId = None
    <3>1. ~heap[o].lazy
      BY <1>3, <2>1 DEF ExpiredInv, ExpireInv
    <3> QED
      BY <1>3, <1>9, <3>1 DEF StoredInv
  <2>5. StoredInv(d)'
    BY <2>3 DEF StoredInv
  <2>6. Kept(d) = KnownRegistrations(d)'
    BY <1>3, <1>4, <1>9, <2>1, <2>3, <2>4 DEF KnownRegistrations
  <2>7. LiveSubscriptions(d) = KnownSubscriptions(d)'
    BY <1>4, <2>1, <2>3 DEF KnownSubscriptions
  <2>8. ~Busy(r)'
    BY <1>5, <2>1, <2>2 DEF Busy
  <2>9. /\ call'[r].op = call[r].op /\ call'[r].dev = d /\ call'[r].at = "ok"
        /\ \A q \in Req : q # r => call'[q] = call[q]
    BY <1>5, <2>1, <2>2
  <2>10. heap' = heap /\ sent' = sent \cup N
    BY <1>c, <2>1
  <2>11. \A e \in DeviceId : e # d => registered'[e] = registered[e]
    BY <2>3
  <2> QED
    BY <1>0, <1>a, <1>b, <1>c, <1>7, <1>8, <2>5, <2>6, <2>7, <2>8, <2>9, <2>10, <2>11, Moved
<1> QED
  BY <1>10, <1>11, <1>12, <1>13, <1>14, <1>15, <1>16, <1>17 DEF Task

\* So does every callback: what the answer brought, the call keeps.
LEMMA CallbackMatch ==
  ASSUME TypeInv, TypeInv', ExpiredInv, MatchInv, Provisioned, failures = 0,
         NEW r \in Req, NEW a \in answers, Callback(r, a), NEW d \in DeviceId, call[r].dev = d
  PROVE  MatchInv'
<1> DEFINE o == registered[d]
<1>t. /\ registered \in [DeviceId -> Ref] /\ heap \in [Req -> Device] /\ call \in [Req -> Call]
      /\ lists \in [Req -> Seq(Req)]
      /\ a.kind \in MsgKind /\ a.id \in Req /\ a.id # None /\ None \notin Req
      /\ \A m \in sent \cup answers : m.req \in Req /\ m.kind \in MsgKind
  BY ConstantsAssumption DEF TypeInv, TypeOK, Answer, Message
<1>m. \A q, kind, id, attrs : /\ Msg(q, kind, id, attrs).req = q
                              /\ Msg(q, kind, id, attrs).kind = kind
  BY DEF Msg
<1>0. /\ a.req = r /\ answers' = answers \ {a}
      /\ registrations' = registrations /\ subscriptions' = subscriptions
  BY DEF Callback, OnRegistered, StoreDevice, OnRefused, Combine, OnUpdated, OnExpired,
         OnSubscribed, OnUnsubscribed, brokerVars
<1>1. DeviceInv(d) /\ RequestsInv(d) /\ StoredInv(d)
  BY DEF MatchInv, DeviceInv
<1>2. /\ \A m \in sent \cup answers : m.req = r => call[r].at \in AwaitedAt(m.kind)
      /\ \A m \in sent \cup answers :
           m.req = r /\ m.kind = "unsubscribe" => call[r].at = "unsubscribing"
  BY <1>1 DEF ExpiredInv, SerialInv, AtItsStage, RequestsInv
<1>3. /\ a.kind = "unsubscribe" => call[r].at = "unsubscribing"
      /\ a.kind = "register" => call[r].at \in {"registering", "updating"}
      /\ a.kind = "entity" => call[r].at \in {"creating", "combining"}
      /\ a.kind = "expire" => call[r].at = "expiring"
      /\ a.kind = "subscribe" => call[r].at = "subscribing"
  BY <1>0, <1>2 DEF AwaitedAt
<1>4. Busy(r) /\ BusyInv(r)
  <2>1. Busy(r)
    BY <1>t, <1>3 DEF Busy, Ended, MsgKind
  <2> QED
    BY <2>1, <1>1 DEF DeviceInv
<1>5. a.kind # "unsubscribe" =>
        /\ \A m \in sent \cup answers' : m.req # r
        /\ \A b \in answers : b.req = r => b = a
  <2>1. ASSUME a.kind # "unsubscribe", NEW m \in sent \cup answers, m.req = r
        PROVE  m.kind # "unsubscribe"
    BY <1>t, <1>2, <1>3, <2>1 DEF MsgKind
  <2> QED
    BY <1>0, <2>1 DEF ExpiredInv, SerialInv, OneAwaited, Single
<1>6. \A kind : /\ a.kind = kind /\ kind # "unsubscribe" => AnsweredIds(r, kind) = {a.id}
                /\ a.kind # kind /\ a.kind # "unsubscribe" => AnsweredIds(r, kind) = {}
  BY <1>0, <1>5 DEF AnsweredIds
<1>7. /\ a.result = "ok"
      /\ call[r].at \in {"registering", "subscribing"} => a.id = r
      /\ call[r].at \in {"updating", "expiring"} =>
           a.id = IF heap[call[r].old].registrationId = None THEN r
                                                             ELSE heap[call[r].old].registrationId
  <2>1. a.result = "ok"
    BY <1>0, <1>1 DEF RequestsInv
  <2>2. a.kind \in {"register", "expire", "subscribe"} =>
          a.id = IF Named(a) = None THEN a.req ELSE Named(a)
    BY <1>0, <1>1 DEF RequestsInv
  <2>3. /\ call[r].at \in {"registering", "subscribing"} => a.kind \in {"register", "subscribe"}
        /\ call[r].at = "updating" => a.kind = "register"
        /\ call[r].at = "expiring" => a.kind = "expire"
    BY <1>t, <1>3 DEF MsgKind
  <2>4. /\ call[r].at \in {"registering", "subscribing"} => Named(a) = None
        /\ call[r].at \in {"updating", "expiring"} => Named(a) = heap[call[r].old].registrationId
    BY <1>0, <2>3 DEF Named
  <2> QED
    BY <1>0, <2>1, <2>2, <2>3, <2>4
<1>8. /\ call[r].at \in HoldsNew => call[r].new = o /\ o # None
      /\ call[r].at \in HoldsOld \cup {"subscribing"} => call[r].old = o /\ o # None
      /\ o # None => o \in Req /\ o # r /\ call[o].at = "ok" /\ call[o].dev = d
  <2>1. ObjectsInv(r)
    BY <1>4 DEF BusyInv
  <2>2. o # None => o \in Req /\ call[o].at = "ok" /\ call[o].dev = d
    BY <1>1, <1>t DEF StoredInv, Ref, ExpiredInv, OwnInv
  <2>3. call[r].at # "ok"
    BY <1>4 DEF Busy, Ended
  <2>4. call[r].at \in HoldsNew => call[r].new # None
    BY ConstantsAssumption DEF TypeInv, Holding
  <2> QED
    BY <2>1, <2>2, <2>3, <2>4 DEF ObjectsInv
<1>9. ASSUME NEW stage \in Stage, call' = Move(r, stage)
      PROVE  /\ call'[r].op = call[r].op /\ call'[r].dev = d
             /\ call'[r].new = call[r].new /\ call'[r].old = call[r].old /\ call'[r].at = stage
             /\ \A q \in Req : q # r => call'[q] = call[q]
  BY <1>t, <1>9, MoveEffect DEF Move
<1>10. ASSUME registered'[d] = registered[d], lists' = lists,
              o # None => /\ heap'[o].registrationId = heap[o].registrationId
                          /\ heap'[o].subscriptions = heap[o].subscriptions
                          /\ heap'[o].lazy = heap[o].lazy,
              \A q \in Req : q # r => call'[q] = call[q]
       PROVE  /\ KnownRegistrations(d)' = KnownRegistrations(d)
              /\ KnownSubscriptions(d)' = KnownSubscriptions(d)
              /\ StoredInv(d)'
  <2>1. KnownRegistrations(d)' = KnownRegistrations(d)
    BY <1>10, SameKnown
  <2>2. KnownSubscriptions(d)' = KnownSubscriptions(d)
    BY <1>10, SameListed
  <2>3. StoredInv(d)'
    BY <1>1, <1>4, <1>10, SameStored DEF Busy, Ended
  <2> QED
    BY <2>1, <2>2, <2>3
<1>11. answers' \subseteq answers /\ \A b \in answers : b.req # r => b \in answers'
  BY <1>0
<1>12. registered[d] = o /\ ObjectsInv(r) /\ Kept(d) = BusyRegistrations(r) /\ SubscriptionsInv(r)
  BY <1>4 DEF BusyInv
<1>e. registrations' = registrations /\ subscriptions' = subscriptions
  BY <1>0
<1>a. a.kind # "unsubscribe" => \A m \in sent \cup answers' : m.req # r
  BY <1>5
<1>b. Busy(r)
  BY <1>4
<1> DEFINE N == {}
<1>c. \A m \in N : FALSE
  OBVIOUS
<1>d. sent = sent \cup N
  OBVIOUS
<1> HIDE DEF o, N
<1>13. CASE OnRegistered(r, a)
  <2> DEFINE M == {Msg(r, "entity", None, heap[r].active)}
  <2>1. /\ a.kind = "register" /\ call[r].at = "registering" /\ call' = Move(r, "creating")
        /\ sent' = sent \cup M /\ registered' = registered /\ lists' = lists
        /\ heap' = [heap EXCEPT ![r].registrationId = a.id]
    BY <1>13 DEF OnRegistered
  <2>2. "creating" \in Stage \ {"idle"}
    BY DEF Stage
  <2>3. \A m \in M : m.req = r /\ m.kind = "entity"
    BY <1>m
  <2> HIDE DEF M
  <2>4. /\ \A q \in Req : q # r => heap'[q] = heap[q]
        /\ heap'[r].registrationId = r /\ heap'[r].lazy = heap[r].lazy
        /\ heap'[r].subscriptions = heap[r].subscriptions
    BY <1>t, <1>7, <2>1 DEF Device
  <2>5. /\ call'[r].op = call[r].op /\ call'[r].dev = d /\ call'[r].at = "creating"
        /\ \A q \in Req : q # r => call'[q] = call[q]
    BY <1>9, <2>1, <2>2
  <2>6. ObjectsInv(r)'
    BY <1>8, <1>12, <2>1, <2>4, <2>5 DEF ObjectsInv, HoldsNew, HoldsOld
  <2>7. /\ KnownRegistrations(d)' = KnownRegistrations(d)
        /\ KnownSubscriptions(d)' = KnownSubscriptions(d)
        /\ StoredInv(d)'
    BY <1>8, <1>10, <2>1, <2>4, <2>5
  <2>8. /\ Kept(d) = KnownRegistrations(d) \cup {r}
        /\ LiveSubscriptions(d) = KnownSubscriptions(d)
    BY <1>6, <1>7, <1>12, <2>1 DEF BusyRegistrations, SubscriptionsInv
  <2>9. Kept(d) = KnownRegistrations(d)' \cup ({heap'[r].registrationId} \ {None})
    BY <1>t, <2>4, <2>7, <2>8
  <2>10. Busy(r)'
    BY <2>5 DEF Busy, Ended
  <2>11. StoredInv(d)' /\ LiveSubscriptions(d) = KnownSubscriptions(d)'
    BY <2>7, <2>8
  <2>12. /\ registered' = registered /\ lists' = lists /\ sent' = sent \cup M
         /\ \A m \in sent \cup answers' : m.req # r
    BY <1>a, <2>1
  <2>13. \A q \in Req : q # r => heap'[q] = heap[q]
    BY <2>4
  <2> QED
    BY <1>0, <1>b, <1>11, <2>3, <2>5, <2>6, <2>9, <2>10, <2>11, <2>12, <2>13, Moved
<1>14. CASE StoreDevice(r, a)
  <2>1. /\ a.kind = "entity" /\ call[r].at = "creating" /\ sent' = sent /\ heap' = heap
        /\ lists' = lists
    BY <1>14 DEF StoreDevice
  <2>2. /\ Kept(d) = KnownRegistrations(d) \cup ({heap[r].registrationId} \ {None})
        /\ LiveSubscriptions(d) = KnownSubscriptions(d)
    BY <1>6, <1>12, <2>1 DEF BusyRegistrations, SubscriptionsInv
  <2>3. /\ heap[r].subscriptions = None
        /\ heap[r].registrationId = None \/ (heap[r].registrationId = r /\ heap[r].lazy)
    BY <1>12, <2>1 DEF ObjectsInv
  <2>4. {"ok", "error"} \subseteq Stage \ {"idle"} /\ {"ok", "error"} \subseteq Ended
    BY DEF Stage, Ended
  <2>5. CASE registered[d] = None
    <3>1. call' = Move(r, "ok") /\ registered' = [registered EXCEPT ![d] = r]
      BY <1>14, <2>5 DEF StoreDevice, Storable
    <3>2. registered'[d] = r /\ \A e \in DeviceId : e # d => registered'[e] = registered[e]
      BY <1>t, <3>1
    <3>3. /\ call'[r].op = call[r].op /\ call'[r].dev = d /\ call'[r].at = "ok"
          /\ \A q \in Req : q # r => call'[q] = call[q]
      BY <1>9, <2>4, <3>1
    <3>4. StoredInv(d)'
      BY <1>t, <2>1, <2>3, <3>2, <3>3 DEF StoredInv
    <3>5. Kept(d) = KnownRegistrations(d)'
      BY <1>t, <2>1, <2>2, <2>5, <3>2 DEF KnownRegistrations
    <3>6. LiveSubscriptions(d) = KnownSubscriptions(d)'
      BY <1>t, <2>1, <2>2, <2>3, <2>5, <3>2 DEF KnownSubscriptions, ListOf
    <3>7. ~Busy(r)'
      BY <2>4, <3>3 DEF Busy
    <3> QED
      BY <1>0, <1>a, <1>b, <1>c, <1>d, <1>11, <2>1, <2>4, <3>2, <3>3, <3>4, <3>5, <3>6, <3>7, Moved
  <2>6. CASE registered[d] # None
    <3>1. call' = Move(r, "error") /\ registered' = registered
      BY <1>14, <2>6 DEF StoreDevice, Storable
    <3>2. /\ call'[r].op = "register" /\ call'[r].dev = d /\ call'[r].at = "error"
          /\ \A q \in Req : q # r => call'[q] = call[q]
      BY <1>4, <1>9, <2>1, <2>4, <3>1, BusyOps
    <3>3. ~Busy(r)'
      BY <2>4, <3>2 DEF Busy
    <3>4. /\ KnownRegistrations(d)' = KnownRegistrations(d)
          /\ KnownSubscriptions(d)' = KnownSubscriptions(d)
          /\ StoredInv(d)'
      BY <1>10, <2>1, <3>1, <3>2
    <3>5. r \notin KnownRegistrations(d)
      <4>1. call[r].at # "ok"
        BY <2>1
      <4> QED
        BY <1>1, <4>1 DEF KnownRegistrations, StoredInv
    <3>6. Kept(d)' = Kept(d) \ {r}
      <4>1. call[r].at # "error" /\ \A i \in registrations : i \in Req
        BY <2>1 DEF TypeInv, TypeOK
      <4>2. \A i : i \in Kept(d)' <=> i \in Kept(d) \ {r}
        BY <1>0, <3>2, <4>1, KeptMember
      <4> QED
        BY <4>2
    <3>7. LiveSubscriptions(d)' = LiveSubscriptions(d)
      <4>1. \A i \in subscriptions : i \in Req
        BY DEF TypeInv, TypeOK
      <4>2. \A i : i \in LiveSubscriptions(d)' <=> i \in LiveSubscriptions(d)
        BY <1>0, <3>2, <4>1, KeptMember
      <4> QED
        BY <4>2
    <3>8. Matches(d)'
      BY <2>2, <2>3, <3>4, <3>5, <3>6, <3>7 DEF Matches
    <3>9. RequestsInv(d)'
      <4>1. \A m \in sent' \cup answers' : call'[m.req].dev # d
        <5>1. \A m \in sent \cup answers : call[m.req].dev = d => m.req = r
          BY <1>1, <1>b, OnlyOwn
        <5>2. \A m \in sent' \cup answers' : m \in sent \cup answers' /\ m \in sent \cup answers
          BY <1>0, <2>1
        <5>3. \A m \in sent' \cup answers' : m.req \in Req /\ m.req # r
          BY <1>t, <1>a, <2>1, <5>2
        <5> QED
          BY <3>2, <5>1, <5>2, <5>3
      <4> QED
        BY <4>1 DEF RequestsInv
    <3>10. FreshInv'
      BY <1>0, <2>1, <2>4, <3>2 DEF MatchInv, FreshInv
    <3>11. \A q \in Req : q # r => call'[q] = call[q] /\ (call[q].dev = d => ~Busy(q))
      BY <1>4, <3>2 DEF ExpiredInv, SerialInv, OneAtATime
    <3> QED
      BY <1>0, <2>1, <3>1, <3>2, <3>3, <3>4, <3>8, <3>9, <3>10, <3>11, ActorKeeps
  <2> QED
    BY <2>5, <2>6
<1>15. CASE OnRefused(r, a)
  BY <1>7, <1>15 DEF OnRefused, Succeeded
<1>16. CASE Combine(r, a)
  <2>1. /\ a.kind = "entity" /\ call[r].at = "combining" /\ call' = Move(r, "update")
        /\ sent' = sent /\ registered' = registered /\ lists' = lists
        /\ call[r].old = o /\ call[r].new = o
        /\ heap' = [heap EXCEPT ![o].active = heap[o].active, ![o].lazy = heap[o].lazy]
    BY <1>8, <1>16 DEF Combine, HoldsNew, HoldsOld
  <2>2. "update" \in Stage \ {"idle"}
    BY DEF Stage
  <2>3. /\ \A q \in Req : q # o => heap'[q] = heap[q]
        /\ o \in Req => /\ heap'[o].registrationId = heap[o].registrationId
                       /\ heap'[o].subscriptions = heap[o].subscriptions
                       /\ heap'[o].lazy = heap[o].lazy
    BY <1>t, <2>1 DEF Device
  <2>4. /\ call'[r].op = call[r].op /\ call'[r].dev = d /\ call'[r].at = "update"
        /\ call'[r].old = o /\ call'[r].new = o
        /\ \A q \in Req : q # r => call'[q] = call[q]
    BY <1>9, <2>1, <2>2
  <2>5. o # None /\ o \in Req /\ o # r /\ call[o].dev = d
    BY <1>8, <2>1 DEF HoldsNew
  <2>6. ObjectsInv(r)'
    BY <1>12, <2>1, <2>4, <2>5 DEF ObjectsInv, HoldsNew, HoldsOld
  <2>7. /\ KnownRegistrations(d)' = KnownRegistrations(d)
        /\ KnownSubscriptions(d)' = KnownSubscriptions(d)
        /\ StoredInv(d)'
    BY <1>10, <2>1, <2>3, <2>4, <2>5
  <2>8. /\ Kept(d) = KnownRegistrations(d)
        /\ LiveSubscriptions(d) = KnownSubscriptions(d)
    BY <1>6, <1>12, <2>1 DEF BusyRegistrations, SubscriptionsInv
  <2>9. Busy(r)'
    BY <2>4 DEF Busy, Ended
  <2>10. /\ StoredInv(d)' /\ Kept(d) = KnownRegistrations(d)'
         /\ LiveSubscriptions(d) = KnownSubscriptions(d)'
    BY <2>7, <2>8
  <2>11. /\ sent' = sent \cup N /\ registered' = registered /\ lists' = lists
         /\ \A m \in sent \cup answers' : m.req # r
    BY <1>a, <1>d, <2>1
  <2>12. \A q \in Req : q # r /\ call[q].dev # d => heap'[q] = heap[q]
    BY <2>3, <2>5
  <2>13. /\ call'[r].op = call[r].op /\ call'[r].dev = d /\ call'[r].at = "update"
         /\ \A q \in Req : q # r => call'[q] = call[q]
    BY <2>4
  <2> QED
    BY <1>b, <1>c, <1>e, <1>11, <2>6, <2>9, <2>10, <2>11, <2>12, <2>13, Moved
<1>17. CASE OnUpdated(r, a)
  <2>1. /\ a.kind = "register" /\ call[r].at = "updating" /\ call' = Move(r, "replace")
        /\ sent' = sent /\ registered' = registered /\ lists' = lists
        /\ CloneWith(r, a.id)
    BY <1>17 DEF OnUpdated
  <2>2. /\ call[r].new = o /\ call[r].old = o /\ o # None /\ o \in Req /\ o # r
        /\ heap[o].lazy
    BY <1>8, <1>12, <2>1 DEF ObjectsInv, HoldsNew, HoldsOld
  <2>3. /\ \A q \in Req : q # r => heap'[q] = heap[q]
        /\ heap'[r].registrationId = a.id
        /\ heap'[r].subscriptions = heap[o].subscriptions /\ heap'[r].lazy
    BY <1>t, <2>1, <2>2 DEF CloneWith, Device
  <2>4. "replace" \in Stage \ {"idle"}
    BY DEF Stage
  <2>5. /\ call'[r].op = call[r].op /\ call'[r].dev = d /\ call'[r].at = "replace"
        /\ call'[r].new = o /\ call'[r].old = o
        /\ \A q \in Req : q # r => call'[q] = call[q]
    BY <1>9, <2>1, <2>2, <2>4
  <2>6. a.id = IF heap[o].registrationId = None THEN r ELSE heap[o].registrationId
    BY <1>7, <2>1, <2>2
  <2>7. a.id # r => call[a.id].at = "ok"
    BY <1>1, <1>12, <2>2, <2>6 DEF StoredInv
  <2>8. ObjectsInv(r)'
    BY <1>t, <1>12, <2>1, <2>2, <2>3, <2>5, <2>7 DEF ObjectsInv, HoldsNew, HoldsOld
  <2>9. /\ KnownRegistrations(d)' = KnownRegistrations(d)
        /\ KnownSubscriptions(d)' = KnownSubscriptions(d)
        /\ StoredInv(d)'
    BY <1>10, <2>1, <2>2, <2>3, <2>5
  <2>10. /\ Kept(d) = KnownRegistrations(d) \cup {a.id}
         /\ LiveSubscriptions(d) = KnownSubscriptions(d)
    BY <1>6, <1>12, <2>1 DEF BusyRegistrations, SubscriptionsInv
  <2>11. Kept(d) = {heap'[r].registrationId} \ {None}
    BY <1>t, <1>12, <2>2, <2>3, <2>6, <2>10 DEF KnownRegistrations
  <2>12. Busy(r)'
    BY <2>5 DEF Busy, Ended
  <2>13. StoredInv(d)' /\ LiveSubscriptions(d) = KnownSubscriptions(d)'
    BY <2>9, <2>10
  <2>14. /\ sent' = sent \cup N /\ registered' = registered /\ lists' = lists
         /\ \A m \in sent \cup answers' : m.req # r
    BY <1>a, <1>d, <2>1
  <2>15. \A q \in Req : q # r => heap'[q] = heap[q]
    BY <2>3
  <2>16. /\ call'[r].op = call[r].op /\ call'[r].dev = d /\ call'[r].at = "replace"
         /\ \A q \in Req : q # r => call'[q] = call[q]
    BY <2>5
  <2> QED
    BY <1>b, <1>c, <1>e, <1>11, <2>8, <2>11, <2>12, <2>13, <2>14, <2>15, <2>16, Moved
<1>18. CASE OnExpired(r, a)
  <2>1. /\ a.kind = "expire" /\ call[r].at = "expiring" /\ call' = Move(r, "ok")
        /\ sent' = sent /\ heap' = heap /\ lists' = lists
        /\ registered' = [registered EXCEPT ![d] = None]
    BY <1>18 DEF OnExpired, Remove
  <2>2. "ok" \in Stage \ {"idle"} /\ "ok" \in Ended
    BY DEF Stage, Ended
  <2>3. registered'[d] = None /\ \A e \in DeviceId : e # d => registered'[e] = registered[e]
    BY <1>t, <2>1
  <2>4. /\ call'[r].op = call[r].op /\ call'[r].dev = d /\ call'[r].at = "ok"
        /\ \A q \in Req : q # r => call'[q] = call[q]
    BY <1>9, <2>1, <2>2
  <2>5. StoredInv(d)'
    BY <2>3 DEF StoredInv
  <2>6. /\ Kept(d) = KnownRegistrations(d) \ {a.id}
        /\ LiveSubscriptions(d) = {}
    BY <1>6, <1>12, <2>1 DEF BusyRegistrations, SubscriptionsInv
  <2>7. heap[o].registrationId # None => a.id = heap[o].registrationId
    BY <1>7, <1>8, <2>1 DEF HoldsOld
  <2>8. Kept(d) = KnownRegistrations(d)'
    BY <1>12, <2>3, <2>6, <2>7 DEF KnownRegistrations
  <2>9. LiveSubscriptions(d) = KnownSubscriptions(d)'
    BY <2>3, <2>6 DEF KnownSubscriptions
  <2>10. ~Busy(r)'
    BY <2>2, <2>4 DEF Busy
  <2> QED
    BY <1>0, <1>a, <1>b, <1>c, <1>d, <1>11, <2>1, <2>2, <2>3, <2>4, <2>5, <2>8, <2>9, <2>10, Moved
<1>19. CASE OnSubscribed(r, a)
  <2> DEFINE l == IF heap[o].subscriptions = None THEN r ELSE heap[o].subscriptions
  <2>1. /\ a.kind = "subscribe" /\ call[r].at = "subscribing" /\ sent' = sent
        /\ call[r].old = o /\ o \in Req /\ o # None /\ o # r /\ call[o].dev = d
    BY <1>3, <1>8, <1>19 DEF OnSubscribed
  <2>2. /\ call' = Move(r, "ok")
        /\ heap' = [heap EXCEPT ![o].subscriptions = l]
        /\ lists' = [lists EXCEPT ![l] = Append(@, r)]
        /\ registered' = [registered EXCEPT ![d] = o]
    BY <1>7, <1>19, <2>1 DEF OnSubscribed, PassedOn
  <2>3. "ok" \in Stage \ {"idle"} /\ "ok" \in Ended
    BY DEF Stage, Ended
  <2>4. registered'[d] = o /\ \A e \in DeviceId : registered'[e] = registered[e]
    BY <1>t, <1>12, <2>2
  <2>5. /\ call'[r].op = call[r].op /\ call'[r].dev = d /\ call'[r].at = "ok"
        /\ \A q \in Req : q # r => call'[q] = call[q]
    BY <1>9, <2>2, <2>3
  <2>6. l \in Req /\ l # None /\ call'[l].at = "ok" /\ call'[l].dev = d
    <3>1. CASE heap[o].subscriptions = None
      BY <1>t, <2>5, <3>1
    <3>2. CASE heap[o].subscriptions # None
      <4>1. l \in Req
        BY <1>t, <2>1, <3>2 DEF Device, Ref
      <4>2. call[l].at = "ok" /\ call[l].dev = d
        BY <1>1, <1>12, <2>1, <3>2 DEF StoredInv
      <4> QED
        BY <2>5, <3>2, <4>1, <4>2
    <3> QED
      BY <3>1, <3>2
  <2>7. /\ \A q \in Req : q # o => heap'[q] = heap[q]
        /\ heap'[o].registrationId = heap[o].registrationId
        /\ heap'[o].lazy = heap[o].lazy
        /\ heap'[o].subscriptions = l
    BY <1>t, <2>1, <2>2 DEF Device
  <2>8. lists'[l] = Append(ListOf(o), r) /\ ListOf(o) \in Seq(Req)
    <3>1. lists'[l] = Append(lists[l], r)
      BY <1>t, <2>2, <2>6
    <3>2. CASE heap[o].subscriptions = None
      <4>1. lists[r] = <<>>
        BY <2>1 DEF MatchInv, FreshInv, Ended
      <4>2. l = r /\ ListOf(o) = lists[r]
        BY <3>2, <4>1 DEF ListOf
      <4> QED
        BY <1>t, <3>1, <4>2
    <3>3. CASE heap[o].subscriptions # None
      BY <1>t, <2>6, <3>1, <3>3 DEF ListOf
    <3> QED
      BY <3>2, <3>3
  <2> HIDE DEF l
  <2>9. KnownSubscriptions(d)' = KnownSubscriptions(d) \cup {r}
    <3> DEFINE s == ListOf(o)
    <3>1. KnownSubscriptions(d) = {s[i] : i \in DOMAIN s}
      BY <1>12, <2>1 DEF KnownSubscriptions
    <3>2. KnownSubscriptions(d)' = {Append(s, r)[i] : i \in DOMAIN Append(s, r)}
      BY <2>1, <2>4, <2>6, <2>7, <2>8 DEF KnownSubscriptions, ListOf
    <3>3. s \in Seq(Req)
      BY <2>8
    <3> HIDE DEF s
    <3>4. /\ Len(s) \in Nat /\ DOMAIN s = 1..Len(s)
          /\ DOMAIN Append(s, r) = 1..(Len(s) + 1)
          /\ \A i \in 1..Len(s) : Append(s, r)[i] = s[i]
          /\ Append(s, r)[Len(s) + 1] = r
      BY <3>3
    <3> QED
      BY <3>1, <3>2, <3>4
  <2>10. KnownRegistrations(d)' = KnownRegistrations(d)
    BY <1>12, <2>1, <2>4, <2>7 DEF KnownRegistrations
  <2>11. StoredInv(d)'
    <3>1. heap[o].registrationId # None =>
            heap[o].registrationId \in Req /\ call[heap[o].registrationId].at = "ok" /\ heap[o].lazy
      BY <1>1, <1>12, <1>t, <2>1 DEF StoredInv, Device, Ref
    <3>2. call[o].at = "ok"
      BY <1>8, <2>1
    <3> QED
      BY <2>1, <2>4, <2>5, <2>6, <2>7, <3>1, <3>2 DEF StoredInv
  <2>12. /\ Kept(d) = KnownRegistrations(d)
         /\ LiveSubscriptions(d) = KnownSubscriptions(d) \cup {a.id}
    BY <1>6, <1>12, <2>1 DEF BusyRegistrations, SubscriptionsInv
  <2>13. /\ Kept(d) = KnownRegistrations(d)' /\ LiveSubscriptions(d) = KnownSubscriptions(d)'
         /\ ~Busy(r)'
    BY <1>7, <2>1, <2>3, <2>5, <2>9, <2>10, <2>12 DEF Busy
  <2>14. \A q \in Req : q # l => lists'[q] = lists[q]
    BY <1>t, <2>2, <2>6
  <2>15. /\ \A q \in Req : lists'[q] = lists[q] \/ call'[q].at \in Ended
         /\ \A q \in Req : q # r /\ call[q].dev # d => heap'[q] = heap[q] /\ lists'[q] = lists[q]
    BY <2>1, <2>3, <2>5, <2>6, <2>7, <2>14
  <2>16. /\ sent' = sent \cup N
         /\ \A m \in sent \cup answers' : m.req # r
    BY <1>a, <1>d, <2>1
  <2> QED
    BY <1>0, <1>b, <1>c, <1>11, <2>4, <2>5, <2>11, <2>13, <2>15, <2>16, Moved
<1>20. CASE OnUnsubscribed(r, a)
  <2>1. /\ a.kind = "unsubscribe" /\ call[r].at = "unsubscribing" /\ sent' = sent /\ heap' = heap
        /\ call[r].old = o /\ o \in Req /\ o # None /\ o # r /\ call[o].dev = d
        /\ call[r].op = "unregister"
    BY <1>3, <1>8, <1>20, <1>b, BusyOps DEF OnUnsubscribed, HoldsOld
  <2>2. /\ call' = Move(r, AfterUnsubscription(r, a))
        /\ lists' = [lists EXCEPT ![heap[o].subscriptions] = Splice(@)]
        /\ registered' = [registered EXCEPT ![d] = o]
    BY <1>7, <1>20, <2>1 DEF OnUnsubscribed
  <2>3. registered' = registered
    BY <1>t, <1>12, <2>2
  <2>4. heap[o].subscriptions # None =>
          /\ heap[o].subscriptions \in Req
          /\ call[heap[o].subscriptions].at = "ok" /\ call[heap[o].subscriptions].dev = d
    BY <1>1, <1>12, <1>t, <2>1 DEF StoredInv, Device, Ref
  <2>5. \A q \in Req : q # heap[o].subscriptions => lists'[q] = lists[q]
    BY <1>t, <2>2
  <2>6. /\ \A q \in Req : q # r /\ call[q].dev # d => heap'[q] = heap[q] /\ lists'[q] = lists[q]
        /\ heap[o].subscriptions # r
        /\ \A q \in Req : lists'[q] = lists[q] \/ call[q].at = "ok"
    BY <1>t, <2>1, <2>4, <2>5
  <2>7. /\ Kept(d) = KnownRegistrations(d) \cup AnsweredIds(r, "register")
        /\ \A i \in LiveSubscriptions(d) :
              \E m \in sent : m.req = r /\ m.kind = "unsubscribe" /\ m.id = i
    BY <1>12, <2>1 DEF BusyRegistrations, SubscriptionsInv
  <2>8. AnsweredIds(r, "register") = {}
    BY <1>2, <2>1 DEF AnsweredIds, AwaitedAt
  <2>9. KnownRegistrations(d)' = KnownRegistrations(d)
    BY <2>1, <2>3, SameKnown
  <2>10. "expire" \in Stage /\ "unsubscribing" \in Stage /\ {"expire", "unsubscribing"} \cap Ended = {}
    BY DEF Stage, Ended
  <2>11. ASSUME NEW stage \in {"expire", "unsubscribing"}, call' = Move(r, stage)
         PROVE  /\ call'[r].op = call[r].op /\ call'[r].dev = d /\ call'[r].at = stage
                /\ call'[r].old = o
                /\ \A q \in Req : q # r => call'[q] = call[q]
                /\ Busy(r)' /\ StoredInv(d)'
    <3>1. /\ call'[r].op = call[r].op /\ call'[r].dev = d /\ call'[r].at = stage
          /\ call'[r].old = o
          /\ \A q \in Req : q # r => call'[q] = call[q]
      BY <1>9, <2>1, <2>10, <2>11
    <3>2. Busy(r)'
      BY <2>10, <3>1 DEF Busy
    <3>3. StoredInv(d)'
      BY <1>1, <2>1, <2>3, <3>1, SameStored
    <3> QED
      BY <3>1, <3>2, <3>3
  <2>12. CASE \E m \in sent \cup (answers \ {a}) : m.req = r
    <3>1. call' = Move(r, "unsubscribing")
      BY <1>7, <2>1, <2>2, <2>12 DEF AfterUnsubscription, PassedOn
    <3>2. /\ call'[r].op = call[r].op /\ call'[r].dev = d /\ call'[r].at = "unsubscribing"
          /\ call'[r].old = o
          /\ \A q \in Req : q # r => call'[q] = call[q]
          /\ Busy(r)' /\ StoredInv(d)'
      BY <2>11, <3>1
    <3>3. ObjectsInv(r)'
      BY <1>12, <2>1, <2>3, <3>2 DEF ObjectsInv, HoldsNew, HoldsOld
    <3>4. Kept(d)' = Kept(d)
      <4>1. \A i \in registrations : i \in Req
        BY DEF TypeInv, TypeOK
      <4>2. \A i : i \in Kept(d)' <=> i \in Kept(d)
        BY <1>0, <2>1, <3>2, <4>1, KeptMember
      <4> QED
        BY <4>2
    <3>5. LiveSubscriptions(d)' = LiveSubscriptions(d)
      <4>1. \A i \in subscriptions : i \in Req
        BY DEF TypeInv, TypeOK
      <4>2. \A i : i \in LiveSubscriptions(d)' <=> i \in LiveSubscriptions(d)
        BY <1>0, <3>2, <4>1, KeptMember
      <4> QED
        BY <4>2
    <3>6. AnsweredIds(r, "register")' = {}
      BY <1>0, <2>8 DEF AnsweredIds
    <3>7. (Kept(call[r].dev) = BusyRegistrations(r))'
      BY <2>7, <2>8, <2>9, <3>2, <3>4, <3>6 DEF BusyRegistrations
    <3>8. SubscriptionsInv(r)'
      BY <2>1, <2>7, <3>2, <3>5 DEF SubscriptionsInv
    <3>9. BusyInv(r)'
      BY <3>3, <3>7, <3>8 DEF BusyInv
    <3>10. RequestsInv(d)'
      <4>1. \A m \in sent' \cup answers' : m \in sent \cup answers /\ m.req \in Req
        BY <1>0, <1>t, <2>1
      <4>2. \A m \in sent \cup answers : call[m.req].dev = d => m.req = r
        BY <1>1, <1>b, OnlyOwn
      <4>3. \A m \in sent \cup answers : m.req = r => m.kind = "unsubscribe"
        BY <1>2, <1>t, <2>1 DEF AwaitedAt, MsgKind
      <4>4. \A m \in sent' \cup answers' : call'[m.req].dev = d => m.req = r /\ m.kind = "unsubscribe"
        BY <3>2, <4>1, <4>2, <4>3
      <4>5. \A b \in answers' : b \in answers /\ (b.req = r => b.result = "ok")
        BY <1>0, <1>1 DEF RequestsInv
      <4>6. \A m \in sent : m.req = r /\ m.kind = "unsubscribe" => m.id \in Req /\ call[m.id].dev = d
        BY <1>1 DEF RequestsInv
      <4> QED
        BY <2>1, <3>2, <4>4, <4>5, <4>6 DEF RequestsInv
    <3>11. FreshInv'
      BY <1>0, <2>1, <2>6, <3>2 DEF MatchInv, FreshInv, Ended
    <3>12. \A q \in Req : q # r => call'[q] = call[q] /\ (call[q].dev = d => ~Busy(q))
      BY <1>b, <3>2 DEF ExpiredInv, SerialInv, OneAtATime
    <3> QED
      BY <1>0, <2>1, <2>3, <2>6, <3>2, <3>9, <3>10, <3>11, <3>12, ActorKeeps
  <2>13. CASE \A m \in sent \cup (answers \ {a}) : m.req # r
    <3>1. call' = Move(r, "expire")
      BY <1>7, <2>1, <2>2, <2>13 DEF AfterUnsubscription, PassedOn
    <3>2. /\ call'[r].op = call[r].op /\ call'[r].dev = d /\ call'[r].at = "expire"
          /\ call'[r].old = o
          /\ \A q \in Req : q # r => call'[q] = call[q]
          /\ Busy(r)' /\ StoredInv(d)'
      BY <2>11, <3>1
    <3>3. ObjectsInv(r)'
      BY <1>12, <2>1, <2>3, <3>2 DEF ObjectsInv, HoldsNew, HoldsOld
    <3>4. Kept(d) = KnownRegistrations(d)' /\ LiveSubscriptions(d) = {}
      BY <2>7, <2>8, <2>9, <2>13
    <3>5. \A q \in Req : lists'[q] = lists[q] \/ call'[q].at \in Ended
      BY <2>1, <2>6, <3>2 DEF Ended
    <3>6. /\ sent' = sent \cup N /\ registered' = registered
          /\ \A m \in sent \cup answers' : m.req # r
      BY <1>0, <1>d, <2>1, <2>3, <2>13
    <3> QED
      BY <1>0, <1>b, <1>c, <1>11, <2>6, <3>2, <3>3, <3>4, <3>5, <3>6, Moved
  <2> QED
    BY <2>12, <2>13
<1> QED
  BY <1>13, <1>14, <1>15, <1>16, <1>17, <1>18, <1>19, <1>20 DEF Callback

\* While nothing has failed, the Context Broker accepts what it is asked: the
\* registration that a request names is there.
LEMMA BrokerMatch ==
  ASSUME TypeInv, TypeInv', ExpiredInv, MatchInv, failures = 0, failures' = 0,
         NEW m \in sent, BrokerAccepts(m) \/ BrokerFails(m),
         NEW r \in Req, m.req = r, NEW d \in DeviceId, call[r].dev = d
  PROVE  MatchInv'
<1> DEFINE o == registered[d]
           a == [req |-> m.req, kind |-> m.kind, id |-> IdOf(m), result |-> "ok"]
<1>t. /\ registered \in [DeviceId -> Ref] /\ heap \in [Req -> Device] /\ call \in [Req -> Call]
      /\ None \notin Req \cup DeviceId
      /\ \A n \in sent \cup answers : n.req \in Req /\ n.kind \in MsgKind
      /\ m.id \in Ref /\ IdOf(m) \in Req
      /\ registrations \cup subscriptions \cup registrations' \cup subscriptions' \subseteq Req
  <2>1. m.id \in Ref /\ m.req \in Req
    BY DEF TypeInv, TypeOK, Message
  <2>2. IdOf(m) \in Req
    BY <2>1 DEF IdOf, Ref
  <2> QED
    BY <2>1, <2>2, ConstantsAssumption DEF TypeInv, TypeOK, Message, Answer
<1>1. DeviceInv(d) /\ RequestsInv(d) /\ StoredInv(d)
  BY DEF MatchInv, DeviceInv
<1>2. /\ m.kind = "unsubscribe" => call[r].at = "unsubscribing"
      /\ m.kind = "register" => call[r].at \in {"registering", "updating"}
      /\ m.kind = "entity" => call[r].at \in {"creating", "combining"}
      /\ m.kind = "expire" => call[r].at = "expiring"
      /\ m.kind = "subscribe" => call[r].at = "subscribing"
  <2>1. call[r].at \in AwaitedAt(m.kind)
    BY DEF ExpiredInv, SerialInv, AtItsStage
  <2>2. m.kind = "unsubscribe" => call[r].at = "unsubscribing"
    BY <1>1 DEF RequestsInv
  <2> QED
    BY <2>1, <2>2 DEF AwaitedAt
<1>3. Busy(r) /\ BusyInv(r)
  <2>1. Busy(r)
    BY <1>t, <1>2 DEF Busy, Ended, MsgKind
  <2> QED
    BY <2>1, <1>1 DEF DeviceInv
<1>4. /\ ObjectsInv(r) /\ Kept(d) = BusyRegistrations(r) /\ SubscriptionsInv(r)
      /\ call[r].at \in {"updating", "expiring"} => call[r].old = o /\ o # None
      /\ o # None => /\ o \in Req /\ call[o].dev = d
                     /\ heap[o].registrationId # None =>
                          /\ heap[o].registrationId \in Req
                          /\ call[heap[o].registrationId].dev = d
                          /\ call[heap[o].registrationId].at = "ok"
  <2>1. ObjectsInv(r) /\ Kept(d) = BusyRegistrations(r) /\ SubscriptionsInv(r)
    BY <1>3 DEF BusyInv
  <2>2. call[r].at \in {"updating", "expiring"} => call[r].old = o /\ o # None
    BY <2>1 DEF ObjectsInv, HoldsOld
  <2>3. o # None => /\ o \in Req /\ call[o].dev = d
                    /\ heap[o].registrationId # None =>
                          /\ heap[o].registrationId \in Req
                          /\ call[heap[o].registrationId].dev = d
                          /\ call[heap[o].registrationId].at = "ok"
    BY <1>1, StoredOwn DEF StoredInv
  <2> QED
    BY <2>1, <2>2, <2>3
<1>5. /\ m.kind \in {"register", "subscribe"} /\ call[r].at # "updating" =>
           m.id = None /\ IdOf(m) = r
      /\ m.kind = "register" /\ call[r].at = "updating" => m.id = heap[o].registrationId
      /\ m.kind = "expire" => m.id = heap[o].registrationId
  BY <1>1, <1>2, <1>4 DEF RequestsInv, Named, IdOf
<1>6. BrokerAnswers(m, "ok") /\ Effect(m)
  <2>1. CASE BrokerAccepts(m)
    BY <2>1 DEF BrokerAccepts
  <2>2. CASE BrokerFails(m)
    <3>1. m.kind = "register" /\ m.id # None /\ m.id \notin registrations
      BY <2>2, ConstantsAssumption DEF BrokerFails, MayFail
    <3>2. call[r].at = "updating" /\ m.id = heap[o].registrationId
      BY <1>2, <1>5, <3>1
    <3>3. m.id \in KnownRegistrations(d)
      BY <1>4, <3>1, <3>2 DEF KnownRegistrations
    <3>4. m.id \in Kept(d)
      BY <1>4, <3>2, <3>3 DEF BusyRegistrations
    <3> QED
      BY <3>1, <3>4, KeptMember
  <2> QED
    BY <2>1, <2>2
<1>7. /\ sent' = sent \ {m} /\ answers' = answers \cup {a}
      /\ registered' = registered /\ heap' = heap /\ lists' = lists /\ call' = call
  BY <1>6 DEF BrokerAnswers, agentVars
<1>8. a.req = r /\ a.kind = m.kind /\ a.id = IdOf(m) /\ a.result = "ok"
  OBVIOUS
<1> HIDE DEF a
<1>9. /\ KnownRegistrations(d)' = KnownRegistrations(d)
      /\ KnownSubscriptions(d)' = KnownSubscriptions(d)
      /\ StoredInv(d)' /\ ObjectsInv(r)'
  BY <1>1, <1>4, <1>7 DEF KnownRegistrations, KnownSubscriptions, ListOf, StoredInv, ObjectsInv
<1>10. \A kind : AnsweredIds(r, kind)' =
                   AnsweredIds(r, kind) \cup (IF m.kind = kind THEN {IdOf(m)} ELSE {})
  BY <1>7, <1>8 DEF AnsweredIds
<1>11. RequestsInv(d)'
  <2>1. Named(a) = Named(m) /\ \A n : Named(n)' = Named(n)
    BY <1>7, <1>8 DEF Named
  <2>2. \A n \in sent' : n \in sent
    BY <1>7
  <2>3. \A n \in sent' \cup answers' :
          call'[n.req].dev = d /\ n.kind = "unsubscribe" => call'[n.req].at = "unsubscribing"
    BY <1>1, <1>2, <1>7, <1>8 DEF RequestsInv
  <2>4. \A n \in sent' :
          call'[n.req].dev = d /\ n.kind = "unsubscribe" => n.id \in Req /\ call'[n.id].dev = d
    BY <1>1, <1>7, <2>2 DEF RequestsInv
  <2>5. \A n \in sent' :
          call'[n.req].dev = d /\ n.kind \in {"register", "expire", "subscribe"} => n.id = Named(n)'
    BY <1>1, <1>7, <2>1, <2>2 DEF RequestsInv
  <2>6. a.kind \in {"register", "expire", "subscribe"} =>
          a.id = IF Named(a) = None THEN a.req ELSE Named(a)
    BY <1>1, <1>8, <2>1 DEF RequestsInv, IdOf
  <2>7. \A b \in answers' : call'[b.req].dev = d =>
          /\ b.result = "ok"
          /\ b.kind \in {"register", "expire", "subscribe"} =>
               b.id = IF Named(b)' = None THEN b.req ELSE Named(b)'
    BY <1>1, <1>7, <1>8, <2>1, <2>6 DEF RequestsInv
  <2> QED
    BY <2>3, <2>4, <2>5, <2>7 DEF RequestsInv
<1>12. call[IdOf(m)].dev = d \/ m.kind \in {"entity", "subscribe", "unsubscribe"}
  <2> SUFFICES ASSUME m.kind \in {"register", "expire"} PROVE call[IdOf(m)].dev = d
    BY <1>t DEF MsgKind
  <2>1. CASE m.id = None
    BY <2>1 DEF IdOf
  <2>2. CASE m.id # None
    <3>1. call[r].at \in {"updating", "expiring"} /\ m.id = heap[o].registrationId
      BY <1>2, <1>5, <2>2
    <3>2. call[m.id].dev = d
      BY <1>4, <2>2, <3>1
    <3> QED
      BY <2>2, <3>2 DEF IdOf
  <2> QED
    BY <2>1, <2>2
<1>13. \A i \in Req : call[i].dev # d =>
         /\ i \in registrations' <=> i \in registrations
         /\ i \in subscriptions' <=> i \in subscriptions
  <2>1. m.kind = "unsubscribe" => m.id \in Req /\ call[m.id].dev = d
    BY <1>1 DEF RequestsInv
  <2>2. m.kind = "expire" => m.id = None \/ call[m.id].dev = d
    BY <1>2, <1>4, <1>5
  <2> QED
    BY <1>6, <1>12, <1>t, <2>1, <2>2 DEF Effect
<1>14. \A kind : kind \in {"register", "expire", "entity", "subscribe", "unsubscribe"} /\ m.kind # kind
         => AnsweredIds(r, kind)' = AnsweredIds(r, kind)
  BY <1>10
<1>15. (Kept(call[r].dev) = BusyRegistrations(r))'
  <2>1. Kept(d)' = BusyRegistrations(r)'
    <3>1. CASE m.kind = "register"
      <4>1. registrations' = registrations \cup {IdOf(m)}
        BY <1>6, <3>1 DEF Effect
      <4>2. /\ call[IdOf(m)].dev = d
            /\ ~(call[IdOf(m)].op = "register" /\ call[IdOf(m)].at = "error")
        BY <1>2, <1>4, <1>5, <1>12, <1>t, <3>1 DEF IdOf
      <4>3. \A i : i \in Kept(d)' <=> i \in Kept(d) \cup {IdOf(m)}
        BY <1>7, <4>1, <4>2, KeptMember
      <4>4. AnsweredIds(r, "register")' = AnsweredIds(r, "register") \cup {IdOf(m)}
        BY <1>10, <3>1
      <4>5. Kept(d) = KnownRegistrations(d) \cup AnsweredIds(r, "register")
        BY <1>2, <1>4, <3>1 DEF BusyRegistrations
      <4>6. BusyRegistrations(r)' = KnownRegistrations(d) \cup AnsweredIds(r, "register")'
        BY <1>2, <1>7, <1>9, <3>1 DEF BusyRegistrations
      <4> QED
        BY <4>3, <4>4, <4>5, <4>6
    <3>2. CASE m.kind = "expire"
      <4>1. registrations' = registrations \ {m.id}
        BY <1>6, <3>2 DEF Effect
      <4>2. \A i : i \in Kept(d)' <=> i \in Kept(d) \ {m.id}
        BY <1>7, <4>1, KeptMember
      <4>3. AnsweredIds(r, "expire")' = AnsweredIds(r, "expire") \cup {IdOf(m)}
        BY <1>10, <3>2
      <4>4. Kept(d) = KnownRegistrations(d) \ AnsweredIds(r, "expire")
        BY <1>2, <1>4, <3>2 DEF BusyRegistrations
      <4>5. BusyRegistrations(r)' = KnownRegistrations(d) \ AnsweredIds(r, "expire")'
        BY <1>2, <1>7, <1>9, <3>2 DEF BusyRegistrations
      <4>6. m.id = None => KnownRegistrations(d) = {}
        BY <1>5, <3>2 DEF KnownRegistrations
      <4>7. m.id # None => IdOf(m) = m.id
        BY DEF IdOf
      <4> QED
        BY <4>2, <4>3, <4>4, <4>5, <4>6, <4>7
    <3>3. CASE m.kind \notin {"register", "expire"}
      <4>1. registrations' = registrations
        BY <1>6, <3>3 DEF Effect
      <4>2. \A i : i \in Kept(d)' <=> i \in Kept(d)
        BY <1>7, <4>1, KeptMember
      <4>3. /\ AnsweredIds(r, "expire")' = AnsweredIds(r, "expire")
            /\ AnsweredIds(r, "register")' = AnsweredIds(r, "register")
        BY <1>14, <3>3
      <4>4. BusyRegistrations(r)' = BusyRegistrations(r)
        BY <1>7, <1>9, <4>3 DEF BusyRegistrations
      <4> QED
        BY <1>4, <4>2, <4>4
    <3> QED
      BY <3>1, <3>2, <3>3
  <2> QED
    BY <1>7, <2>1
<1>16. SubscriptionsInv(r)'
  <2>1. CASE m.kind = "subscribe"
    <3>1. subscriptions' = subscriptions \cup {r} /\ call[r].at = "subscribing" /\ IdOf(m) = r
      BY <1>2, <1>5, <1>6, <2>1 DEF Effect
    <3>2. \A i : i \in LiveSubscriptions(d)' <=> i \in LiveSubscriptions(d) \cup {r}
      BY <1>7, <3>1, KeptMember
    <3>3. AnsweredIds(r, "subscribe")' = AnsweredIds(r, "subscribe") \cup {r}
      BY <1>10, <2>1, <3>1
    <3>4. LiveSubscriptions(d) = KnownSubscriptions(d) \cup AnsweredIds(r, "subscribe")
      BY <1>4, <3>1 DEF SubscriptionsInv
    <3>5. LiveSubscriptions(d)' = KnownSubscriptions(d)' \cup AnsweredIds(r, "subscribe")'
      BY <1>9, <3>2, <3>3, <3>4
    <3> QED
      BY <1>7, <3>1, <3>5 DEF SubscriptionsInv
  <2>2. CASE m.kind = "unsubscribe"
    <3>1. subscriptions' = subscriptions \ {m.id} /\ call[r].at = "unsubscribing"
      BY <1>2, <1>6, <2>2 DEF Effect
    <3>2. \A i : i \in LiveSubscriptions(d)' <=> i \in LiveSubscriptions(d) \ {m.id}
      BY <1>7, <3>1, KeptMember
    <3>3. \A i \in LiveSubscriptions(d) :
            \E n \in sent : n.req = r /\ n.kind = "unsubscribe" /\ n.id = i
      BY <1>4, <3>1 DEF SubscriptionsInv
    <3>4. \A i \in LiveSubscriptions(d)' :
            \E n \in sent' : n.req = r /\ n.kind = "unsubscribe" /\ n.id = i
      BY <1>7, <3>2, <3>3
    <3> QED
      BY <1>7, <3>1, <3>4 DEF SubscriptionsInv
  <2>3. CASE m.kind \notin {"subscribe", "unsubscribe"}
    <3>1. subscriptions' = subscriptions /\ call[r].at # "unsubscribing"
      BY <1>2, <1>6, <1>t, <2>3 DEF Effect, MsgKind
    <3>2. \A i : i \in LiveSubscriptions(d)' <=> i \in LiveSubscriptions(d)
      BY <1>7, <3>1, KeptMember
    <3>3. LiveSubscriptions(d)' = LiveSubscriptions(d)
      BY <3>2
    <3>4. AnsweredIds(r, "subscribe")' = AnsweredIds(r, "subscribe")
      BY <1>14, <2>3
    <3> QED
      BY <1>4, <1>7, <1>9, <3>1, <3>3, <3>4 DEF SubscriptionsInv
  <2> QED
    BY <2>1, <2>2, <2>3
<1>17. FreshInv'
  <2>1. \A q \in Req : call[q].at = "idle" => call[q].dev # d
    BY <1>t DEF ExpiredInv, SerialInv, Began, NoCall
  <2> QED
    BY <1>7, <1>13, <2>1 DEF MatchInv, FreshInv
<1>18. \A q \in Req : q # r => call'[q] = call[q] /\ (call[q].dev = d => ~Busy(q))
  BY <1>3, <1>7 DEF ExpiredInv, SerialInv, OneAtATime
<1>19. Busy(r)' => BusyInv(r)'
  BY <1>9, <1>15, <1>16 DEF BusyInv
<1>20. Busy(r)'
  BY <1>3, <1>7 DEF Busy
<1>21. /\ \A n \in sent \cup sent' : n.req # r => (n \in sent <=> n \in sent')
       /\ \A b \in answers \cup answers' : b.req # r => (b \in answers <=> b \in answers')
  BY <1>7, <1>8
<1> QED
  BY <1>7, <1>9, <1>11, <1>13, <1>17, <1>18, <1>19, <1>20, <1>21, ActorKeeps

\* A call that is made asks for what it awaits about a device that was quiet.
LEMMA Begun ==
  ASSUME TypeInv, TypeInv', ExpiredInv, MatchInv, failures = 0,
         NEW r \in Req, NEW d \in DeviceId, NEW M,
         call[r].at = "idle", \A q \in Req : call[q].dev = d => ~Busy(q),
         call'[r].dev = d, call'[r].at # "idle",
         ~(call'[r].op = "register" /\ call'[r].at = "error"),
         \A q \in Req : q # r => call'[q] = call[q],
         \A q \in Req : q # r /\ call[q].dev # d => heap'[q] = heap[q],
         registered' = registered, lists' = lists, answers' = answers,
         registrations' = registrations, subscriptions' = subscriptions,
         sent' = sent \cup M,
         \A m \in M : /\ m.req = r /\ m.kind \in {"register", "entity", "subscribe"}
                      /\ m.kind # "entity" => m.id = Named(m)',
         StoredInv(d)',
         KnownRegistrations(d)' = KnownRegistrations(d),
         KnownSubscriptions(d)' = KnownSubscriptions(d),
         Busy(r)' =>
           /\ ObjectsInv(r)'
           /\ call'[r].at \in {"registering", "creating", "get", "unsubscribe", "subscribing"}
           /\ call'[r].at = "creating" => heap'[r].registrationId = None
  PROVE  MatchInv'
<1>t. /\ \A m \in sent \cup sent' \cup answers \cup answers' : m.req \in Req
      /\ registrations \cup subscriptions \subseteq Req
      /\ d # None
  BY ConstantsAssumption DEF TypeInv, TypeOK, Message, Answer
<1>0. DeviceInv(d) /\ FreshInv /\ RequestsInv(d)
  BY DEF MatchInv, DeviceInv
<1>1. call[r].dev = None
  BY DEF ExpiredInv, SerialInv, Began, NoCall
<1>2. \A m \in sent \cup answers : m.req # r /\ call[m.req].dev # d
  <2>1. \A m \in sent \cup answers : m.req # r
    BY NothingAwaited DEF ExpiredInv
  <2>2. ASSUME NEW m \in sent \cup answers, call[m.req].dev = d
        PROVE  FALSE
    <3>1. m.req \in Req /\ ~Busy(m.req)
      BY <1>t, <2>2
    <3> QED
      BY <1>0, <2>2, <3>1, OnlyOwn
  <2> QED
    BY <2>1, <2>2
<1>3. RequestsInv(d)'
  <2>1. \A a \in answers' : call'[a.req].dev # d
    BY <1>t, <1>2
  <2>2. \A m \in sent' : call'[m.req].dev = d => m \in M
    BY <1>t, <1>2
  <2>3. \A m \in sent' : call'[m.req].dev = d =>
          /\ m.kind # "unsubscribe"
          /\ m.kind \in {"register", "expire", "subscribe"} => m.id = Named(m)'
    BY <2>2
  <2> QED
    BY <2>1, <2>3 DEF RequestsInv
<1>4. FreshInv'
  BY <1>0 DEF FreshInv, Ended
<1>5. Kept(d)' = Kept(d) /\ LiveSubscriptions(d)' = LiveSubscriptions(d)
  <2>1. r \notin registrations \cup subscriptions
    BY <1>0 DEF FreshInv
  <2>2. \A i : /\ i \in Kept(d)' <=> i \in Kept(d)
               /\ i \in LiveSubscriptions(d)' <=> i \in LiveSubscriptions(d)
    BY <1>t, <2>1, KeptMember
  <2> QED
    BY <2>2
<1>6. Kept(d)' = KnownRegistrations(d)' /\ LiveSubscriptions(d)' = KnownSubscriptions(d)'
  <2>1. Matches(d)
    BY <1>0 DEF DeviceInv, Quiet
  <2> QED
    BY <1>5, <2>1 DEF Matches
<1>7. /\ AnsweredIds(r, "expire")' = {} /\ AnsweredIds(r, "register")' = {}
      /\ AnsweredIds(r, "subscribe")' = {}
  BY <1>2 DEF AnsweredIds
<1>8. Busy(r)' => BusyInv(r)'
  <2> SUFFICES ASSUME Busy(r)' PROVE BusyInv(r)'
    OBVIOUS
  <2>1. Kept(d)' = BusyRegistrations(r)'
    BY <1>6, <1>7 DEF BusyRegistrations
  <2>2. SubscriptionsInv(r)'
    BY <1>6, <1>7 DEF SubscriptionsInv
  <2> QED
    BY <2>1, <2>2 DEF BusyInv
<1>9. ~Busy(r)' => Matches(d)'
  BY <1>6 DEF Matches
<1>10. /\ \A m \in sent \cup sent' : m.req # r => (m \in sent <=> m \in sent')
       /\ \A a \in answers \cup answers' : a.req # r => (a \in answers <=> a \in answers')
       /\ \A i \in Req : call'[i].dev # d =>
            /\ i \in registrations' <=> i \in registrations
            /\ i \in subscriptions' <=> i \in subscriptions
       /\ \A q \in Req : q # r => call'[q] = call[q] /\ (call[q].dev = d => ~Busy(q))
       /\ \A q \in Req : q # r /\ call[q].dev # d => heap'[q] = heap[q] /\ lists'[q] = lists[q]
  OBVIOUS
<1> QED
  BY <1>1, <1>3, <1>4, <1>8, <1>9, <1>10, ActorKeeps

\* So does every call that is made, on a device that was quiet.
LEMMA ClientMatch ==
  ASSUME TypeInv, TypeInv', ExpiredInv, MatchInv, Provisioned, failures = 0, Client
  PROVE  MatchInv'
<1>m. \A q, kind, id, attrs : /\ Msg(q, kind, id, attrs).req = q
                              /\ Msg(q, kind, id, attrs).kind = kind
                              /\ Msg(q, kind, id, attrs).id = id
  BY DEF Msg
<1>1. PICK r \in Req, d \in DeviceId, active \in SUBSET Attr, lazy \in BOOLEAN, fields \in 1..2 :
        \/ RegisterDevice(r, d, active, lazy) \/ PutDevice(r, d, active, lazy, fields)
        \/ UnregisterDevice(r, d) \/ Subscribe(r, d)
  <2>1. /\ ~ClearRegistry
        /\ \A r, d, active, lazy : ~UpdateDevice(r, d, active, lazy)
        /\ \A r, d : ~Unsubscribe(r, d)
    BY DEF Provisioned, ClearRegistry, UpdateDevice, Unsubscribe, MayStart
  <2>2. {} \in SUBSET Attr /\ TRUE \in BOOLEAN /\ 1 \in 1..2
    OBVIOUS
  <2> QED
    BY <2>1, <2>2 DEF Client
<1> DEFINE o == registered[d]
<1>t. /\ registered \in [DeviceId -> Ref] /\ heap \in [Req -> Device] /\ call \in [Req -> Call]
      /\ r # None
  BY ConstantsAssumption DEF TypeInv, TypeOK
<1>2. /\ call[r].at = "idle" /\ \A q \in Req : call[q].dev = d => ~Busy(q)
      /\ registered' = registered /\ lists' = lists /\ answers' = answers
      /\ registrations' = registrations /\ subscriptions' = subscriptions
  BY <1>1 DEF Provisioned, MayStart, RegisterDevice, PutDevice, UnregisterDevice, Subscribe,
              brokerVars
<1>3. StoredInv(d)
  BY DEF MatchInv, DeviceInv
<1>4. o # None =>
        /\ o \in Req /\ call[o].dev = d /\ call[o].at = "ok" /\ o # r
        /\ heap[o].registrationId # None => heap[o].lazy
  BY <1>2, <1>3, StoredOwn DEF StoredInv
<1>5. ASSUME NEW op, NEW old, NEW new, NEW stage, Begin(r, op, d, old, new, stage)
      PROVE  /\ call'[r].op = op /\ call'[r].dev = d /\ call'[r].old = old
             /\ call'[r].new = new /\ call'[r].at = stage
             /\ \A q \in Req : q # r => call'[q] = call[q]
  BY <1>t, <1>5 DEF Begin
<1>6. ASSUME o # None =>
               /\ heap'[o].registrationId = heap[o].registrationId
               /\ heap'[o].subscriptions = heap[o].subscriptions
               /\ heap[o].lazy => heap'[o].lazy,
             \A q \in Req : q # r => call'[q] = call[q]
      PROVE  /\ StoredInv(d)'
             /\ KnownRegistrations(d)' = KnownRegistrations(d)
             /\ KnownSubscriptions(d)' = KnownSubscriptions(d)
  <2>1. StoredInv(d)'
    BY <1>2, <1>3, <1>6, SameStored
  <2>2. KnownRegistrations(d)' = KnownRegistrations(d)
    BY <1>2, <1>6, SameKnown
  <2>3. KnownSubscriptions(d)' = KnownSubscriptions(d)
    BY <1>2, <1>6, SameListed
  <2> QED
    BY <2>1, <2>2, <2>3
<1> HIDE DEF o
<1>7. CASE RegisterDevice(r, d, active, lazy)
  <2>1. /\ \A q \in Req : q # r => heap'[q] = heap[q]
        /\ heap'[r].lazy = lazy /\ heap'[r].registrationId = None
        /\ heap'[r].subscriptions = None
    BY <1>t, <1>7 DEF RegisterDevice, NoDevice
  <2>2. PICK M, stage :
          /\ sent' = sent \cup M /\ Begin(r, "register", d, None, r, stage)
          /\ \/ /\ lazy /\ stage = "registering" /\ M = {Msg(r, "register", None, {})}
             \/ /\ stage = "creating" /\ M = {Msg(r, "entity", None, active)}
    BY <1>7 DEF RegisterDevice
  <2>3. /\ call'[r].op = "register" /\ call'[r].dev = d /\ call'[r].at = stage
        /\ \A q \in Req : q # r => call'[q] = call[q]
    BY <1>5, <2>2
  <2>4. /\ stage \in {"registering", "creating"}
        /\ \A m \in M : m.req = r /\ m.id = None /\ m.kind \in {"register", "entity"}
    BY <1>m, <2>2
  <2>5. \A m \in M : m.id = Named(m)'
    BY <2>3, <2>4 DEF Named
  <2>6. /\ StoredInv(d)'
        /\ KnownRegistrations(d)' = KnownRegistrations(d)
        /\ KnownSubscriptions(d)' = KnownSubscriptions(d)
    BY <1>4, <1>6, <2>1, <2>3
  <2>7. ObjectsInv(r)'
    BY <2>1, <2>2, <2>3, <2>4 DEF ObjectsInv, HoldsNew, HoldsOld
  <2>8. call'[r].at # "idle" /\ call'[r].at # "error" /\ sent' = sent \cup M
    BY <2>2, <2>3, <2>4
  <2>9. \A m \in M : /\ m.req = r /\ m.kind \in {"register", "entity", "subscribe"}
                     /\ m.kind # "entity" => m.id = Named(m)'
    BY <2>4, <2>5
  <2> QED
    BY <1>2, <2>1, <2>3, <2>4, <2>6, <2>7, <2>8, <2>9, Begun
<1> DEFINE N == {}
<1>c. (\A m \in N : FALSE) /\ sent = sent \cup N
  OBVIOUS
<1> HIDE DEF N
<1>8. CASE PutDevice(r, d, active, lazy, fields)
  <2>1. sent' = sent
    BY <1>8 DEF PutDevice
  <2>2. CASE o = None
    <3>1. Begin(r, "put", d, None, None, "error") /\ heap' = heap
      BY <1>8, <2>2 DEF PutDevice, o
    <3>2. /\ call'[r].op = "put" /\ call'[r].dev = d /\ call'[r].at = "error"
          /\ \A q \in Req : q # r => call'[q] = call[q]
      BY <1>5, <3>1
    <3>3. /\ StoredInv(d)'
          /\ KnownRegistrations(d)' = KnownRegistrations(d)
          /\ KnownSubscriptions(d)' = KnownSubscriptions(d)
      BY <1>6, <2>2, <3>2
    <3>4. ~Busy(r)'
      BY <3>2 DEF Busy, Ended
    <3> QED
      BY <1>2, <1>c, <2>1, <3>1, <3>2, <3>3, <3>4, Begun
  <2>3. CASE o # None
    <3> DEFINE stage == IF fields = 1 THEN "error" ELSE "get"
    <3>1. /\ Begin(r, "put", d, None, o, stage)
          /\ lazy \/ ~heap[o].lazy
          /\ heap' = [heap EXCEPT ![o].active = active, ![o].lazy = lazy]
      BY <1>8, <2>3 DEF PutDevice, o, Provisioned
    <3>2. stage \in {"error", "get"}
      OBVIOUS
    <3> HIDE DEF stage
    <3>3. /\ \A q \in Req : q # o => heap'[q] = heap[q]
          /\ heap'[o].registrationId = heap[o].registrationId
          /\ heap'[o].subscriptions = heap[o].subscriptions
          /\ heap'[o].lazy = lazy
      BY <1>t, <1>4, <2>3, <3>1 DEF Device
    <3>4. /\ call'[r].op = "put" /\ call'[r].dev = d /\ call'[r].at = stage /\ call'[r].new = o
          /\ \A q \in Req : q # r => call'[q] = call[q]
      BY <1>5, <3>1
    <3>5. /\ StoredInv(d)'
          /\ KnownRegistrations(d)' = KnownRegistrations(d)
          /\ KnownSubscriptions(d)' = KnownSubscriptions(d)
      BY <1>6, <3>1, <3>3, <3>4
    <3>6. Busy(r)' => call'[r].at = "get"
      BY <3>2, <3>4 DEF Busy, Ended
    <3>7. registered'[d] = o
      BY <1>2 DEF o
    <3>8. Busy(r)' => ObjectsInv(r)'
      BY <3>4, <3>6, <3>7 DEF ObjectsInv, HoldsNew, HoldsOld
    <3>9. call'[r].at # "idle" /\ call'[r].op # "register"
      BY <3>2, <3>4
    <3>10. \A q \in Req : q # r /\ call[q].dev # d => heap'[q] = heap[q]
      BY <1>4, <2>3, <3>3
    <3> QED
      BY <1>2, <1>c, <2>1, <3>4, <3>5, <3>6, <3>8, <3>9, <3>10, Begun
  <2> QED
    BY <2>2, <2>3
<1>9. CASE UnregisterDevice(r, d)
  <2> DEFINE stage == IF o = None THEN "lost" ELSE "unsubscribe"
  <2>1. Begin(r, "unregister", d, o, None, stage) /\ sent' = sent /\ heap' = heap
    BY <1>9 DEF UnregisterDevice, o
  <2>2. stage \in {"lost", "unsubscribe"} /\ (stage = "unsubscribe" => o # None)
    OBVIOUS
  <2> HIDE DEF stage
  <2>3. /\ call'[r].op = "unregister" /\ call'[r].dev = d /\ call'[r].at = stage /\ call'[r].old = o
        /\ \A q \in Req : q # r => call'[q] = call[q]
    BY <1>5, <2>1
  <2>4. /\ StoredInv(d)'
        /\ KnownRegistrations(d)' = KnownRegistrations(d)
        /\ KnownSubscriptions(d)' = KnownSubscriptions(d)
    BY <1>6, <2>1, <2>3
  <2>5. Busy(r)' => call'[r].at = "unsubscribe" /\ o # None
    BY <2>2, <2>3 DEF Busy, Ended
  <2>6. registered'[d] = o
    BY <1>2 DEF o
  <2>7. Busy(r)' => ObjectsInv(r)'
    BY <2>3, <2>5, <2>6 DEF ObjectsInv, HoldsNew, HoldsOld
  <2>8. call'[r].at # "idle" /\ call'[r].op # "register"
    BY <2>2, <2>3
  <2> QED
    BY <1>2, <1>c, <2>1, <2>3, <2>4, <2>5, <2>7, <2>8, Begun
<1>10. CASE Subscribe(r, d)
  <2> DEFINE M == {Msg(r, "subscribe", None, {})}
  <2>1. /\ Begin(r, "subscribe", d, o, None, "subscribing")
        /\ sent' = sent \cup M /\ heap' = heap /\ o # None
    BY <1>10 DEF Subscribe, o
  <2>2. \A m \in M : m.req = r /\ m.kind = "subscribe" /\ m.id = None
    BY <1>m
  <2> HIDE DEF M
  <2>3. /\ call'[r].op = "subscribe" /\ call'[r].dev = d /\ call'[r].old = o
        /\ call'[r].at = "subscribing"
        /\ \A q \in Req : q # r => call'[q] = call[q]
    BY <1>5, <2>1
  <2>4. /\ StoredInv(d)'
        /\ KnownRegistrations(d)' = KnownRegistrations(d)
        /\ KnownSubscriptions(d)' = KnownSubscriptions(d)
    BY <1>6, <2>1, <2>3
  <2>5. registered'[d] = o
    BY <1>2 DEF o
  <2>6. ObjectsInv(r)'
    BY <2>1, <2>3, <2>5 DEF ObjectsInv, HoldsNew, HoldsOld
  <2>7. \A m \in M : /\ m.req = r /\ m.kind \in {"register", "entity", "subscribe"}
                     /\ m.kind # "entity" => m.id = Named(m)'
    BY <2>2, <2>3 DEF Named
  <2>8. call'[r].at # "idle" /\ call'[r].op # "register" /\ call'[r].at # "creating"
    BY <2>3
  <2> QED
    BY <1>2, <2>1, <2>3, <2>4, <2>6, <2>7, <2>8, Begun
<1> QED
  BY <1>1, <1>7, <1>8, <1>9, <1>10

LEMMA AgentMatch ==
  ASSUME TypeInv, TypeInv', ExpiredInv, MatchInv, Provisioned, failures = 0, Agent
  PROVE  MatchInv'
<1>1. PICK r \in Req : Task(r) \/ \E a \in answers : Callback(r, a)
  BY DEF Agent
<1>2. CASE Task(r)
  <2>1. call[r].at # "idle"
    BY <1>2 DEF Task, GetOld, SendDifference, SendUpdate, OnNothingToUpdate, ReplaceDevice,
                SendUnsubscriptions, SendExpire, RemoveUnregistered
  <2>2. call[r].dev \in DeviceId
    BY <2>1, OpAt
  <2> QED
    BY <1>2, <2>2, TaskMatch
<1>3. ASSUME NEW a \in answers, Callback(r, a)
      PROVE  MatchInv'
  <2>1. a.req = r
    BY <1>3 DEF Callback, OnRegistered, StoreDevice, OnRefused, Combine, OnUpdated, OnExpired,
                OnSubscribed, OnUnsubscribed
  <2>2. call[r].at # "idle"
    BY <2>1, NothingAwaited DEF ExpiredInv
  <2>3. call[r].dev \in DeviceId
    BY <2>2, OpAt
  <2> QED
    BY <1>3, <2>3, CallbackMatch
<1> QED
  BY <1>1, <1>2, <1>3

LEMMA NextMatch ==
  ASSUME TypeInv, TypeInv', ExpiredInv, MatchInv, Provisioned, [Next]_vars
  PROVE  MatchInv'
<1> SUFFICES ASSUME failures' = 0 PROVE MatchInv'
  BY DEF MatchInv
<1>1. failures = 0 \/ Broker
  <2>1. CASE Client
    <3>1. ASSUME NEW r, NEW d, NEW active, NEW lazy, NEW fields,
                 \/ RegisterDevice(r, d, active, lazy) \/ UpdateDevice(r, d, active, lazy)
                 \/ PutDevice(r, d, active, lazy, fields)
          PROVE  failures = 0
      BY <3>1 DEF RegisterDevice, UpdateDevice, PutDevice, brokerVars
    <3>2. ASSUME NEW r, NEW d, UnregisterDevice(r, d) \/ Subscribe(r, d) \/ Unsubscribe(r, d)
          PROVE  failures = 0
      BY <3>2 DEF UnregisterDevice, Subscribe, Unsubscribe, brokerVars
    <3>3. ClearRegistry => failures = 0
      BY DEF ClearRegistry, brokerVars
    <3> QED
      BY <2>1, <3>1, <3>2, <3>3 DEF Client
  <2>2. ASSUME NEW r \in Req, Task(r) PROVE failures = 0
    BY <2>2 DEF Task, GetOld, SendDifference, SendUpdate, OnNothingToUpdate, ReplaceDevice,
                SendUnsubscriptions, SendExpire, RemoveUnregistered, brokerVars
  <2>3. ASSUME NEW r \in Req, NEW a \in answers, Callback(r, a) PROVE failures = 0
    BY <2>3 DEF Callback, OnRegistered, StoreDevice, OnRefused, Combine, OnUpdated, OnExpired,
                OnSubscribed, OnUnsubscribed, brokerVars
  <2>4. CASE UNCHANGED vars
    BY <2>4 DEF vars
  <2> QED
    BY <2>1, <2>2, <2>3, <2>4 DEF Next, Agent
<1>2. Broker => failures = 0
  <2>1. failures \in Nat /\ MaxFailures \in Nat
    BY ConstantsAssumption DEF TypeInv, TypeOK
  <2> QED
    BY <2>1 DEF Broker, BrokerAccepts, BrokerFails
<1>3. failures = 0
  BY <1>1, <1>2
<1>4. CASE Client
  BY <1>3, <1>4, ClientMatch
<1>5. CASE Agent
  BY <1>3, <1>5, AgentMatch
<1>6. CASE Broker
  <2>1. PICK m \in sent : BrokerAccepts(m) \/ BrokerFails(m)
    BY <1>6 DEF Broker
  <2>2. m.req \in Req /\ m.kind \in MsgKind
    BY DEF TypeInv, TypeOK, Message
  <2>3. call[m.req].at # "idle"
    BY <2>2, NothingAwaited DEF ExpiredInv
  <2>4. call[m.req].dev \in DeviceId
    BY <2>2, <2>3, OpAt
  <2> QED
    BY <1>3, <2>1, <2>2, <2>4, BrokerMatch
<1>7. CASE UNCHANGED vars
  <2>1. \A d \in DeviceId : StoredInv(d) /\ RequestsInv(d) => (StoredInv(d) /\ RequestsInv(d))'
    BY <1>7 DEF vars, StoredInv, RequestsInv, Named
  <2>2. \A d \in DeviceId : /\ Kept(d)' = Kept(d)
                            /\ LiveSubscriptions(d)' = LiveSubscriptions(d)
                            /\ KnownRegistrations(d)' = KnownRegistrations(d)
                            /\ KnownSubscriptions(d)' = KnownSubscriptions(d)
    BY <1>7 DEF vars, Kept, LiveRegistrations, LeftByRefusedRegister, LiveSubscriptions,
                KnownRegistrations, KnownSubscriptions, ListOf
  <2>3. \A d \in DeviceId : (Quiet(d) => Matches(d)) => (Quiet(d) => Matches(d))'
    BY <1>7, <2>2 DEF vars, Quiet, Busy, Matches
  <2>4. ASSUME NEW r \in Req, call[r].dev \in DeviceId
        PROVE  BusyInv(r) => BusyInv(r)'
    <3>1. ObjectsInv(r) => ObjectsInv(r)'
      BY <1>7 DEF vars, ObjectsInv
    <3>2. /\ AnsweredIds(r, "expire")' = AnsweredIds(r, "expire")
          /\ AnsweredIds(r, "register")' = AnsweredIds(r, "register")
          /\ AnsweredIds(r, "subscribe")' = AnsweredIds(r, "subscribe")
      BY <1>7 DEF vars, AnsweredIds
    <3>5. /\ Kept(call[r].dev)' = Kept(call[r].dev)
          /\ LiveSubscriptions(call[r].dev)' = LiveSubscriptions(call[r].dev)
          /\ KnownRegistrations(call[r].dev)' = KnownRegistrations(call[r].dev)
          /\ KnownSubscriptions(call[r].dev)' = KnownSubscriptions(call[r].dev)
          /\ call' = call /\ heap' = heap /\ sent' = sent
      BY <1>7, <2>2, <2>4 DEF vars
    <3>3. BusyRegistrations(r)' = BusyRegistrations(r)
      BY <3>2, <3>5 DEF BusyRegistrations
    <3>4. SubscriptionsInv(r) => SubscriptionsInv(r)'
      BY <3>2, <3>5 DEF SubscriptionsInv
    <3> QED
      BY <3>1, <3>3, <3>4, <3>5 DEF BusyInv
  <2>5. \A d \in DeviceId : DeviceInv(d) => DeviceInv(d)'
    BY <1>7, <2>1, <2>3, <2>4 DEF vars, DeviceInv, Busy
  <2>6. FreshInv => FreshInv'
    BY <1>7 DEF vars, FreshInv
  <2> QED
    BY <1>3, <2>5, <2>6 DEF MatchInv
<1> QED
  BY <1>4, <1>5, <1>6, <1>7 DEF Next

LEMMA InitMatch == Init => MatchInv
<1> SUFFICES ASSUME Init PROVE MatchInv
  OBVIOUS
<1>1. /\ \A r \in Req : call[r] = NoCall /\ lists[r] = <<>>
      /\ \A d \in DeviceId : registered[d] = None
      /\ sent = {} /\ answers = {} /\ registrations = {} /\ subscriptions = {}
  BY DEF Init
<1>2. \A d : Kept(d) = {} /\ LiveSubscriptions(d) = {}
  BY <1>1 DEF Kept, LiveRegistrations, LiveSubscriptions
<1>3. \A d \in DeviceId : Matches(d) /\ StoredInv(d) /\ RequestsInv(d)
  BY <1>1, <1>2 DEF Matches, KnownRegistrations, KnownSubscriptions, StoredInv, RequestsInv
<1>4. \A r \in Req : ~Busy(r)
  BY <1>1 DEF Busy, NoCall
<1>5. FreshInv
  BY <1>1 DEF FreshInv
<1> QED
  BY <1>3, <1>4, <1>5 DEF MatchInv, DeviceInv

\* Among clients that wait for the last answer about a device before they call
\* about it again, that register, update, subscribe and unregister (without a
\* PUT that takes the lazy attributes away), and until a call to the Context
\* Broker fails, the in-memory registry and the broker agree about each device
\* that nothing is under way for: registerDevice, updateRegisterDevice,
\* unregisterDevice and subscribe leave live exactly the registration and the
\* subscriptions that the registry lists.
THEOREM RegistryAgrees ==
  ASSUME Provisioned
  PROVE  Spec => []RegistryMatchesBroker
<1>1. Init => TypeInv /\ ExpiredInv /\ MatchInv
  BY InitType, InitExpired, InitMatch
<1>2. TypeInv /\ ExpiredInv /\ MatchInv /\ [Next]_vars => (TypeInv /\ ExpiredInv /\ MatchInv)'
  <2> SUFFICES ASSUME TypeInv, ExpiredInv, MatchInv, [Next]_vars
               PROVE  (TypeInv /\ ExpiredInv /\ MatchInv)'
    OBVIOUS
  <2>1. TypeInv'
    BY NextType
  <2>2. ExpiredInv'
    BY NextKeeps DEF Provisioned
  <2> QED
    BY <2>1, <2>2, NextMatch
<1>3. MatchInv => RegistryMatchesBroker
  BY DEF MatchInv, DeviceInv, Matches, Kept, RegistryMatchesBroker
<1> QED
  BY <1>1, <1>2, <1>3, PTL DEF Spec
=============================================================================
