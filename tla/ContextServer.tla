---------------------------- MODULE ContextServer ----------------------------
(***************************************************************************)
(* The NGSI10 side of an IoT agent (northBound/contextServer.js): the      *)
(* broker forwards updateContext and queryContext requests to the agent as *)
(* the provider of lazy attributes and commands, and sends notifyContext   *)
(* requests for its subscriptions.  The handlers an agent installs do the  *)
(* work.  An update runs, for every context element in turn, the update    *)
(* handler, the command handler and one PENDING update of the broker per   *)
(* command (NgsiService); a query runs the query handler for every entity  *)
(* in turn; the elements of a notification are handled in parallel.        *)
(* Meanwhile devices report results of the commands they were given.       *)
(*                                                                         *)
(* A request's body is a sequence of elements [id, names, code]: the       *)
(* entity, the names of its attributes (a sequence) and, in a              *)
(* notification, whether its status code is 200.                           *)
(***************************************************************************)
EXTENDS NgsiService, SequencesExt

CONSTANTS
    LateHandlers, \* the kinds of handlers an agent installs after its start
    Bodies,       \* for each request and kind, the bodies that may arrive
    MaxResults    \* bound: the results devices report

Kinds == {"update", "query", "notify"}
HandlerKinds == Kinds \union {"command"}

ASSUME ContextAssumption ==
    /\ LateHandlers \subseteq HandlerKinds
    /\ \A r \in Requests, kind \in Kinds : \A body \in Bodies[r][kind] :
         /\ body \in Seq(ToSet(body))
         /\ \A i \in DOMAIN body : body[i].names \in Seq(ToSet(body[i].names))

VARIABLES
    handlers,  \* the handlers installed: update, command, query, notify
    requests   \* the request being handled under each identifier

vars == <<ngsiVars, handlers, requests>>

Idle == [kind |-> "none", phase |-> "idle", body |-> <<>>, plan |-> <<>>,
         at |-> 0, parts |-> <<>>]

Answers == {"ok", "error", "unrouted"}
Over == Answers \union {"lost"}

(* What a request does next.  An action of the plan is a call of a handler *)
(* for one element, or a PENDING update.                                   *)
HandlerAction(name, i) == [do |-> name, element |-> i, command |-> "-"]
Running(r) == requests[r].phase = "running"
CurrentAction(r) == requests[r].plan[requests[r].at]
Element(r, i) == requests[r].body[i]
PendingCall(r, a) == <<"PENDING", r, Element(r, a.element).id, a.command>>

(* The PENDING update is the current action, and is called.                *)
PendingDue(c) ==
    /\ Running(c[2])
    /\ CurrentAction(c[2]).do = "pending"
    /\ c = PendingCall(c[2], CurrentAction(c[2]))

Actions == [do : {"update", "command", "query", "pending"}, element : Nat,
            command : Commands \union {"-"}]

Request == [kind : Kinds \union {"none"},
            phase : {"idle", "lookedUp", "running", "notifying"} \union Over,
            body : {<<>>} \union UNION {UNION {Bodies[r][k] : k \in Kinds} : r \in Requests},
            plan : Seq(Actions),
            at : Nat,
            parts : Seq({"todo", "handling", "done", "failed"})]

TypeOK ==
    /\ NgsiTypeOK
    /\ handlers \subseteq HandlerKinds
    /\ requests \in [Requests -> Request]
    /\ \A r \in Requests : LET q == requests[r] IN
         /\ q.kind # "none" => q.body \in Bodies[r][q.kind]
         /\ q.phase = "running" => q.at \in DOMAIN q.plan

Init ==
    /\ NgsiInit
    /\ handlers = HandlerKinds \ LateHandlers
    /\ requests = [r \in Requests |-> Idle]

(* setUpdateHandler, setCommandHandler, setQueryHandler and                *)
(* setNotificationHandler.                                                 *)
SetHandler(h) ==
    /\ h \notin handlers
    /\ handlers' = handlers \union {h}
    /\ UNCHANGED <<ngsiVars, requests>>

---------------------------------------------------------------------------
(* Receiving.  A body that is neither JSON nor XML, that does not parse or *)
(* does not fit its template is refused (ensureType, validateJson).        *)
Refuse(r, kind, body) ==
    /\ requests[r].phase = "idle"
    /\ requests' = [requests EXCEPT ![r] = [Idle EXCEPT
                      !.kind = kind, !.body = body, !.phase = "error"]]
    /\ UNCHANGED <<ngsiVars, handlers>>

Registered(id) == id \in Devices

(* handleUpdate and handleQuery look up the device of every element; no    *)
(* handler, or one unknown device, refuses the whole request.              *)
Receive(r, kind, body) ==
    /\ requests[r].phase = "idle"
    /\ kind \in {"update", "query"}
    /\ LET known == \A i \in DOMAIN body : Registered(body[i].id)
       IN  requests' = [requests EXCEPT ![r] = [Idle EXCEPT
             !.kind = kind, !.body = body,
             !.phase = IF kind \in handlers /\ known THEN "lookedUp" ELSE "error"]]
    /\ UNCHANGED <<ngsiVars, handlers>>

(* executeUpdateSideEffects: a PENDING update for every command of the     *)
(* device that an attribute names, in the order the device declares them.  *)
SideEffects(r, i) ==
    LET e == Element(r, i)
        named == SetToSeq(DeviceCommands[e.id] \intersect ToSet(e.names))
    IN  [k \in DOMAIN named |-> [do |-> "pending", element |-> i, command |-> named[k]]]

(* A variant to be told apart: the side effects come first.                *)
SideEffectsFirst(r, i) ==
    SideEffects(r, i)
      \o <<HandlerAction("update", i)>>
      \o (IF "command" \in handlers THEN <<HandlerAction("command", i)>> ELSE <<>>)

(* generateUpdateActions: the actions of one element, in order; the        *)
(* handlers are the ones installed when the actions are made.              *)
UpdateActions(r, i) ==
    <<HandlerAction("update", i)>>
      \o (IF "command" \in handlers THEN <<HandlerAction("command", i)>> ELSE <<>>)
      \o SideEffects(r, i)

(* createUpdateResponse blanks the values of attribute i of element i (the *)
(* loop's own index is j): an element with attributes, but fewer than its  *)
(* position, makes it throw, and nobody answers the request.               *)
ResponseThrows(r) ==
    /\ requests[r].kind = "update"
    /\ \E i \in DOMAIN requests[r].body :
         Len(Element(r, i).names) \in 1 .. (i - 1)

(* A query's response holds what the handlers answered, and is made.       *)
Finished(r) == IF ResponseThrows(r) THEN "lost" ELSE "ok"

(* Variants to be told apart: the end of the plan is missed; an error ends *)
(* the series without calling back.                                        *)
AdvancePastEnd(r) == requests' = [requests EXCEPT ![r].at = @ + 1]
FailSilently(r) == UNCHANGED requests

(* The request moves on once its action has called back without an error;  *)
(* async.series stops at the first error.                                  *)
Advance(r) ==
    requests' = IF requests[r].at < Len(requests[r].plan)
                THEN [requests EXCEPT ![r].at = @ + 1]
                ELSE [requests EXCEPT ![r].phase = Finished(r)]

Fail(r) == requests' = [requests EXCEPT ![r].phase = "error"]

Plan(r) ==
    /\ requests[r].phase = "lookedUp"
    /\ LET actions(i) == IF requests[r].kind = "update" THEN UpdateActions(r, i)
                         ELSE <<HandlerAction("query", i)>>
           plan == FlattenSeq([i \in DOMAIN requests[r].body |-> actions(i)])
       IN  requests' = IF plan = <<>>
                       THEN [requests EXCEPT ![r].phase = Finished(r)]
                       ELSE [requests EXCEPT ![r].plan = plan, ![r].at = 1,
                                             ![r].phase = "running"]
    /\ UNCHANGED <<ngsiVars, handlers>>

(* A handler of the agent calls back.                                      *)
HandlerAnswers(r) ==
    /\ Running(r)
    /\ CurrentAction(r).do # "pending"
    /\ Advance(r) \/ Fail(r)
    /\ UNCHANGED <<ngsiVars, handlers>>

(* A variant to be told apart: a failed PENDING update is passed over.     *)
ContinueAnyway(c) ==
    IF IsResult(c) \/ calls'[c].phase \notin Settled THEN UNCHANGED requests ELSE Advance(c[2])

(* A step of a call, with what its outcome does to the request that waits  *)
(* for it; the caller of setCommandResult is the agent, and waits for no   *)
(* request.                                                                *)
Continue(c) ==
    LET r == c[2]
        outcome == calls'[c].phase
    IN  IF IsResult(c) \/ outcome \notin Settled THEN UNCHANGED requests
        ELSE CASE outcome = "ok" -> Advance(r)
               [] outcome = "failed" -> Fail(r)
               [] outcome = "lost" -> requests' = [requests EXCEPT ![r].phase = "lost"]

CallMoves(c) ==
    /\ CallStep(c)
    /\ Phase(c) = "idle" => PendingDue(c)
    /\ Continue(c)
    /\ UNCHANGED handlers

BrokerMoves(c) ==
    /\ BrokerUpdates(c)
    /\ UNCHANGED <<handlers, requests>>

---------------------------------------------------------------------------
(* A device that was given a command reports its result, with the device's *)
(* information or without it.  It has the command from the moment the      *)
(* command handler is called, before that handler calls back.              *)
Delivered(r, d, x) ==
    /\ requests[r].kind = "update"
    /\ \E k \in 1 .. requests[r].at : LET a == requests[r].plan[k] IN
         /\ a.do = "command"
         /\ Element(r, a.element).id = d
         /\ x \in DeviceCommands[d] \intersect ToSet(Element(r, a.element).names)

ReportResult(c, withDevice) ==
    /\ IsResult(c)
    /\ Phase(c) = "idle"
    /\ Cardinality({k \in Call : IsResult(k) /\ Phase(k) # "idle"}) < MaxResults
    /\ Delivered(c[2], c[3], c[4])
    /\ calls' = [calls EXCEPT ![c] = [phase |-> "lookup", given |-> withDevice]]
    /\ UNCHANGED <<authentication, updateMiddleware, wire, status, measureRequests,
                   handlers, requests>>

---------------------------------------------------------------------------
(* handleNotification: every element on its own; the first failure, or the *)
(* end of all of them, passes the request on, and no later route answers   *)
(* it: the broker gets 404 either way.  Elements under way go on.          *)
Notify(r, body) ==
    /\ requests[r].phase = "idle"
    /\ LET parts == [i \in DOMAIN body |-> IF body[i].code = 200 THEN "todo" ELSE "failed"]
       IN  requests' = [requests EXCEPT ![r] = [Idle EXCEPT
             !.kind = "notify", !.body = body,
             !.parts = IF "notify" \in handlers THEN parts ELSE <<>>,
             !.phase = IF "notify" \notin handlers THEN "error"
                       ELSE IF "failed" \in ToSet(parts) \/ body = <<>> THEN "unrouted"
                       ELSE "notifying"]]
    /\ UNCHANGED <<ngsiVars, handlers>>

SetPart(r, i, p) ==
    LET parts == [requests[r].parts EXCEPT ![i] = p]
    IN  requests' = [requests EXCEPT ![r].parts = parts,
          ![r].phase = IF p = "failed" \/ ToSet(parts) = {"done"} THEN "unrouted" ELSE @]

(* extractInformation, then the agent's notification handler.              *)
Extract(r, i) ==
    /\ requests[r].parts[i] = "todo"
    /\ SetPart(r, i, IF Registered(Element(r, i).id) THEN "handling" ELSE "failed")
    /\ UNCHANGED <<ngsiVars, handlers>>

NotificationHandled(r, i) ==
    /\ requests[r].parts[i] = "handling"
    /\ SetPart(r, i, "done") \/ SetPart(r, i, "failed")
    /\ UNCHANGED <<ngsiVars, handlers>>

---------------------------------------------------------------------------
AgentStep(r) ==
    \/ Plan(r) \/ HandlerAnswers(r)
    \/ \E i \in DOMAIN requests[r].parts : Extract(r, i) \/ NotificationHandled(r, i)

Next ==
    \/ \E h \in HandlerKinds : SetHandler(h)
    \/ \E r \in Requests, kind \in Kinds : \E body \in Bodies[r][kind] :
         \/ Refuse(r, kind, body) \/ Receive(r, kind, body)
         \/ kind = "notify" /\ Notify(r, body)
    \/ \E r \in Requests : AgentStep(r)
    \/ \E c \in Call : CallMoves(c) \/ BrokerMoves(c)
    \/ \E c \in Call, withDevice \in BOOLEAN : ReportResult(c, withDevice)
    \/ ResetMiddlewares /\ UNCHANGED <<handlers, requests>>

(* The agent's handlers call back, the event loop runs what is ready and   *)
(* an HTTP request ends with an answer or an error.                        *)
Fairness ==
    /\ \A r \in Requests : WF_vars(AgentStep(r))
    /\ \A c \in Call : WF_vars(CallMoves(c)) /\ WF_vars(BrokerMoves(c))

Spec == Init /\ [][Next]_vars /\ Fairness

---------------------------------------------------------------------------
(* An update answered 200 has really put PENDING at the broker for every   *)
(* command of every element, in whichever order answers, refusals and      *)
(* broken connections came (handleUpdate, executeUpdateSideEffects).       *)
AnsweredOkMeansPending ==
    \A r \in Requests : requests[r].kind = "update" /\ requests[r].phase = "ok" =>
        \A i \in DOMAIN requests[r].body : LET e == Element(r, i) IN
            \A x \in ToSet(e.names) \intersect DeviceCommands[e.id] :
                Phase(<<"PENDING", r, e.id, x>>) = "ok"

(* The broker is told PENDING only for a command the command handler was   *)
(* given: a request that stops before it, at another element or handler,   *)
(* leaves no trace.  An agent without a command handler is the exception:  *)
(* its commands become PENDING and go to nobody (createActionsArray).      *)
PendingMeansDelivered ==
    \A c \in Call \ {k \in Call : IsResult(k)} :
        c \in wire \/ status[c[3]][c[4]] = c =>
            \/ Delivered(c[2], c[3], c[4])
            \/ \A a \in ToSet(requests[c[2]].plan) : a.do # "command"

(* Every request is answered in the end, however its handlers and calls    *)
(* come out, unless the response to it cannot be made (ResponseThrows).    *)
EveryRequestAnswered ==
    \A r \in Requests :
        requests[r].phase # "idle" /\ ~ ResponseThrows(r) ~> requests[r].phase \in Answers

(* "'_status': this attribute reflect the current execution status of the  *)
(* command." (README.md:49 of the library): a command whose result is at   *)
(* the broker is not PENDING again without a new request for it.           *)
ResultStands ==
    [][\A r \in Requests, d \in Devices, x \in Commands :
         status[d][x] = <<"RESULT", r, d, x>> => status'[d][x] # <<"PENDING", r, d, x>>]_vars

==============================================================================
