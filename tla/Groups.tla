------------------------------- MODULE Groups -------------------------------
(***************************************************************************)
(* The device groups of an IoT agent and their administration API: the     *)
(* routes of northBound/deviceGroupAdministrationServer.js, the service    *)
(* (groups/groupService.js), the transient registry                        *)
(* (groups/groupRegistryMemory.js) and the registration of the list of     *)
(* groups with the IoT Manager (common/iotManagerService.js).              *)
(*                                                                         *)
(* The registry answers within the turn that calls it, so a creation       *)
(* stores its groups in one step; a modification or removal finds a group  *)
(* by its pair in one turn and acts on its id in a later one.              *)
(***************************************************************************)
EXTENDS Naturals, Sequences

CONSTANTS
    Keys,       \* the (resource, apikey) pairs
    Requests,   \* the requests of the API, each handled once
    ServiceOf,  \* the service and subservice in the headers of each
    Creations,  \* the lists of pairs each of them may carry in a POST
    Asked,      \* the operations each request may be
    MayRename,  \* whether a PUT's body may hold another pair
    None

ASSUME GroupsAssumption ==
    /\ None \notin Keys /\ MayRename \in BOOLEAN
    /\ \A r, q \in Requests : None # [service |-> ServiceOf[r], by |-> q]
    /\ \A r \in Requests : Creations[r] \subseteq Seq(Keys)

VARIABLES
    registeredGroups, \* the registry: the groups by id
    groupIds,         \* the next id
    request,          \* how far the handling of each request is
    iotManager,       \* the configuration: whether there is an IoT Manager
    manager,          \* the IoT Manager: the registration it took last
    listed            \* how many times the groups were listed for it

vars == <<registeredGroups, groupIds, request, iotManager, manager, listed>>

Group == [key : Keys, service : {ServiceOf[r] : r \in Requests}, by : Requests]
Over == {"ok", "error"}

Registration == [rank : Nat, groups : SUBSET (Keys \X {ServiceOf[r] : r \in Requests})]
NoRegistration == [rank |-> 0, groups |-> {}]

Request == [op : {"none", "create", "modify", "remove", "get"},
            at : {"idle", "found", "list", "sent", "taken", "handler"} \union Over,
            keys : Seq(Keys),
            rename : Keys \union {None},
            id : Nat,
            report : Registration]
NotYet == [op |-> "none", at |-> "idle", keys |-> <<>>, rename |-> None, id |-> 0,
           report |-> NoRegistration]

Ids == DOMAIN registeredGroups

TypeOK ==
    /\ Ids \subseteq 1 .. (groupIds - 1)
    /\ groupIds \in Nat \ {0}
    /\ registeredGroups \in [Ids -> Group]
    /\ request \in [Requests -> Request]
    /\ iotManager \in BOOLEAN
    /\ manager \in Registration
    /\ listed \in Nat

Init ==
    /\ registeredGroups = [id \in {} |-> None]
    /\ groupIds = 1
    /\ request = [r \in Requests |-> NotYet]
    /\ iotManager \in BOOLEAN
    /\ manager = NoRegistration
    /\ listed = 0

---------------------------------------------------------------------------
(* groupRegistryMemory.js.                                                 *)
Has(groups, key) == \E id \in DOMAIN groups : groups[id].key = key

(* getSingleGroup: the first group of the pair, in the order of the ids.   *)
GetSingleGroup(key) ==
    CHOOSE id \in Ids : /\ registeredGroups[id].key = key
                        /\ \A j \in Ids : registeredGroups[j].key = key => id <= j

(* createGroup for each pair in turn; async.series stops at the first that *)
(* exists, and the groups before it stay.                                  *)
FirstDuplicate(keys) ==
    LET dup(i) == \/ Has(registeredGroups, keys[i])
                  \/ \E j \in 1 .. (i - 1) : keys[j] = keys[i]
    IN  IF \E i \in DOMAIN keys : dup(i)
        THEN CHOOSE i \in DOMAIN keys : dup(i) /\ \A j \in 1 .. (i - 1) : ~ dup(j)
        ELSE Len(keys) + 1

(* A variant to be told apart: an id serves again.                         *)
SameIds(n) == groupIds

IdsAfter(n) == groupIds + n

WithGroups(r, keys) ==
    [id \in Ids \union (groupIds .. (groupIds + Len(keys) - 1)) |->
       IF id \in Ids THEN registeredGroups[id]
       ELSE [key |-> keys[id - groupIds + 1], service |-> ServiceOf[r], by |-> r]]

---------------------------------------------------------------------------
Begins(r) == request[r].at = "idle"
Becomes(r, fields) == request' = [request EXCEPT ![r] = fields]
GoesTo(r, at) ==
    request' = [request EXCEPT ![r] = IF at \in Over THEN [NotYet EXCEPT !.op = request[r].op, !.at = at]
                                      ELSE [@ EXCEPT !.at = at]]

(* After the registry: register with the IoT Manager, if there is one.  A  *)
(* removal ends there, a creation goes on to the configuration handler.    *)
Registering(op) == IF iotManager THEN "list" ELSE IF op = "create" THEN "handler" ELSE "ok"

(* handleCreateDeviceGroup, createGroup.                                   *)
Create(r, keys) ==
    /\ Begins(r)
    /\ LET dup == FirstDuplicate(keys)
           stored == SubSeq(keys, 1, dup - 1)
       IN  /\ registeredGroups' = WithGroups(r, stored)
           /\ groupIds' = IdsAfter(Len(stored))
           /\ Becomes(r, [NotYet EXCEPT !.op = "create", !.keys = keys,
                            !.at = IF dup <= Len(keys) THEN "error" ELSE Registering("create")])
    /\ UNCHANGED <<iotManager, manager, listed>>

(* A variant to be told apart: the service of the headers is not checked.  *)
FindAnyones(r, op, key, rename) ==
    /\ Begins(r)
    /\ Becomes(r, [NotYet EXCEPT !.op = op, !.keys = <<key>>, !.rename = rename,
                     !.id = IF Has(registeredGroups, key) THEN GetSingleGroup(key) ELSE 0,
                     !.at = IF Has(registeredGroups, key) THEN "found" ELSE "error"])
    /\ UNCHANGED <<registeredGroups, groupIds, iotManager, manager, listed>>

(* update and remove look the pair up and compare the service (no request  *)
(* changes a group's service here, so both are one step); the id is used   *)
(* two turns later.                                                        *)
Find(r, op, key, rename) ==
    /\ Begins(r)
    /\ LET mine == /\ Has(registeredGroups, key)
                   /\ registeredGroups[GetSingleGroup(key)].service = ServiceOf[r]
       IN  Becomes(r, [NotYet EXCEPT !.op = op, !.keys = <<key>>, !.rename = rename,
                         !.id = IF mine THEN GetSingleGroup(key) ELSE 0,
                         !.at = IF mine THEN "found" ELSE "error"])
    /\ UNCHANGED <<registeredGroups, groupIds, iotManager, manager, listed>>

(* update: writes the attributes of the body into the stored object.       *)
Modify(r) ==
    LET id == request[r].id
        key == request[r].rename
    IN
    /\ request[r].at = "found" /\ request[r].op = "modify"
    /\ IF id \in Ids
       THEN /\ registeredGroups' = [registeredGroups EXCEPT
                 ![id].by = r, ![id].key = IF key = None THEN @ ELSE key]
            /\ GoesTo(r, "handler")
       ELSE GoesTo(r, "error") /\ UNCHANGED registeredGroups
    /\ UNCHANGED <<groupIds, iotManager, manager, listed>>

(* A variant to be told apart: the manager is not told of a removal.       *)
RemoveUntold(r) ==
    /\ request[r].at = "found" /\ request[r].op = "remove"
    /\ registeredGroups' = [i \in Ids \ {request[r].id} |-> registeredGroups[i]]
    /\ GoesTo(r, "ok")
    /\ UNCHANGED <<groupIds, iotManager, manager, listed>>

(* remove: deletes the id, there or not, and registers.                    *)
Remove(r) ==
    /\ request[r].at = "found" /\ request[r].op = "remove"
    /\ registeredGroups' = [i \in Ids \ {request[r].id} |-> registeredGroups[i]]
    /\ GoesTo(r, Registering("remove"))
    /\ UNCHANGED <<groupIds, iotManager, manager, listed>>

---------------------------------------------------------------------------
(* iotManagerService.register: lists every group and posts the list.       *)
Listing ==
    [rank |-> listed + 1,
     groups |-> {<<registeredGroups[id].key, registeredGroups[id].service>> : id \in Ids}]

GetServices(r) ==
    /\ request[r].at = "list"
    /\ listed' = listed + 1
    /\ request' = [request EXCEPT ![r].at = "sent", ![r].report = Listing]
    /\ UNCHANGED <<registeredGroups, groupIds, iotManager, manager>>

(* The manager takes the registrations in the order they reach it.         *)
ManagerTakes(r) ==
    /\ request[r].at = "sent"
    /\ manager' = request[r].report
    /\ request' = [request EXCEPT ![r].at = "taken", ![r].report = NoRegistration]
    /\ UNCHANGED <<registeredGroups, groupIds, iotManager, listed>>

(* handleRegistration: any answer will do; a broken connection is an error.*)
HandleRegistration(r) ==
    /\ request[r].at \in {"sent", "taken"}
    /\ \/ /\ request[r].at = "taken"
          /\ GoesTo(r, IF request[r].op = "create" THEN "handler" ELSE "ok")
       \/ GoesTo(r, "error")
    /\ UNCHANGED <<registeredGroups, groupIds, iotManager, manager, listed>>

(* A variant to be told apart: only the body of a creation is given to the *)
(* configuration handler, and a modification waits for it.                 *)
ApplyToCreations(r) ==
    /\ request[r].at = "handler"
    /\ request[r].op = "create"
    /\ GoesTo(r, "ok")
    /\ UNCHANGED <<registeredGroups, groupIds, iotManager, manager, listed>>

(* applyConfigurationHandler: the agent accepts the new configuration or   *)
(* refuses it, after the registry has stored it.                           *)
ApplyConfigurationHandler(r) ==
    /\ request[r].at = "handler"
    /\ GoesTo(r, "ok") \/ GoesTo(r, "error")
    /\ UNCHANGED <<registeredGroups, groupIds, iotManager, manager, listed>>

(* handleListDeviceGroups: the groups of the service, or its first one.    *)
Get(r, wildcard) ==
    /\ Begins(r)
    /\ LET found == \E id \in Ids : registeredGroups[id].service = ServiceOf[r]
       IN  Becomes(r, [NotYet EXCEPT !.op = "get",
                         !.at = IF wildcard \/ found THEN "ok" ELSE "error"])
    /\ UNCHANGED <<registeredGroups, groupIds, iotManager, manager, listed>>

---------------------------------------------------------------------------
Renames == IF MayRename THEN Keys \union {None} ELSE {None}

AgentStep(r) ==
    Modify(r) \/ Remove(r) \/ GetServices(r) \/ HandleRegistration(r)
      \/ ApplyConfigurationHandler(r)

Next ==
    \E r \in Requests :
        \/ "create" \in Asked[r] /\ \E keys \in Creations[r] : Create(r, keys)
        \/ "modify" \in Asked[r] /\ \E key \in Keys, rename \in Renames : Find(r, "modify", key, rename)
        \/ "remove" \in Asked[r] /\ \E key \in Keys : Find(r, "remove", key, None)
        \/ "get" \in Asked[r] /\ \E wildcard \in BOOLEAN : Get(r, wildcard)
        \/ AgentStep(r)
        \/ ManagerTakes(r)

(* The event loop runs what is ready, the configuration handler calls back *)
(* and a request to the manager is answered or fails.                      *)
Fairness == \A r \in Requests : WF_vars(AgentStep(r))

Spec == Init /\ [][Next]_vars /\ Fairness

---------------------------------------------------------------------------
(* The administration API implements the directory it promises: every step *)
(* of every interleaving is an atomic operation on it, or none.            *)
Directory == INSTANCE GroupDirectory WITH
    directory <- [k \in Keys |->
        IF Has(registeredGroups, k)
        THEN LET g == registeredGroups[GetSingleGroup(k)] IN [service |-> g.service, by |-> g.by]
        ELSE None]

ImplementsDirectory == Directory!Spec

(* "For every Device Group, the pair (resource, apikey) *must* be unique"  *)
(* (README.md:899 of the library).                                         *)
UniquePairs ==
    \A i, j \in Ids : registeredGroups[i].key = registeredGroups[j].key => i = j

(* Nobody under way or refused: the IoT Manager then knows exactly the     *)
(* groups there are, provided the list made last is the one it took last.  *)
ManagerIsCurrent ==
    LET settled(r) == request[r].at \in {"idle", "ok"} \/ request[r].op \in {"modify", "get"} IN
    iotManager /\ (\A r \in Requests : settled(r)) /\ manager.rank = listed
      => manager.groups = {<<registeredGroups[id].key, registeredGroups[id].service>> : id \in Ids}

(* Every request of the API is answered.                                   *)
EveryGroupRequestAnswered ==
    \A r \in Requests : request[r].at # "idle" ~> request[r].at \in Over
==============================================================================
