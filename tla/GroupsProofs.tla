----------------------------- MODULE GroupsProofs -----------------------------
(***************************************************************************)
(* Proofs about Groups, for any pairs and any requests: its types, that    *)
(* pairs are unique and the API implements GroupDirectory as long as no    *)
(* body of a PUT holds another pair, and that the IoT Manager is told.     *)
(***************************************************************************)
EXTENDS Groups, SequenceTheorems, WellFoundedInduction, TLAPS

\* No request holds another pair for its group: what MayRename = FALSE says.
NoRename == \A r \in Requests : request[r].rename = None

\* An id that was found was given, and as long as its group is there, it is of the
\* service that found it: no id serves again.
FoundIsOwn ==
  \A r \in Requests : request[r].at = "found" =>
    /\ request[r].id < groupIds
    /\ request[r].id \in Ids => registeredGroups[request[r].id].service = ServiceOf[r]

GroupsInv == TypeOK /\ NoRename /\ FoundIsOwn /\ UniquePairs

----------------------------------------------------------------------------
\* Why the IoT Manager is current.

Current == {<<registeredGroups[id].key, registeredGroups[id].service>> : id \in Ids}

\* Only what was listed is on its way to the manager, or there.
RanksListed ==
  /\ manager.rank <= listed
  /\ \A r \in Requests : request[r].report.rank <= listed

\* The list made last, wherever it is, holds the groups there are.
LastListIsCurrent ==
  /\ manager.rank = listed => manager.groups = Current
  /\ \A r \in Requests :
       request[r].at = "sent" /\ request[r].report.rank = listed =>
         request[r].report.groups = Current

\* A creation or removal has yet to list the groups, or will not, having failed.
IsUntold(r) == request[r].op \in {"create", "remove"} /\ request[r].at \in {"list", "error"}
Untold == \E r \in Requests : IsUntold(r)

ManagerInv == RanksListed /\ (iotManager => Untold \/ LastListIsCurrent)

----------------------------------------------------------------------------
\* Helpers.

LEMMA LeastNat ==
  ASSUME NEW T \in SUBSET Nat, T # {}
  PROVE  \E x \in T : \A y \in T : x <= y
<1> DEFINE R == {ss \in Nat \X Nat : ss[1] < ss[2]}
<1>1. IsWellFoundedOn(R, Nat)
  BY NatLessThanWellFounded DEF OpToRel
<1>2. PICK x \in T : \A y \in T : ~ (<<y, x>> \in R)
  <2> HIDE DEF R
  <2> QED
    BY <1>1, WFMin, Zenon
<1>3. ASSUME NEW y \in T PROVE x <= y
  <2>1. ~ (y < x)
    BY <1>2
  <2> QED
    BY <2>1
<1> QED
  BY <1>3

\* The pairs before the first duplicate are all new, and all different.
LEMMA NoneBeforeFirst ==
  ASSUME NEW keys \in Seq(Keys)
  PROVE  /\ FirstDuplicate(keys) \in 1 .. (Len(keys) + 1)
         /\ \A i \in 1 .. (FirstDuplicate(keys) - 1) :
              /\ ~ Has(registeredGroups, keys[i])
              /\ \A j \in 1 .. (i - 1) : keys[j] # keys[i]
<1> DEFINE Dup(i) == \/ Has(registeredGroups, keys[i])
                     \/ \E j \in 1 .. (i - 1) : keys[j] = keys[i]
           IsFirst(i) == Dup(i) /\ \A j \in 1 .. (i - 1) : ~ Dup(j)
<1>1. DOMAIN keys = 1 .. Len(keys) /\ Len(keys) \in Nat
  BY LenProperties
<1>2. FirstDuplicate(keys) = IF \E i \in DOMAIN keys : Dup(i)
                             THEN CHOOSE i \in DOMAIN keys : IsFirst(i) ELSE Len(keys) + 1
  BY DEF FirstDuplicate
<1> HIDE DEF Dup
<1>3. CASE \E i \in DOMAIN keys : Dup(i)
  <2>1. \E i \in DOMAIN keys : IsFirst(i)
    <3> DEFINE T == {i \in DOMAIN keys : Dup(i)}
    <3>1. T \in SUBSET Nat /\ T # {}
      BY <1>1, <1>3
    <3>2. PICK i \in T : \A j \in T : i <= j
      <4> HIDE DEF T
      <4> QED
        BY <3>1, LeastNat
    <3>3. IsFirst(i)
      BY <1>1, <3>2
    <3> QED
      BY <3>2, <3>3
  <2>2. FirstDuplicate(keys) \in DOMAIN keys /\ IsFirst(FirstDuplicate(keys))
    BY <1>2, <1>3, <2>1
  <2>3. \A i \in 1 .. (FirstDuplicate(keys) - 1) : ~ Dup(i)
    BY <2>2
  <2> QED
    BY <1>1, <2>2, <2>3 DEF Dup
<1>4. CASE ~ \E i \in DOMAIN keys : Dup(i)
  <2>1. FirstDuplicate(keys) = Len(keys) + 1
    BY <1>2, <1>4
  <2>2. \A i \in 1 .. Len(keys) : ~ Dup(i)
    BY <1>1, <1>4
  <2>3. (Len(keys) + 1) - 1 = Len(keys)
    BY <1>1
  <2> QED
    BY <1>1, <2>1, <2>2, <2>3 DEF Dup
<1> QED
  BY <1>3, <1>4

\* What a creation stores: new and different pairs, under ids never given.
Storing(r, n, stored) ==
  /\ groupIds' = groupIds + n
  /\ registeredGroups' =
       [id \in Ids \union (groupIds .. (groupIds + n - 1)) |->
          IF id \in Ids THEN registeredGroups[id]
          ELSE [key |-> stored[id - groupIds + 1], service |-> ServiceOf[r], by |-> r]]
  /\ \A i \in 1 .. n : /\ ~ Has(registeredGroups, stored[i])
                       /\ \A j \in 1 .. n : stored[j] = stored[i] => j = i

LEMMA CreateEffect ==
  ASSUME TypeOK, NEW r \in Requests, NEW keys \in Creations[r], Create(r, keys)
  PROVE  \E n \in Nat : \E stored \in [1 .. n -> Keys] : Storing(r, n, stored)
<1> DEFINE n == FirstDuplicate(keys) - 1
           stored == SubSeq(keys, 1, n)
<1>1. keys \in Seq(Keys)
  BY GroupsAssumption
<1>2. /\ FirstDuplicate(keys) \in 1 .. (Len(keys) + 1)
      /\ \A i \in 1 .. n : /\ ~ Has(registeredGroups, keys[i])
                           /\ \A j \in 1 .. (i - 1) : keys[j] # keys[i]
  BY <1>1, NoneBeforeFirst
<1>3. Len(keys) \in Nat /\ keys \in [1 .. Len(keys) -> Keys]
  BY <1>1, LenProperties
<1>4. n \in Nat /\ n <= Len(keys) /\ \A i \in 1 .. n : keys[i] \in Keys
  BY <1>2, <1>3
<1>5. /\ registeredGroups' = WithGroups(r, stored)
      /\ groupIds' = groupIds + Len(stored)
  BY DEF Create, IdsAfter
<1> HIDE DEF n
<1>6. /\ stored \in Seq(Keys)
      /\ Len(stored) = IF 1 <= n THEN n - 1 + 1 ELSE 0
      /\ \A i \in 1 .. (n - 1 + 1) : stored[i] = keys[1 + i - 1]
  BY <1>4, SubSeqProperties
<1>7. /\ Len(stored) = n
      /\ \A i \in 1 .. n : stored[i] = keys[i]
  BY <1>4, <1>6
<1>8. stored \in [1 .. n -> Keys]
  BY <1>6, <1>7, LenProperties
<1> HIDE DEF stored
<1>9. \A i \in 1 .. n : /\ ~ Has(registeredGroups, stored[i])
                        /\ \A j \in 1 .. n : stored[j] = stored[i] => j = i
  <2>1. \A i, j \in 1 .. n : j < i => j \in 1 .. (i - 1)
    BY <1>4
  <2>2. \A i, j \in 1 .. n : j < i => stored[j] # stored[i]
    BY <1>2, <1>7, <2>1
  <2>3. \A i \in 1 .. n : ~ Has(registeredGroups, stored[i])
    BY <1>2, <1>7
  <2> QED
    BY <1>4, <2>2, <2>3
<1>10. registeredGroups' =
         [id \in Ids \union (groupIds .. (groupIds + n - 1)) |->
            IF id \in Ids THEN registeredGroups[id]
            ELSE [key |-> stored[id - groupIds + 1], service |-> ServiceOf[r], by |-> r]]
  BY <1>5, <1>7 DEF WithGroups
<1>11. Storing(r, n, stored)
  BY <1>5, <1>7, <1>9, <1>10 DEF Storing
<1> QED
  BY <1>4, <1>8, <1>11

----------------------------------------------------------------------------
\* What the steps do to the requests.

Ats == {"idle", "found", "list", "sent", "taken", "handler"} \union Over

LEMMA GoesToEffect ==
  ASSUME request \in [Requests -> Request], NEW r \in Requests, NEW at \in Ats, GoesTo(r, at)
  PROVE  /\ request' \in [Requests -> Request]
         /\ \A q \in Requests \ {r} : request'[q] = request[q]
         /\ request'[r].at = at /\ request'[r].op = request[r].op
         /\ request'[r].rename \in {request[r].rename, None}
         /\ at \notin Over => request'[r].id = request[r].id
         /\ request'[r].report \in {request[r].report, NoRegistration}
<1>1. NotYet \in Request
  BY EmptySeq DEF NotYet, Request, NoRegistration, Registration, Over
<1>2. [NotYet EXCEPT !.op = request[r].op, !.at = at] \in Request
  BY <1>1 DEF Request, Ats
<1>3. [request[r] EXCEPT !.at = at] \in Request
  BY DEF Request, Ats
<1>4. CASE at \in Over
  <2>1. request' = [request EXCEPT ![r] = [NotYet EXCEPT !.op = request[r].op, !.at = at]]
    BY <1>4 DEF GoesTo
  <2> QED
    BY <1>2, <1>4, <2>1 DEF NotYet
<1>5. CASE at \notin Over
  <2>1. request' = [request EXCEPT ![r] = [request[r] EXCEPT !.at = at]]
    BY <1>5 DEF GoesTo
  <2>2. request[r] \in Request
    OBVIOUS
  <2> QED
    BY <1>3, <1>5, <2>1, <2>2 DEF Request
<1> QED
  BY <1>4, <1>5

\* A request that begins.
LEMMA BecomesEffect ==
  ASSUME request \in [Requests -> Request], NEW r \in Requests,
         NEW fields \in Request, Becomes(r, fields)
  PROVE  /\ request' \in [Requests -> Request]
         /\ \A q \in Requests \ {r} : request'[q] = request[q]
         /\ request'[r] = fields
BY DEF Becomes

----------------------------------------------------------------------------
\* Every step keeps the types, action by action.
LEMMA CreateType ==
  ASSUME TypeOK, NEW r \in Requests, NEW keys \in Creations[r], Create(r, keys)
  PROVE  TypeOK'
<1>1. PICK n \in Nat : \E stored \in [1 .. n -> Keys] : Storing(r, n, stored)
  BY CreateEffect
<1>2. PICK stored \in [1 .. n -> Keys] : Storing(r, n, stored)
  BY <1>1
<1>3. /\ groupIds \in Nat \ {0} /\ Ids \subseteq 1 .. (groupIds - 1)
      /\ registeredGroups \in [Ids -> Group]
  BY DEF TypeOK
<1>4. \A id \in groupIds .. (groupIds + n - 1) : id - groupIds + 1 \in 1 .. n
  BY <1>3
<1>5. Ids' = Ids \union (groupIds .. (groupIds + n - 1))
  BY <1>2 DEF Ids, Storing
<1>6. Ids' \subseteq 1 .. (groupIds' - 1) /\ groupIds' \in Nat \ {0}
  BY <1>2, <1>3, <1>5 DEF Storing
<1>7. registeredGroups' \in [Ids' -> Group]
  BY <1>2, <1>3, <1>4, <1>5 DEF Group, Storing
<1> DEFINE fields(at) == [NotYet EXCEPT !.op = "create", !.keys = keys, !.at = at]
<1>8. PICK at \in {"error", "list", "handler"} : Becomes(r, fields(at))
  BY DEF Create, Registering
<1>9. fields(at) \in Request
  BY GroupsAssumption DEF NotYet, Request, NoRegistration, Registration, Over
<1> HIDE DEF fields
<1>10. request' \in [Requests -> Request]
  BY <1>8, <1>9, BecomesEffect DEF TypeOK
<1>11. UNCHANGED <<iotManager, manager, listed>>
  BY DEF Create
<1> QED
  BY <1>6, <1>7, <1>10, <1>11 DEF TypeOK

\* The first group of a pair, when there is one.
LEMMA SingleGroup ==
  ASSUME TypeOK, NEW key, Has(registeredGroups, key)
  PROVE  GetSingleGroup(key) \in Ids
<1> DEFINE T == {id \in Ids : registeredGroups[id].key = key}
<1>1. T \in SUBSET Nat /\ T # {}
  BY DEF TypeOK, Has, Ids
<1>2. PICK id \in T : \A j \in T : id <= j
  <2> HIDE DEF T
  <2> QED
    BY <1>1, LeastNat
<1>3. /\ id \in Ids /\ registeredGroups[id].key = key
      /\ \A j \in Ids : registeredGroups[j].key = key => id <= j
  BY <1>2
<1> QED
  BY <1>3 DEF GetSingleGroup

LEMMA FindType ==
  ASSUME TypeOK, NEW r \in Requests, NEW op \in {"modify", "remove"}, NEW key \in Keys,
         NEW rename \in Keys \union {None}, Find(r, op, key, rename)
  PROVE  TypeOK'
<1>1. UNCHANGED <<registeredGroups, groupIds, iotManager, manager, listed>>
  BY DEF Find
<1> DEFINE fields(id, at) == [NotYet EXCEPT !.op = op, !.keys = <<key>>, !.rename = rename,
                                            !.id = id, !.at = at]
<1>2. PICK id \in Ids \union {0}, at \in {"found", "error"} : Becomes(r, fields(id, at))
  BY SingleGroup DEF Find
<1>3. id \in Nat
  BY DEF TypeOK
<1>k. <<key>> \in Seq(Keys)
  OBVIOUS
<1>4. fields(id, at) \in Request
  BY <1>3, <1>k DEF NotYet, Request, NoRegistration, Registration, Over
<1> HIDE DEF fields
<1>5. request' \in [Requests -> Request]
  BY <1>2, <1>4, BecomesEffect DEF TypeOK
<1> QED
  BY <1>1, <1>5 DEF TypeOK, Ids

LEMMA ModifyType == ASSUME TypeOK, NEW r \in Requests, Modify(r) PROVE TypeOK'
<1> DEFINE id == request[r].id
           key == request[r].rename
<1>1. UNCHANGED <<groupIds, iotManager, manager, listed>>
  BY DEF Modify
<1>2. PICK at \in {"handler", "error"} : GoesTo(r, at)
  BY DEF Modify
<1>3. request' \in [Requests -> Request]
  BY <1>2, GoesToEffect DEF TypeOK, Ats, Over
<1>4. Ids' = Ids /\ registeredGroups' \in [Ids -> Group]
  <2>1. registeredGroups \in [Ids -> Group] /\ key \in Keys \union {None}
    BY DEF TypeOK, Request
  <2>2. CASE id \in Ids
    <3> DEFINE written == [registeredGroups[id] EXCEPT
                 !.by = r, !.key = IF key = None THEN registeredGroups[id].key ELSE key]
    <3>1. registeredGroups' = [registeredGroups EXCEPT ![id] = written]
      BY <2>1, <2>2 DEF Modify
    <3>2. written \in Group
      BY <2>1, <2>2 DEF Group
    <3> HIDE DEF written
    <3> QED
      BY <2>1, <2>2, <3>1, <3>2 DEF Ids
  <2>3. CASE id \notin Ids
    BY <2>1, <2>3 DEF Modify, Ids
  <2> QED
    BY <2>2, <2>3
<1> QED
  BY <1>1, <1>3, <1>4 DEF TypeOK

LEMMA RemoveType == ASSUME TypeOK, NEW r \in Requests, Remove(r) PROVE TypeOK'
<1>1. UNCHANGED <<groupIds, iotManager, manager, listed>>
  BY DEF Remove
<1>2. PICK at \in {"list", "ok"} : GoesTo(r, at)
  BY DEF Remove, Registering
<1>3. request' \in [Requests -> Request]
  BY <1>2, GoesToEffect DEF TypeOK, Ats, Over
<1>4. Ids' = Ids \ {request[r].id} /\ registeredGroups' \in [Ids' -> Group]
  BY DEF Remove, TypeOK, Ids
<1> QED
  BY <1>1, <1>3, <1>4 DEF TypeOK

LEMMA GetType ==
  ASSUME TypeOK, NEW r \in Requests, NEW wildcard \in BOOLEAN, Get(r, wildcard)
  PROVE  TypeOK' /\ request'[r].rename = None /\ request'[r].at # "found"
<1> DEFINE fields(at) == [NotYet EXCEPT !.op = "get", !.at = at]
<1>1. PICK at \in {"ok", "error"} : Becomes(r, fields(at))
  BY DEF Get
<1>2. fields(at) \in Request /\ fields(at).rename = None /\ fields(at).at # "found"
  BY EmptySeq DEF NotYet, Request, NoRegistration, Registration, Over
<1>3. UNCHANGED <<registeredGroups, groupIds, iotManager, manager, listed>>
  BY DEF Get
<1> HIDE DEF fields
<1>4. request' \in [Requests -> Request] /\ request'[r] = fields(at)
  BY <1>1, <1>2, BecomesEffect DEF TypeOK
<1> QED
  BY <1>2, <1>3, <1>4 DEF TypeOK, Ids

LEMMA GetServicesType ==
  ASSUME TypeOK, NEW r \in Requests, GetServices(r)
  PROVE  TypeOK' /\ request'[r].rename = request[r].rename /\ request'[r].at # "found"
<1>1. request[r] \in Request
  BY DEF TypeOK
<1>2. Listing \in Registration
  BY DEF Listing, Registration, TypeOK, Group
<1> DEFINE now == [request[r] EXCEPT !.at = "sent", !.report = Listing]
<1>3. now \in Request /\ now.rename = request[r].rename /\ now.at = "sent"
  BY <1>1, <1>2 DEF Request
<1>4. request' = [request EXCEPT ![r] = now]
  BY DEF GetServices
<1>5. UNCHANGED <<registeredGroups, groupIds, iotManager, manager>> /\ listed' = listed + 1
  BY DEF GetServices
<1> HIDE DEF now
<1> QED
  BY <1>3, <1>4, <1>5 DEF TypeOK, Ids

LEMMA ManagerTakesType ==
  ASSUME TypeOK, NEW r \in Requests, ManagerTakes(r)
  PROVE  TypeOK' /\ request'[r].rename = request[r].rename /\ request'[r].at # "found"
<1>1. request[r] \in Request
  BY DEF TypeOK
<1> DEFINE now == [request[r] EXCEPT !.at = "taken", !.report = NoRegistration]
<1>2. now \in Request /\ now.rename = request[r].rename /\ now.at = "taken"
  BY <1>1 DEF Request, NoRegistration, Registration
<1>3. request' = [request EXCEPT ![r] = now]
  BY DEF ManagerTakes
<1>4. /\ UNCHANGED <<registeredGroups, groupIds, iotManager, listed>>
      /\ manager' = request[r].report /\ request[r].report \in Registration
  BY <1>1 DEF ManagerTakes, Request
<1> HIDE DEF now
<1> QED
  BY <1>2, <1>3, <1>4 DEF TypeOK, Ids

LEMMA EndType ==
  ASSUME TypeOK, NEW r \in Requests, HandleRegistration(r) \/ ApplyConfigurationHandler(r)
  PROVE  /\ TypeOK' /\ request'[r].rename \in {request[r].rename, None}
         /\ request'[r].at # "found"
<1>1. PICK at \in {"handler", "ok", "error"} : GoesTo(r, at)
  BY DEF HandleRegistration, ApplyConfigurationHandler
<1>2. UNCHANGED <<registeredGroups, groupIds, iotManager, manager, listed>>
  BY DEF HandleRegistration, ApplyConfigurationHandler
<1>3. /\ request' \in [Requests -> Request] /\ request'[r].at # "found"
      /\ request'[r].rename \in {request[r].rename, None}
  BY <1>1, GoesToEffect DEF TypeOK, Ats, Over
<1> QED
  BY <1>2, <1>3 DEF TypeOK, Ids

LEMMA NextType == ASSUME TypeOK, [Next]_vars PROVE TypeOK'
<1>1. CASE UNCHANGED vars
  BY <1>1 DEF vars, TypeOK, Ids
<1>2. CASE Next
  <2>1. Renames \subseteq Keys \union {None}
    BY DEF Renames
  <2>2. PICK r \in Requests :
          \/ \E keys \in Creations[r] : Create(r, keys)
          \/ \E key \in Keys, rename \in Renames : Find(r, "modify", key, rename)
          \/ \E key \in Keys : Find(r, "remove", key, None)
          \/ \E wildcard \in BOOLEAN : Get(r, wildcard)
          \/ AgentStep(r) \/ ManagerTakes(r)
    BY <1>2 DEF Next
  <2> QED
    BY <2>1, <2>2, CreateType, FindType, ModifyType, RemoveType, GetType, GetServicesType,
       ManagerTakesType, EndType DEF AgentStep
<1> QED
  BY <1>1, <1>2

----------------------------------------------------------------------------
\* Without renaming every step keeps the invariant.
LEMMA CreateInv ==
  ASSUME GroupsInv, NEW r \in Requests, NEW keys \in Creations[r], Create(r, keys)
  PROVE  GroupsInv'
<1>1. TypeOK /\ NoRename /\ FoundIsOwn /\ UniquePairs
  BY DEF GroupsInv
<1>n. PICK n \in Nat : \E stored \in [1 .. n -> Keys] : Storing(r, n, stored)
  BY <1>1, CreateEffect
<1>s. PICK stored \in [1 .. n -> Keys] : Storing(r, n, stored)
  BY <1>n
<1>2. /\ groupIds' = groupIds + n
      /\ registeredGroups' =
           [id \in Ids \union (groupIds .. (groupIds + n - 1)) |->
              IF id \in Ids THEN registeredGroups[id]
              ELSE [key |-> stored[id - groupIds + 1], service |-> ServiceOf[r], by |-> r]]
      /\ \A i \in 1 .. n : /\ ~ Has(registeredGroups, stored[i])
                           /\ \A j \in 1 .. n : stored[j] = stored[i] => j = i
  BY <1>s DEF Storing
<1>3. /\ groupIds \in Nat \ {0} /\ Ids \subseteq 1 .. (groupIds - 1)
      /\ registeredGroups \in [Ids -> Group]
  BY <1>1 DEF TypeOK
<1>4. \A id \in groupIds .. (groupIds + n - 1) : id \notin Ids /\ id - groupIds + 1 \in 1 .. n
  BY <1>2, <1>3
<1>5. Ids' = Ids \union (groupIds .. (groupIds + n - 1))
  BY <1>2 DEF Ids
<1>6. /\ \A id \in Ids : registeredGroups'[id] = registeredGroups[id]
      /\ \A id \in groupIds .. (groupIds + n - 1) :
           registeredGroups'[id] =
             [key |-> stored[id - groupIds + 1], service |-> ServiceOf[r], by |-> r]
  BY <1>2, <1>4
<1> DEFINE fields(at) == [NotYet EXCEPT !.op = "create", !.keys = keys, !.at = at]
<1>7. PICK at \in {"error", "list", "handler"} : Becomes(r, fields(at))
  BY DEF Create, Registering
<1>8. fields(at) \in Request /\ fields(at).rename = None /\ fields(at).at # "found"
  BY GroupsAssumption DEF NotYet, Request, NoRegistration, Registration, Over
<1>9. /\ request' \in [Requests -> Request]
      /\ \A q \in Requests \ {r} : request'[q] = request[q]
      /\ request'[r].rename = None /\ request'[r].at # "found"
  <2> HIDE DEF fields
  <2> QED
    BY <1>1, <1>7, <1>8, BecomesEffect DEF TypeOK
<1>10. TypeOK'
  BY <1>1, CreateType
<1>11. NoRename'
  BY <1>1, <1>9 DEF NoRename
<1>12. FoundIsOwn'
  <2> SUFFICES ASSUME NEW q \in Requests, request'[q].at = "found"
               PROVE  /\ request'[q].id < groupIds'
                      /\ request'[q].id \in Ids' =>
                           registeredGroups'[request'[q].id].service = ServiceOf[q]
    BY DEF FoundIsOwn
  <2>1. request'[q] = request[q] /\ request[q].id \in Nat
    BY <1>1, <1>9 DEF TypeOK, Request
  <2>2. request[q].id < groupIds /\ (request[q].id \in Ids =>
          registeredGroups[request[q].id].service = ServiceOf[q])
    BY <1>1, <2>1 DEF FoundIsOwn
  <2>3. request[q].id < groupIds'
    BY <1>2, <1>3, <2>1, <2>2
  <2>4. request[q].id \notin groupIds .. (groupIds + n - 1)
    BY <1>3, <2>1, <2>2
  <2> QED
    BY <1>5, <1>6, <2>1, <2>2, <2>3, <2>4
<1>13. UniquePairs'
  <2> SUFFICES ASSUME NEW i \in Ids', NEW j \in Ids',
                      registeredGroups'[i].key = registeredGroups'[j].key
               PROVE  i = j
    BY DEF UniquePairs
  <2> DEFINE New == groupIds .. (groupIds + n - 1)
  <2>1. \A id \in New : /\ registeredGroups'[id].key = stored[id - groupIds + 1]
                        /\ ~ Has(registeredGroups, registeredGroups'[id].key)
    BY <1>2, <1>4, <1>6
  <2>2. \A id \in Ids : registeredGroups'[id] = registeredGroups[id]
                        /\ Has(registeredGroups, registeredGroups'[id].key)
    BY <1>6 DEF Has, Ids
  <2>3. CASE i \in Ids /\ j \in Ids
    BY <1>1, <1>6, <2>3 DEF UniquePairs
  <2>4. CASE i \in New /\ j \in New
    <3>1. i - groupIds + 1 = j - groupIds + 1
      BY <1>2, <1>4, <2>1, <2>4
    <3> QED
      BY <1>2, <1>3, <2>4, <3>1
  <2> QED
    BY <1>5, <2>1, <2>2, <2>3, <2>4
<1> QED
  BY <1>10, <1>11, <1>12, <1>13 DEF GroupsInv

\* The id that is found is that of a group of the service.
LEMMA FindInv ==
  ASSUME GroupsInv, NEW r \in Requests, NEW op \in {"modify", "remove"}, NEW key \in Keys,
         Find(r, op, key, None)
  PROVE  GroupsInv'
<1>1. TypeOK /\ NoRename /\ FoundIsOwn /\ UniquePairs
  BY DEF GroupsInv
<1>2. UNCHANGED <<registeredGroups, groupIds, iotManager, manager, listed>>
  BY DEF Find
<1>3. Has(registeredGroups, key) => GetSingleGroup(key) \in Ids
  BY <1>1, SingleGroup
<1> DEFINE fields(id, at) == [NotYet EXCEPT !.op = op, !.keys = <<key>>, !.rename = None,
                                            !.id = id, !.at = at]
<1>4. PICK id \in Ids \union {0}, at \in {"found", "error"} :
        /\ Becomes(r, fields(id, at))
        /\ at = "found" => id \in Ids /\ registeredGroups[id].service = ServiceOf[r]
  BY <1>3 DEF Find
<1>5. id \in Nat /\ id < groupIds
  BY <1>1 DEF TypeOK
<1>6. <<key>> \in Seq(Keys)
  OBVIOUS
<1>7. /\ fields(id, at) \in Request /\ fields(id, at).rename = None
      /\ fields(id, at).at = at /\ fields(id, at).id = id
  BY <1>5, <1>6 DEF NotYet, Request, NoRegistration, Registration, Over
<1>8. /\ request' \in [Requests -> Request]
      /\ \A q \in Requests \ {r} : request'[q] = request[q]
      /\ request'[r].rename = None /\ request'[r].at = at /\ request'[r].id = id
  <2> HIDE DEF fields
  <2> QED
    BY <1>1, <1>4, <1>7, BecomesEffect DEF TypeOK
<1>9. TypeOK'
  BY <1>1, FindType
<1>10. NoRename' /\ FoundIsOwn' /\ UniquePairs'
  BY <1>1, <1>2, <1>4, <1>5, <1>8 DEF NoRename, FoundIsOwn, UniquePairs, Ids
<1> QED
  BY <1>9, <1>10 DEF GroupsInv
\* A modification keeps the pair and the service of its group.
LEMMA ModifyInv ==
  ASSUME GroupsInv, NEW r \in Requests, Modify(r)
  PROVE  GroupsInv'
<1> DEFINE id == request[r].id
<1>1. TypeOK /\ NoRename /\ FoundIsOwn /\ UniquePairs
  BY DEF GroupsInv
<1>2. UNCHANGED <<groupIds, iotManager, manager, listed>>
  BY DEF Modify
<1>3. PICK at \in {"handler", "error"} : GoesTo(r, at)
  BY DEF Modify
<1>4. /\ request' \in [Requests -> Request]
      /\ \A q \in Requests \ {r} : request'[q] = request[q]
      /\ request'[r].rename = None /\ request'[r].at # "found"
  BY <1>1, <1>3, GoesToEffect DEF TypeOK, NoRename, Ats, Over
<1>5. /\ Ids' = Ids /\ registeredGroups' \in [Ids -> Group]
      /\ \A i \in Ids : /\ registeredGroups'[i].key = registeredGroups[i].key
                        /\ registeredGroups'[i].service = registeredGroups[i].service
  <2>1. registeredGroups \in [Ids -> Group] /\ request[r].rename = None
    BY <1>1 DEF TypeOK, NoRename
  <2>2. CASE id \in Ids
    <3>1. registeredGroups' = [registeredGroups EXCEPT
            ![id] = [registeredGroups[id] EXCEPT !.by = r, !.key = registeredGroups[id].key]]
      BY <2>1, <2>2 DEF Modify
    <3> QED
      BY <2>1, <2>2, <3>1 DEF Group, Ids
  <2>3. CASE id \notin Ids
    <3>1. registeredGroups' = registeredGroups
      BY <2>3 DEF Modify
    <3> QED
      BY <2>1, <3>1 DEF Ids
  <2> QED
    BY <2>2, <2>3
<1>6. TypeOK'
  BY <1>1, ModifyType
<1>7. NoRename' /\ FoundIsOwn' /\ UniquePairs'
  BY <1>1, <1>2, <1>4, <1>5 DEF NoRename, FoundIsOwn, UniquePairs
<1> QED
  BY <1>6, <1>7 DEF GroupsInv

LEMMA RemoveInv ==
  ASSUME GroupsInv, NEW r \in Requests, Remove(r)
  PROVE  GroupsInv'
<1>1. TypeOK /\ NoRename /\ FoundIsOwn /\ UniquePairs
  BY DEF GroupsInv
<1>2. UNCHANGED <<groupIds, iotManager, manager, listed>>
  BY DEF Remove
<1>3. PICK at \in {"list", "ok"} : GoesTo(r, at)
  BY DEF Remove, Registering
<1>4. /\ request' \in [Requests -> Request]
      /\ \A q \in Requests \ {r} : request'[q] = request[q]
      /\ request'[r].rename = None /\ request'[r].at # "found"
  BY <1>1, <1>3, GoesToEffect DEF TypeOK, NoRename, Ats, Over
<1>5. /\ Ids' = Ids \ {request[r].id}
      /\ \A i \in Ids' : registeredGroups'[i] = registeredGroups[i]
  BY <1>1 DEF Remove, TypeOK, Ids
<1>6. TypeOK'
  BY <1>1, RemoveType
<1>7. NoRename' /\ FoundIsOwn' /\ UniquePairs'
  BY <1>1, <1>2, <1>4, <1>5 DEF NoRename, FoundIsOwn, UniquePairs
<1> QED
  BY <1>6, <1>7 DEF GroupsInv

\* A step that goes on with a request and leaves the registry alone.
LEMMA GoesOnInv ==
  ASSUME GroupsInv, TypeOK', NEW r \in Requests,
         \A q \in Requests \ {r} : request'[q] = request[q],
         request'[r].rename = None, request'[r].at # "found",
         UNCHANGED <<registeredGroups, groupIds>>
  PROVE  GroupsInv'
BY DEF GroupsInv, NoRename, FoundIsOwn, UniquePairs, Ids

LEMMA NextInv == ASSUME ~ MayRename, GroupsInv, [Next]_vars PROVE GroupsInv'
<1>1. TypeOK /\ NoRename /\ Renames = {None} /\ request \in [Requests -> Request]
  BY DEF GroupsInv, Renames, TypeOK
<1>2. ASSUME NEW r \in Requests, NEW keys \in Creations[r], Create(r, keys)
      PROVE  GroupsInv'
  BY <1>2, CreateInv
<1>3. ASSUME NEW r \in Requests, NEW key \in Keys,
             Find(r, "modify", key, None) \/ Find(r, "remove", key, None)
      PROVE  GroupsInv'
  BY <1>3, FindInv
<1>4. ASSUME NEW r \in Requests, NEW wildcard \in BOOLEAN, Get(r, wildcard)
      PROVE  GroupsInv'
  <2>1. /\ UNCHANGED <<registeredGroups, groupIds>>
        /\ \A q \in Requests \ {r} : request'[q] = request[q]
    BY <1>1, <1>4 DEF Get, Becomes
  <2> QED
    BY <1>1, <1>4, <2>1, GetType, GoesOnInv
<1>5. ASSUME NEW r \in Requests,
             \/ GetServices(r) \/ ManagerTakes(r)
             \/ HandleRegistration(r) \/ ApplyConfigurationHandler(r)
      PROVE  GroupsInv'
  <2>1. request[r].rename = None
    BY <1>1 DEF NoRename
  <2>2. TypeOK' /\ request'[r].rename = None /\ request'[r].at # "found"
    BY <1>1, <1>5, <2>1, GetServicesType, ManagerTakesType, EndType
  <2>3. UNCHANGED <<registeredGroups, groupIds>>
    BY <1>5 DEF GetServices, ManagerTakes, HandleRegistration, ApplyConfigurationHandler
  <2>4. \A q \in Requests \ {r} : request'[q] = request[q]
    BY <1>1, <1>5 DEF GetServices, ManagerTakes, HandleRegistration, ApplyConfigurationHandler,
                      GoesTo
  <2> QED
    BY <2>2, <2>3, <2>4, GoesOnInv
<1>6. CASE UNCHANGED vars
  BY <1>6 DEF GroupsInv, TypeOK, NoRename, FoundIsOwn, UniquePairs, Ids, vars
<1> QED
  BY <1>1, <1>2, <1>3, <1>4, <1>5, <1>6, ModifyInv, RemoveInv DEF Next, AgentStep

----------------------------------------------------------------------------
\* The refinement: what the registry's groups are, seen as a directory.

FirstOf(groups, k) ==
  CHOOSE id \in DOMAIN groups : /\ groups[id].key = k
                                /\ \A j \in DOMAIN groups : groups[j].key = k => id <= j

EntryOf(group) == [service |-> group.service, by |-> group.by]

DirectoryOf(groups) ==
  [k \in Keys |-> IF Has(groups, k) THEN EntryOf(groups[FirstOf(groups, k)]) ELSE None]

\* The groups by id whose pairs are unique.
UniqueIn(groups) ==
  /\ DOMAIN groups \subseteq Nat
  /\ \A i, j \in DOMAIN groups : groups[i].key = groups[j].key => i = j

LEMMA DirectoryEntry ==
  ASSUME NEW groups, UniqueIn(groups), NEW id \in DOMAIN groups, groups[id].key \in Keys
  PROVE  DirectoryOf(groups)[groups[id].key] = EntryOf(groups[id])
<1> DEFINE k == groups[id].key
<1>1. Has(groups, k)
  BY DEF Has
<1>2. FirstOf(groups, k) = id
  <2>1. /\ groups[id].key = k
        /\ \A j \in DOMAIN groups : groups[j].key = k => id <= j
    BY DEF UniqueIn
  <2>2. /\ FirstOf(groups, k) \in DOMAIN groups
        /\ groups[FirstOf(groups, k)].key = k
    BY <2>1 DEF FirstOf
  <2> QED
    BY <2>2 DEF UniqueIn
<1> QED
  BY <1>1, <1>2 DEF DirectoryOf

LEMMA NoEntry ==
  ASSUME NEW groups, NEW k \in Keys, ~ Has(groups, k)
  PROVE  DirectoryOf(groups)[k] = None
BY DEF DirectoryOf

\* What a creation does to the groups by id: it stores one with this entry under
\* each new id, all of pairs that had none.
Stores(groups, after, new, entry) ==
  /\ UniqueIn(groups) /\ UniqueIn(after)
  /\ DOMAIN groups \intersect new = {} /\ DOMAIN after = DOMAIN groups \union new
  /\ \A id \in DOMAIN groups : after[id] = groups[id]
  /\ \A id \in new : EntryOf(after[id]) = entry /\ ~ Has(groups, after[id].key)
  /\ \A id \in DOMAIN after : after[id].key \in Keys

\* It adds the pairs to the directory.
LEMMA StoredAreAdded ==
  ASSUME NEW groups, NEW after, NEW new, NEW entry, Stores(groups, after, new, entry)
  PROVE  \E K \in SUBSET Keys :
           /\ \A k \in K : DirectoryOf(groups)[k] = None
           /\ DirectoryOf(after) =
                [k \in Keys |-> IF k \in K THEN entry ELSE DirectoryOf(groups)[k]]
<1> USE DEF Stores
<1> DEFINE K == {after[id].key : id \in new}
<1>1. K \in SUBSET Keys /\ \A k \in K : DirectoryOf(groups)[k] = None
  BY NoEntry
<1>2. ASSUME NEW k \in Keys
      PROVE  DirectoryOf(after)[k] = IF k \in K THEN entry ELSE DirectoryOf(groups)[k]
  <2>1. CASE k \in K
    <3>1. PICK id \in new : after[id].key = k
      BY <2>1
    <3>2. DirectoryOf(after)[k] = EntryOf(after[id])
      BY <3>1, DirectoryEntry
    <3> QED
      BY <2>1, <3>2
  <2>2. CASE k \notin K /\ Has(groups, k)
    <3>1. PICK id \in DOMAIN groups : groups[id].key = k
      BY <2>2 DEF Has
    <3>2. DirectoryOf(after)[k] = EntryOf(after[id])
      BY <3>1, DirectoryEntry
    <3>3. DirectoryOf(groups)[k] = EntryOf(groups[id])
      BY <3>1, DirectoryEntry
    <3> QED
      BY <2>2, <3>1, <3>2, <3>3
  <2>3. CASE k \notin K /\ ~ Has(groups, k)
    <3>1. ~ Has(after, k)
      BY <2>3 DEF Has
    <3> QED
      BY <2>3, <3>1, NoEntry
  <2> QED
    BY <2>1, <2>2, <2>3
<1>3. DirectoryOf(after) = [k \in Keys |-> DirectoryOf(after)[k]]
  BY DEF DirectoryOf
<1>4. DirectoryOf(after) =
        [k \in Keys |-> IF k \in K THEN entry ELSE DirectoryOf(groups)[k]]
  BY <1>2, <1>3
<1> QED
  BY <1>1, <1>4

\* Writing into one of the groups, or deleting it, does so to its pair's entry.
LEMMA OneEntryChanges ==
  ASSUME NEW groups, NEW after, UniqueIn(groups), UniqueIn(after), NEW id \in DOMAIN groups,
         \/ DOMAIN after = DOMAIN groups /\ after[id].key = groups[id].key
         \/ DOMAIN after = DOMAIN groups \ {id},
         \A i \in DOMAIN groups \ {id} : after[i] = groups[i],
         \A i \in DOMAIN groups : groups[i].key \in Keys
  PROVE  DirectoryOf(after) =
           [DirectoryOf(groups) EXCEPT ![groups[id].key] =
              IF id \in DOMAIN after THEN EntryOf(after[id]) ELSE None]
<1> DEFINE key == groups[id].key
           entry == IF id \in DOMAIN after THEN EntryOf(after[id]) ELSE None
<1>1. ASSUME NEW k \in Keys
      PROVE  DirectoryOf(after)[k] = IF k = key THEN entry ELSE DirectoryOf(groups)[k]
  <2>1. CASE k = key /\ id \in DOMAIN after
    BY <2>1, DirectoryEntry
  <2>2. CASE k = key /\ id \notin DOMAIN after
    <3>1. ~ Has(after, k)
      BY <2>2 DEF Has, UniqueIn
    <3> QED
      BY <2>2, <3>1, NoEntry
  <2>3. CASE k # key /\ Has(groups, k)
    <3>1. PICK i \in DOMAIN groups : groups[i].key = k
      BY <2>3 DEF Has
    <3>2. i # id /\ i \in DOMAIN after /\ after[i] = groups[i]
      BY <2>3, <3>1
    <3>3. DirectoryOf(after)[k] = EntryOf(after[i])
      BY <3>1, <3>2, DirectoryEntry
    <3>4. DirectoryOf(groups)[k] = EntryOf(groups[i])
      BY <3>1, DirectoryEntry
    <3> QED
      BY <2>3, <3>2, <3>3, <3>4
  <2>4. CASE k # key /\ ~ Has(groups, k)
    <3>1. ~ Has(after, k)
      BY <2>4 DEF Has
    <3> QED
      BY <2>4, <3>1, NoEntry
  <2> QED
    BY <2>1, <2>2, <2>3, <2>4
<1>2. /\ DirectoryOf(after) = [k \in Keys |-> DirectoryOf(after)[k]]
      /\ DirectoryOf(groups) = [k \in Keys |-> DirectoryOf(groups)[k]]
  BY DEF DirectoryOf
<1> HIDE DEF entry
<1>3. DirectoryOf(after) = [DirectoryOf(groups) EXCEPT ![key] = entry]
  BY <1>1, <1>2
<1> QED
  BY <1>3 DEF entry
\* The directory that Groups!Directory sees.
Seen == DirectoryOf(registeredGroups)

LEMMA SeenIsMapped ==
  /\ Seen = [k \in Keys |->
        IF Has(registeredGroups, k)
        THEN LET g == registeredGroups[GetSingleGroup(k)] IN [service |-> g.service, by |-> g.by]
        ELSE None]
  /\ Seen' = [k \in Keys |->
        IF Has(registeredGroups, k)
        THEN LET g == registeredGroups[GetSingleGroup(k)] IN [service |-> g.service, by |-> g.by]
        ELSE None]'
BY DEF Seen, DirectoryOf, EntryOf, FirstOf, GetSingleGroup, Ids

LEMMA UniqueNow == GroupsInv => UniqueIn(registeredGroups)
BY DEF GroupsInv, TypeOK, UniquePairs, UniqueIn, Ids

LEMMA UniqueNext == GroupsInv' => UniqueIn(registeredGroups')
BY DEF GroupsInv, TypeOK, UniquePairs, UniqueIn, Ids

\* A creation adds what it stores.
LEMMA CreateAdds ==
  ASSUME GroupsInv, GroupsInv', NEW r \in Requests, NEW keys \in Creations[r], Create(r, keys)
  PROVE  \E K \in SUBSET Keys :
           /\ \A k \in K : Seen[k] = None
           /\ Seen' = [k \in Keys |-> IF k \in K THEN Directory!Entry(r) ELSE Seen[k]]
<1>1. TypeOK
  BY DEF GroupsInv
<1>2. PICK n \in Nat : \E stored \in [1 .. n -> Keys] : Storing(r, n, stored)
  BY <1>1, CreateEffect
<1>s. PICK stored \in [1 .. n -> Keys] : Storing(r, n, stored)
  BY <1>2
<1>3. /\ registeredGroups' =
           [id \in Ids \union (groupIds .. (groupIds + n - 1)) |->
              IF id \in Ids THEN registeredGroups[id]
              ELSE [key |-> stored[id - groupIds + 1], service |-> ServiceOf[r], by |-> r]]
      /\ \A i \in 1 .. n : ~ Has(registeredGroups, stored[i])
  BY <1>s DEF Storing
<1> DEFINE New == groupIds .. (groupIds + n - 1)
<1>4. /\ groupIds \in Nat \ {0} /\ Ids \subseteq 1 .. (groupIds - 1)
      /\ registeredGroups \in [Ids -> Group]
  BY <1>1 DEF TypeOK
<1>5. \A id \in New : id \notin Ids /\ id - groupIds + 1 \in 1 .. n
  BY <1>2, <1>4
<1>6. Ids \intersect New = {} /\ Ids' = Ids \union New
  BY <1>3, <1>5 DEF Ids
<1>7. \A id \in Ids : registeredGroups'[id] = registeredGroups[id]
  BY <1>3
<1>8. \A id \in New :
        registeredGroups'[id] =
          [key |-> stored[id - groupIds + 1], service |-> ServiceOf[r], by |-> r]
  BY <1>3, <1>5
<1>9. \A id \in New : /\ EntryOf(registeredGroups'[id]) = Directory!Entry(r)
                      /\ ~ Has(registeredGroups, registeredGroups'[id].key)
                      /\ registeredGroups'[id].key \in Keys
  BY <1>3, <1>5, <1>8 DEF EntryOf, Directory!Entry
<1>10. \A id \in Ids' : registeredGroups'[id].key \in Keys
  BY <1>4, <1>6, <1>7, <1>9 DEF Group
<1>11. UniqueIn(registeredGroups) /\ UniqueIn(registeredGroups')
  BY UniqueNow, UniqueNext
<1> DEFINE after == registeredGroups'
<1>12. /\ DOMAIN registeredGroups \intersect New = {}
       /\ DOMAIN after = DOMAIN registeredGroups \union New
       /\ \A id \in DOMAIN registeredGroups : after[id] = registeredGroups[id]
       /\ \A id \in DOMAIN after : after[id].key \in Keys
  BY <1>6, <1>7, <1>10 DEF Ids
<1>13. /\ \A id \in New : EntryOf(after[id]) = Directory!Entry(r)
       /\ \A id \in New : ~ Has(registeredGroups, after[id].key)
       /\ UniqueIn(registeredGroups) /\ UniqueIn(after)
  BY <1>9, <1>11
<1>14. \E K \in SUBSET Keys :
         /\ \A k \in K : DirectoryOf(registeredGroups)[k] = None
         /\ DirectoryOf(after) =
              [k \in Keys |-> IF k \in K THEN Directory!Entry(r)
                             ELSE DirectoryOf(registeredGroups)[k]]
  <2> DEFINE entry == Directory!Entry(r)
  <2>1. Stores(registeredGroups, after, New, entry)
    BY <1>12, <1>13 DEF Stores
  <2>2. \E K \in SUBSET Keys :
          /\ \A k \in K : DirectoryOf(registeredGroups)[k] = None
          /\ DirectoryOf(after) =
               [k \in Keys |-> IF k \in K THEN entry ELSE DirectoryOf(registeredGroups)[k]]
    <3> HIDE DEF after, entry, New
    <3> QED
      BY <2>1, StoredAreAdded
  <2> QED
    BY <2>2
<1> QED
  BY <1>14 DEF Seen

\* A modification or removal changes or drops the entry of its own service's group,
\* or nothing.
LEMMA ModifyChanges ==
  ASSUME GroupsInv, GroupsInv', NEW r \in Requests, Modify(r)
  PROVE  \/ Seen' = Seen
         \/ \E k \in Keys : /\ Seen[k] # None /\ Seen[k].service = ServiceOf[r]
                            /\ Seen' = [Seen EXCEPT ![k] = Directory!Entry(r)]
<1> DEFINE id == request[r].id
<1>1. TypeOK /\ NoRename /\ FoundIsOwn
  BY DEF GroupsInv
<1>2. registeredGroups \in [Ids -> Group] /\ request[r].rename = None
  BY <1>1 DEF TypeOK, NoRename
<1>3. CASE id \notin Ids
  BY <1>3 DEF Modify, Seen
<1>4. CASE id \in Ids
  <2>1. registeredGroups' = [registeredGroups EXCEPT
          ![id] = [registeredGroups[id] EXCEPT !.by = r, !.key = registeredGroups[id].key]]
    BY <1>2, <1>4 DEF Modify
  <2>2. registeredGroups[id].service = ServiceOf[r] /\ registeredGroups[id] \in Group
    BY <1>1, <1>2, <1>4 DEF FoundIsOwn, Modify
  <2>3. /\ DOMAIN registeredGroups' = DOMAIN registeredGroups
        /\ registeredGroups'[id].key = registeredGroups[id].key
        /\ \A i \in Ids \ {id} : registeredGroups'[i] = registeredGroups[i]
        /\ EntryOf(registeredGroups'[id]) = Directory!Entry(r)
    BY <1>2, <1>4, <2>1, <2>2 DEF Group, Ids, EntryOf, Directory!Entry
  <2>4. \A i \in Ids : registeredGroups[i].key \in Keys
    BY <1>2 DEF Group
  <2> DEFINE after == registeredGroups'
  <2>5. Seen' = [Seen EXCEPT ![registeredGroups[id].key] = Directory!Entry(r)]
    <3>1. DirectoryOf(after) =
            [DirectoryOf(registeredGroups) EXCEPT ![registeredGroups[id].key] =
               IF id \in DOMAIN after THEN EntryOf(after[id]) ELSE None]
      <4>1. /\ id \in DOMAIN registeredGroups /\ DOMAIN after = DOMAIN registeredGroups
            /\ after[id].key = registeredGroups[id].key
            /\ \A i \in DOMAIN registeredGroups \ {id} : after[i] = registeredGroups[i]
            /\ \A i \in DOMAIN registeredGroups : registeredGroups[i].key \in Keys
            /\ UniqueIn(registeredGroups) /\ UniqueIn(after)
        BY <1>4, <2>3, <2>4, UniqueNow, UniqueNext DEF Ids
      <4> HIDE DEF after, id
      <4> QED
        BY <4>1, OneEntryChanges
    <3>2. (IF id \in DOMAIN after THEN EntryOf(after[id]) ELSE None) = Directory!Entry(r)
      BY <1>4, <2>3 DEF Ids
    <3> QED
      BY <3>1, <3>2 DEF Seen
  <2>6. Seen[registeredGroups[id].key] = EntryOf(registeredGroups[id])
    BY <1>4, <2>4, UniqueNow, DirectoryEntry DEF Ids, Seen
  <2>7. EntryOf(registeredGroups[id]) # None /\ EntryOf(registeredGroups[id]).service = ServiceOf[r]
    BY <1>1, <1>4, <2>2, GroupsAssumption DEF EntryOf, Group, TypeOK
  <2> QED
    BY <1>4, <2>4, <2>5, <2>6, <2>7
<1> QED
  BY <1>3, <1>4

LEMMA RemoveDrops ==
  ASSUME GroupsInv, GroupsInv', NEW r \in Requests, Remove(r)
  PROVE  \/ Seen' = Seen
         \/ \E k \in Keys : /\ Seen[k] # None /\ Seen[k].service = ServiceOf[r]
                            /\ Seen' = [Seen EXCEPT ![k] = None]
<1> DEFINE id == request[r].id
<1>1. TypeOK /\ FoundIsOwn
  BY DEF GroupsInv
<1>2. /\ registeredGroups \in [Ids -> Group]
      /\ registeredGroups' = [i \in Ids \ {id} |-> registeredGroups[i]]
  BY <1>1 DEF TypeOK, Remove
<1>3. CASE id \notin Ids
  <2>1. registeredGroups' = registeredGroups
    BY <1>2, <1>3
  <2> QED
    BY <2>1 DEF Seen
<1>4. CASE id \in Ids
  <2>1. /\ DOMAIN registeredGroups' = DOMAIN registeredGroups \ {id}
        /\ \A i \in Ids \ {id} : registeredGroups'[i] = registeredGroups[i]
    BY <1>2 DEF Ids
  <2>2. registeredGroups[id].service = ServiceOf[r]
    BY <1>1, <1>4 DEF FoundIsOwn, Remove
  <2>3. \A i \in Ids : registeredGroups[i].key \in Keys
    BY <1>2 DEF Group
  <2>4. Seen' = [Seen EXCEPT ![registeredGroups[id].key] = None]
    BY <1>4, <2>1, <2>3, UniqueNow, UniqueNext, OneEntryChanges DEF Ids, Seen
  <2>5. Seen[registeredGroups[id].key] = EntryOf(registeredGroups[id])
    BY <1>4, <2>3, UniqueNow, DirectoryEntry DEF Ids, Seen
  <2>6. EntryOf(registeredGroups[id]) # None /\ EntryOf(registeredGroups[id]).service = ServiceOf[r]
    BY <1>1, <1>4, <2>2, GroupsAssumption DEF EntryOf, Group, TypeOK
  <2> QED
    BY <1>4, <2>3, <2>4, <2>5, <2>6
<1> QED
  BY <1>3, <1>4
LEMMA NextDirectory ==
  ASSUME GroupsInv, GroupsInv', [Next]_vars
  PROVE  \/ Seen' = Seen
         \/ \E r \in Requests :
              \/ \E K \in SUBSET Keys :
                   /\ \A k \in K : Seen[k] = None
                   /\ Seen' = [k \in Keys |-> IF k \in K THEN Directory!Entry(r) ELSE Seen[k]]
              \/ \E k \in Keys :
                   /\ Seen[k] # None /\ Seen[k].service = ServiceOf[r]
                   /\ \/ Seen' = [Seen EXCEPT ![k] = Directory!Entry(r)]
                      \/ Seen' = [Seen EXCEPT ![k] = None]
<1>1. ASSUME NEW r \in Requests, NEW keys \in Creations[r], Create(r, keys)
      PROVE  \E K \in SUBSET Keys :
               /\ \A k \in K : Seen[k] = None
               /\ Seen' = [k \in Keys |-> IF k \in K THEN Directory!Entry(r) ELSE Seen[k]]
  BY <1>1, CreateAdds
<1>2. CASE UNCHANGED vars
  BY <1>2 DEF vars, Seen
<1>3. CASE Next
  <2>1. PICK r \in Requests :
          \/ \E keys \in Creations[r] : Create(r, keys)
          \/ Modify(r)
          \/ Remove(r)
          \/ registeredGroups' = registeredGroups
    BY <1>3 DEF Next, AgentStep, Find, Get, GetServices, ManagerTakes, HandleRegistration,
                ApplyConfigurationHandler
  <2>2. CASE \E keys \in Creations[r] : Create(r, keys)
    BY <1>1, <2>2
  <2>3. CASE Modify(r)
    BY <2>3, ModifyChanges
  <2>4. CASE Remove(r)
    BY <2>4, RemoveDrops
  <2>5. CASE registeredGroups' = registeredGroups
    BY <2>5 DEF Seen
  <2> QED
    BY <2>1, <2>2, <2>3, <2>4, <2>5
<1> QED
  BY <1>2, <1>3

----------------------------------------------------------------------------
LEMMA InitInv == Init => GroupsInv
BY EmptySeq, GroupsAssumption
DEF Init, GroupsInv, TypeOK, NoRename, FoundIsOwn, UniquePairs, Ids, NotYet, Request, NoRegistration,
    Registration, Over

LEMMA Invariance == ASSUME ~ MayRename PROVE Spec => []GroupsInv
<1>1. Init => GroupsInv
  BY InitInv
<1>2. GroupsInv /\ [Next]_vars => GroupsInv'
  BY NextInv
<1> QED
  BY <1>1, <1>2, PTL DEF Spec

\* Every variable holds values of its kind, whatever pairs the bodies hold.
THEOREM TypeCorrect == Spec => []TypeOK
<1>1. Init => TypeOK
  BY InitInv DEF GroupsInv
<1>2. TypeOK /\ [Next]_vars => TypeOK'
  BY NextType
<1> QED
  BY <1>1, <1>2, PTL DEF Spec

\* The pair of every group is unique as long as no PUT writes another one: creations
\* compare their pairs with the registry, and with each other (createGroup).
THEOREM PairsAreUnique == ASSUME ~ MayRename PROVE Spec => []UniquePairs
<1>1. GroupsInv => UniquePairs
  BY DEF GroupsInv
<1> QED
  BY <1>1, Invariance, PTL

\* The administration API implements the directory: a modification or removal acts
\* on an id two turns after it looked it up, and still only ever changes or drops a
\* group of its own service, since no id serves again (groupService.js, the
\* memory registry).
THEOREM DirectoryImplemented == ASSUME ~ MayRename PROVE Spec => ImplementsDirectory
<1>1. Init => Directory!Init
  <2>1. Init => Seen = [k \in Keys |-> None]
    BY DEF Init, Seen, DirectoryOf, Has
  <2> QED
    BY <2>1, SeenIsMapped DEF Directory!Init
<1>2. GroupsInv /\ GroupsInv' /\ [Next]_vars
        => [Directory!Next]_([k \in Keys |->
              IF Has(registeredGroups, k)
              THEN LET g == registeredGroups[GetSingleGroup(k)]
                   IN [service |-> g.service, by |-> g.by]
              ELSE None])
  <2> SUFFICES ASSUME GroupsInv, GroupsInv', [Next]_vars
               PROVE  [Directory!Next]_([k \in Keys |->
                        IF Has(registeredGroups, k)
                        THEN LET g == registeredGroups[GetSingleGroup(k)]
                             IN [service |-> g.service, by |-> g.by]
                        ELSE None])
    OBVIOUS
  <2>1. CASE Seen' = Seen
    BY <2>1, SeenIsMapped
  <2>2. ASSUME NEW r \in Requests, NEW K \in SUBSET Keys, \A k \in K : Seen[k] = None,
               Seen' = [k \in Keys |-> IF k \in K THEN Directory!Entry(r) ELSE Seen[k]]
        PROVE  Directory!Next
    <3>1. Directory!Add(r, K)
      BY <2>2, SeenIsMapped DEF Directory!Add
    <3> QED
      BY <3>1 DEF Directory!Next
  <2>3. ASSUME NEW r \in Requests, NEW k \in Keys, Seen[k] # None, Seen[k].service = ServiceOf[r],
               \/ Seen' = [Seen EXCEPT ![k] = Directory!Entry(r)]
               \/ Seen' = [Seen EXCEPT ![k] = None]
        PROVE  Directory!Next
    <3>1. Directory!Owns(r, k)
      BY <2>3, SeenIsMapped DEF Directory!Owns
    <3>2. Directory!Change(r, k) \/ Directory!Drop(r, k)
      BY <2>3, <3>1, SeenIsMapped DEF Directory!Change, Directory!Drop
    <3> QED
      BY <3>2 DEF Directory!Next
  <2> QED
    BY <2>1, <2>2, <2>3, NextDirectory
<1> QED
  BY <1>1, <1>2, Invariance, PTL DEF Spec, ImplementsDirectory, Directory!Spec

----------------------------------------------------------------------------
\* The IoT Manager.

\* A step of r that neither lists the groups nor changes what a list of them holds.
LEMMA QuietStep ==
  ASSUME ManagerInv, NEW r \in Requests,
         \A q \in Requests \ {r} : request'[q] = request[q],
         request'[r].report.rank <= listed, request'[r].at # "sent", ~ IsUntold(r),
         UNCHANGED <<iotManager, manager, listed>>, Current' = Current
  PROVE  ManagerInv'
BY DEF ManagerInv, RanksListed, LastListIsCurrent, Untold, IsUntold

\* A step after which r has yet to tell the manager, or failed.
LEMMA TellingStep ==
  ASSUME ManagerInv, NEW r \in Requests,
         \A q \in Requests \ {r} : request'[q] = request[q],
         request'[r].report.rank <= listed, iotManager => IsUntold(r)',
         UNCHANGED <<iotManager, manager, listed>>
  PROVE  ManagerInv'
BY DEF ManagerInv, RanksListed, Untold, IsUntold

LEMMA SameGroups == ASSUME registeredGroups' = registeredGroups PROVE Current' = Current
BY DEF Current, Ids

LEMMA CreateManager ==
  ASSUME GroupsInv, ManagerInv, NEW r \in Requests, NEW keys \in Creations[r], Create(r, keys)
  PROVE  ManagerInv'
<1> DEFINE fields(at) == [NotYet EXCEPT !.op = "create", !.keys = keys, !.at = at]
<1>1. PICK at \in {"error", "list", "handler"} :
        Becomes(r, fields(at)) /\ (iotManager => at \in {"error", "list"})
  BY DEF Create, Registering
<1>2. /\ fields(at) \in Request /\ fields(at).op = "create" /\ fields(at).at = at
      /\ fields(at).report.rank = 0
  BY GroupsAssumption DEF NotYet, Request, NoRegistration, Registration, Over
<1> HIDE DEF fields
<1>3. /\ \A q \in Requests \ {r} : request'[q] = request[q]
      /\ request'[r] = fields(at)
  BY <1>1, <1>2, BecomesEffect DEF GroupsInv, TypeOK
<1>4. UNCHANGED <<iotManager, manager, listed>> /\ listed \in Nat
  BY DEF Create, GroupsInv, TypeOK
<1> QED
  BY <1>1, <1>2, <1>3, <1>4, TellingStep DEF IsUntold

LEMMA FindManager ==
  ASSUME GroupsInv, ManagerInv, NEW r \in Requests, NEW op \in {"modify", "remove"},
         NEW key \in Keys, Find(r, op, key, None)
  PROVE  ManagerInv'
<1> DEFINE fields(id, at) == [NotYet EXCEPT !.op = op, !.keys = <<key>>, !.rename = None,
                                            !.id = id, !.at = at]
<1>1. PICK id, at : Becomes(r, fields(id, at)) /\ at \in {"found", "error"}
  BY DEF Find
<1>2. fields(id, at).report.rank = 0 /\ fields(id, at).at = at
  BY DEF NotYet, NoRegistration
<1> HIDE DEF fields
<1>3. /\ \A q \in Requests \ {r} : request'[q] = request[q]
      /\ request'[r] = fields(id, at)
  BY <1>1 DEF GroupsInv, TypeOK, Becomes
<1>4. /\ UNCHANGED <<iotManager, manager, listed>> /\ listed \in Nat
      /\ registeredGroups' = registeredGroups /\ ~ IsUntold(r)
  BY DEF Find, GroupsInv, TypeOK, IsUntold, Begins
<1> QED
  BY <1>1, <1>2, <1>3, <1>4, QuietStep, SameGroups

LEMMA GetManager ==
  ASSUME GroupsInv, ManagerInv, NEW r \in Requests, NEW wildcard \in BOOLEAN, Get(r, wildcard)
  PROVE  ManagerInv'
<1> DEFINE fields(at) == [NotYet EXCEPT !.op = "get", !.at = at]
<1>1. PICK at : Becomes(r, fields(at)) /\ at \in {"ok", "error"}
  BY DEF Get
<1>2. fields(at).report.rank = 0 /\ fields(at).at = at
  BY DEF NotYet, NoRegistration
<1> HIDE DEF fields
<1>3. /\ \A q \in Requests \ {r} : request'[q] = request[q]
      /\ request'[r] = fields(at)
  BY <1>1 DEF GroupsInv, TypeOK, Becomes
<1>4. /\ UNCHANGED <<iotManager, manager, listed>> /\ listed \in Nat
      /\ registeredGroups' = registeredGroups /\ ~ IsUntold(r)
  BY DEF Get, GroupsInv, TypeOK, IsUntold, Begins
<1> QED
  BY <1>1, <1>2, <1>3, <1>4, QuietStep, SameGroups

\* What GoesTo leaves to be sent was listed.
LEMMA GoesToReport ==
  ASSUME GroupsInv, ManagerInv, NEW r \in Requests, NEW at \in Ats, GoesTo(r, at)
  PROVE  request'[r].report.rank <= listed
BY GoesToEffect DEF GroupsInv, TypeOK, ManagerInv, RanksListed, NoRegistration

LEMMA ModifyManager ==
  ASSUME GroupsInv, ManagerInv, NEW r \in Requests, Modify(r)
  PROVE  ManagerInv'
<1> DEFINE id == request[r].id
<1>1. PICK at \in {"handler", "error"} : GoesTo(r, at)
  BY DEF Modify
<1>2. /\ \A q \in Requests \ {r} : request'[q] = request[q]
      /\ request'[r].at # "sent" /\ request'[r].report.rank <= listed
  BY <1>1, GoesToEffect, GoesToReport DEF GroupsInv, TypeOK, Ats, Over
<1>3. registeredGroups \in [Ids -> Group] /\ request[r].rename = None
  BY DEF GroupsInv, TypeOK, NoRename
<1>4. Current' = Current
  <2>1. CASE id \in Ids
    <3>1. registeredGroups' = [registeredGroups EXCEPT
            ![id] = [registeredGroups[id] EXCEPT !.by = r, !.key = registeredGroups[id].key]]
      BY <1>3, <2>1 DEF Modify
    <3>2. /\ Ids' = Ids
          /\ \A i \in Ids : /\ registeredGroups'[i].key = registeredGroups[i].key
                            /\ registeredGroups'[i].service = registeredGroups[i].service
      BY <1>3, <2>1, <3>1 DEF Group, Ids
    <3> QED
      BY <3>2 DEF Current
  <2>2. CASE id \notin Ids
    BY <2>2, SameGroups DEF Modify
  <2> QED
    BY <2>1, <2>2
<1>5. UNCHANGED <<iotManager, manager, listed>> /\ ~ IsUntold(r)
  BY DEF Modify, IsUntold
<1> QED
  BY <1>2, <1>4, <1>5, QuietStep

LEMMA RemoveManager ==
  ASSUME GroupsInv, ManagerInv, NEW r \in Requests, Remove(r)
  PROVE  ManagerInv'
<1>1. PICK at \in {"list", "ok"} : GoesTo(r, at) /\ (iotManager => at = "list")
  BY DEF Remove, Registering
<1>2. /\ \A q \in Requests \ {r} : request'[q] = request[q]
      /\ request'[r].at = at /\ request'[r].op = request[r].op
      /\ request'[r].report.rank <= listed
  BY <1>1, GoesToEffect, GoesToReport DEF GroupsInv, TypeOK, Ats, Over
<1>3. UNCHANGED <<iotManager, manager, listed>> /\ request[r].op = "remove"
  BY DEF Remove
<1> QED
  BY <1>1, <1>2, <1>3, TellingStep DEF IsUntold

\* The list made last is that of the groups there are, and every other one is older.
LEMMA GetServicesManager ==
  ASSUME GroupsInv, ManagerInv, NEW r \in Requests, GetServices(r)
  PROVE  ManagerInv'
<1>1. /\ request \in [Requests -> Request] /\ request[r] \in Request
      /\ listed \in Nat /\ manager \in Registration
  BY DEF GroupsInv, TypeOK
<1>2. /\ listed' = listed + 1 /\ UNCHANGED <<registeredGroups, iotManager, manager>>
      /\ request' = [request EXCEPT ![r].at = "sent", ![r].report = Listing]
  BY DEF GetServices
<1>3. /\ \A q \in Requests \ {r} : request'[q] = request[q]
      /\ request'[r].at = "sent" /\ request'[r].report = Listing
  BY <1>1, <1>2 DEF Request
<1>4. Listing.rank = listed + 1 /\ Listing.groups = Current
  BY DEF Listing, Current
<1>5. manager.rank \in Nat /\ \A q \in Requests : request[q].report.rank \in Nat
  BY <1>1 DEF Request, Registration
<1>6. RanksListed' /\ LastListIsCurrent'
  BY <1>1, <1>2, <1>3, <1>4, <1>5, SameGroups DEF ManagerInv, RanksListed, LastListIsCurrent
<1> QED
  BY <1>6 DEF ManagerInv

LEMMA ManagerTakesManager ==
  ASSUME GroupsInv, ManagerInv, NEW r \in Requests, ManagerTakes(r)
  PROVE  ManagerInv'
<1>1. /\ request \in [Requests -> Request] /\ request[r] \in Request /\ listed \in Nat
  BY DEF GroupsInv, TypeOK
<1>2. /\ manager' = request[r].report /\ UNCHANGED <<registeredGroups, iotManager, listed>>
      /\ request' = [request EXCEPT ![r].at = "taken", ![r].report = NoRegistration]
      /\ request[r].at = "sent"
  BY DEF ManagerTakes
<1>3. /\ \A q \in Requests \ {r} : request'[q] = request[q]
      /\ request'[r].at = "taken" /\ request'[r].report.rank = 0
      /\ request'[r].op = request[r].op
  BY <1>1, <1>2 DEF Request, NoRegistration
<1>4. RanksListed'
  BY <1>1, <1>2, <1>3 DEF ManagerInv, RanksListed
<1>5. LastListIsCurrent => LastListIsCurrent'
  BY <1>2, <1>3, SameGroups DEF LastListIsCurrent
<1>6. Untold => Untold'
  BY <1>2, <1>3 DEF Untold, IsUntold
<1> QED
  BY <1>2, <1>4, <1>5, <1>6 DEF ManagerInv

LEMMA EndManager ==
  ASSUME GroupsInv, ManagerInv, NEW r \in Requests,
         HandleRegistration(r) \/ ApplyConfigurationHandler(r)
  PROVE  ManagerInv'
<1>1. PICK at \in {"handler", "ok", "error"} : GoesTo(r, at)
  BY DEF HandleRegistration, ApplyConfigurationHandler
<1>2. /\ \A q \in Requests \ {r} : request'[q] = request[q]
      /\ request'[r].at # "sent" /\ request'[r].report.rank <= listed
  BY <1>1, GoesToEffect, GoesToReport DEF GroupsInv, TypeOK, Ats, Over
<1>3. /\ UNCHANGED <<iotManager, manager, listed>> /\ ~ IsUntold(r)
      /\ registeredGroups' = registeredGroups
  BY DEF HandleRegistration, ApplyConfigurationHandler, IsUntold
<1> QED
  BY <1>2, <1>3, QuietStep, SameGroups

LEMMA NextManager == ASSUME ~ MayRename, GroupsInv, ManagerInv, [Next]_vars PROVE ManagerInv'
<1>1. CASE UNCHANGED vars
  BY <1>1, SameGroups DEF vars, ManagerInv, RanksListed, LastListIsCurrent, Untold, IsUntold
<1>2. CASE Next
  <2>1. Renames = {None}
    BY DEF Renames
  <2>2. PICK r \in Requests :
          \/ \E keys \in Creations[r] : Create(r, keys)
          \/ \E key \in Keys : Find(r, "modify", key, None)
          \/ \E key \in Keys : Find(r, "remove", key, None)
          \/ \E wildcard \in BOOLEAN : Get(r, wildcard)
          \/ AgentStep(r) \/ ManagerTakes(r)
    BY <1>2, <2>1 DEF Next
  <2> QED
    BY <2>2, CreateManager, FindManager, GetManager, ModifyManager, RemoveManager,
       GetServicesManager, ManagerTakesManager, EndManager DEF AgentStep
<1> QED
  BY <1>1, <1>2

\* Whenever nobody is under way and nobody failed, the IoT Manager knows exactly the
\* groups there are, if it took the list made last: each creation and removal lists
\* the groups after its change, whatever the others do meanwhile
\* (iotManagerService.register).
THEOREM ManagerToldOfAll == ASSUME ~ MayRename PROVE Spec => []ManagerIsCurrent
<1>1. Init => ManagerInv
  BY DEF Init, ManagerInv, RanksListed, LastListIsCurrent, Current, Ids, NotYet, NoRegistration
<1>2. GroupsInv /\ ManagerInv /\ [Next]_vars => ManagerInv'
  BY NextManager
<1>3. GroupsInv /\ ManagerInv => ManagerIsCurrent
  <2> SUFFICES ASSUME GroupsInv, ManagerInv, iotManager, manager.rank = listed,
                      \A r \in Requests : \/ request[r].at \in {"idle", "ok"}
                                          \/ request[r].op \in {"modify", "get"}
               PROVE  manager.groups = Current
    BY DEF ManagerIsCurrent, Current
  <2>1. ~ Untold
    BY DEF Untold, IsUntold
  <2> QED
    BY <2>1 DEF ManagerInv, LastListIsCurrent
<1> QED
  BY <1>1, <1>2, <1>3, Invariance, PTL DEF Spec
==============================================================================
