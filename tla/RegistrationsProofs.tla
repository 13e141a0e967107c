------------------------- MODULE RegistrationsProofs -------------------------
(***************************************************************************)
(* Proofs about Registrations: its types, and, for clients that renew in   *)
(* time, that the map is covered by the table and that the remote broker   *)
(* never loses track of a registration.                                    *)
(*                                                                         *)
(* No lock protects the map, the table and the remote entries.  What makes *)
(* them agree is that at most one thread works on an id (WhoInv); what a   *)
(* thread has found in the table then still holds when it writes           *)
(* (TableInv).                                                             *)
(***************************************************************************)
EXTENDS Registrations, TLAPS

---------------------------------------------------------------------------
(* Types.                                                                  *)

(* Who is busy has an id, and a visit of the scheduler has one too.        *)
IdsKnown ==
    /\ \A r \in Req : Busy(r) => thread[r].id \in Req
    /\ scheduler.at # "idle" => scheduler.id \in Req
    /\ scheduler.at = "retry" => scheduler.context \in Req

(* An answer without an error brings the remote id.                        *)
AnswersHaveIds == \A a \in answers : a.ok => a.id \in Req

TypeInv == TypeOK /\ IdsKnown /\ AnswersHaveIds

---------------------------------------------------------------------------
(* Who works on what, for clients that renew in time.                      *)

Purging == scheduler.at \in {"unmap", "forget", "delete"}

(* An id is made by the call it is named after; calls that have not begun  *)
(* have none.                                                              *)
OwnIds ==
    \A r \in Req :
        /\ thread[r].at = "idle" => thread[r].id = None
        /\ thread[r].id # None => thread[thread[r].id].id = thread[r].id

(* A context of the map was put there by a call about that id.             *)
PutByItsCall ==
    \A i \in Req : registrations[i] # None =>
        /\ thread[registrations[i]].id = i
        /\ thread[registrations[i]].at \in {"forward"} \cup Ended

(* What has expired was put there by a call that has ended.                *)
ExpiredEnded == \A c \in expired : thread[c].at \in Ended

(* Nobody else is busy with an id: no other call, ...                      *)
AloneOnId ==
    \A q, r \in Req : Busy(q) /\ Busy(r) /\ thread[q].id = thread[r].id => q = r

(* ... no call once it has expired, ...                                    *)
ExpiredLeftAlone ==
    \A i, r \in Req : registrations[i] \in expired /\ Busy(r) => thread[r].id # i

(* ... and none while the purge is at it.                                  *)
PurgedLeftAlone ==
    Purging => \A r \in Req : Busy(r) => thread[r].id # scheduler.id

(* The purge is at something that has expired, until it has removed it.    *)
PurgeStages ==
    /\ Purging => thread[scheduler.id].id = scheduler.id
    /\ scheduler.at = "unmap" => registrations[scheduler.id] \in expired
    /\ scheduler.at \in {"forget", "delete"} => registrations[scheduler.id] = None

WhoInv ==
    /\ OwnIds /\ PutByItsCall /\ ExpiredEnded
    /\ AloneOnId /\ ExpiredLeftAlone /\ PurgedLeftAlone /\ PurgeStages

---------------------------------------------------------------------------
(* The table and the map.                                                  *)

(* What a thread has seen or written is still there.                       *)
StageHolds(r) ==
    LET i == thread[r].id IN
    /\ thread[r].at = "update" => table[i] # None
    /\ thread[r].at = "insert" => table[i] = None
    /\ thread[r].at = "put" => table[i] = r
    /\ thread[r].at = "forward" => registrations[i] = r
    /\ thread[r].at = "forget" => registrations[i] = None

(* A thread is between the row and the map.                                *)
Between(i) == \E r \in Req : thread[r].id = i /\ thread[r].at \in {"put", "unmap"}

RowsCover ==
    \A i \in Req : registrations[i] # None /\ ~Between(i) => table[i] = registrations[i]

TableInv == RowsCover /\ \A r \in Req : StageHolds(r)

---------------------------------------------------------------------------
(* The remote broker.                                                      *)

Forwarding(i) == \E r \in Req : thread[r].id = i /\ thread[r].at = "forward"

RemoteInv ==
    \A i \in Req : registrations[i] # None =>
        Forwarding(i) \/ InFlight(i) \/ Pending(i) \/ remote[i].id # None

---------------------------------------------------------------------------
(* Type correctness.                                                       *)

USE ConstantsAssumption

LEMMA ThreadSteps ==
  ASSUME TypeInv, NEW r \in Req, NEW stage \in Stage, Busy(r) \/ stage \in Ended,
         Move(r, stage)
  PROVE  /\ thread' \in [Req -> [id : Ref, at : Stage]]
         /\ \A q \in Req : Busy(q)' => thread'[q].id \in Req
  BY DEF TypeInv, TypeOK, IdsKnown, Move, Busy, Ref, Stage, Ended

LEMMA FaultCounted ==
  ASSUME TypeInv, Fault
  PROVE  faults' \in 0 .. MaxFaults
  BY DEF TypeInv, TypeOK, Fault

LEMMA TypeStep == TypeInv /\ [Next]_vars => TypeInv'
<1> SUFFICES ASSUME TypeInv, [Next]_vars PROVE TypeInv'
  OBVIOUS
<1> USE DEF TypeInv, TypeOK, IdsKnown, AnswersHaveIds, Ref, Stage, Ended, Entry, NoEntry,
            Request, Answer, Resting, outside
<1>1. ASSUME NEW r \in Req, RefuseContext(r) PROVE TypeInv'
  <2>1. thread[r].at = "idle" /\ Move(r, "error")
    BY <1>1 DEF RefuseContext
  <2>. QED
    BY <1>1, <2>1, ThreadSteps DEF RefuseContext, Busy
<1>2. ASSUME NEW r \in Req, NEW id \in Ref, RegisterContext(r, id) PROVE TypeInv'
  BY <1>2 DEF RegisterContext, Busy
<1>3. ASSUME NEW r \in Req, NEW id \in Ref, RemoveContext(r, id) PROVE TypeInv'
  BY <1>3 DEF RemoveContext, Busy
<1>4. ASSUME NEW r \in Req, LookUp(r) PROVE TypeInv'
  <2>1. Busy(r) /\ (Move(r, "insert") \/ Move(r, "update") \/ Move(r, "error"))
    BY <1>4 DEF LookUp, Refused, Busy
  <2>2. faults' \in 0 .. MaxFaults
    BY <1>4, FaultCounted DEF LookUp, Refused
  <2>. QED
    BY <1>4, <2>1, <2>2, ThreadSteps DEF LookUp
<1>5. ASSUME NEW r \in Req, UpdateRow(r) PROVE TypeInv'
  <2>1. Busy(r) /\ (Move(r, "put") \/ Move(r, "error"))
    BY <1>5 DEF UpdateRow, Refused, Busy
  <2>2. faults' \in 0 .. MaxFaults
    BY <1>5, FaultCounted DEF UpdateRow, Refused
  <2>3. table' \in [Req -> Ref]
    BY <1>5 DEF UpdateRow
  <2>. QED
    BY <1>5, <2>1, <2>2, <2>3, ThreadSteps DEF UpdateRow
<1>6. ASSUME NEW r \in Req, InsertRow(r) PROVE TypeInv'
  <2>1. Busy(r) /\ (Move(r, "put") \/ Move(r, "error"))
    BY <1>6 DEF InsertRow, Refused, Busy
  <2>2. faults' \in 0 .. MaxFaults
    BY <1>6, FaultCounted DEF InsertRow, Refused
  <2>3. table' \in [Req -> Ref]
    BY <1>6 DEF InsertRow
  <2>. QED
    BY <1>6, <2>1, <2>2, <2>3, ThreadSteps DEF InsertRow
<1>7. ASSUME NEW r \in Req, PutRegistration(r) PROVE TypeInv'
  <2>1. Busy(r) /\ Move(r, "forward")
    BY <1>7 DEF PutRegistration, Busy
  <2>. QED
    BY <1>7, <2>1, ThreadSteps DEF PutRegistration
<1>8. ASSUME NEW r \in Req, ForwardContext(r) PROVE TypeInv'
  <2>1. Busy(r) /\ Move(r, "ok") /\ thread[r].id \in Req
    BY <1>8 DEF ForwardContext, Busy
  <2>2. remote' \in [Req -> Entry] /\ sent' \subseteq Request
    BY <1>8, <2>1 DEF ForwardContext, Forward
  <2>. QED
    BY <1>8, <2>1, <2>2, ThreadSteps DEF ForwardContext
<1>9. ASSUME NEW r \in Req, DeleteRow(r) PROVE TypeInv'
  <2>1. Busy(r) /\ (Move(r, "unmap") \/ Move(r, "error"))
    BY <1>9 DEF DeleteRow, Refused, Busy
  <2>2. faults' \in 0 .. MaxFaults
    BY <1>9, FaultCounted DEF DeleteRow, Refused
  <2>3. table' \in [Req -> Ref]
    BY <1>9 DEF DeleteRow
  <2>. QED
    BY <1>9, <2>1, <2>2, <2>3, ThreadSteps DEF DeleteRow
<1>10. ASSUME NEW r \in Req, Unmap(r) PROVE TypeInv'
  <2>1. Busy(r) /\ Move(r, "forget")
    BY <1>10 DEF Unmap, Busy
  <2>. QED
    BY <1>10, <2>1, ThreadSteps DEF Unmap
<1>11. ASSUME NEW r \in Req, Forget(r) PROVE TypeInv'
  <2>1. Busy(r) /\ Move(r, "ok")
    BY <1>11 DEF Forget, Busy
  <2>. QED
    BY <1>11, <2>1, ThreadSteps DEF Forget
<1>12. ASSUME NEW id \in Req, FindExpired(id) \/ FindPending(id) PROVE TypeInv'
  BY <1>12 DEF FindExpired, FindPending, Pending, Busy
<1>13. ASSUME PurgeUnmap \/ PurgeForget \/ PurgeDelete PROVE TypeInv'
  <2>1. CASE PurgeUnmap
    BY <2>1 DEF PurgeUnmap, Busy
  <2>2. CASE PurgeForget
    BY <2>2 DEF PurgeForget, Busy
  <2>3. CASE PurgeDelete
    <3>1. faults' \in 0 .. MaxFaults
      BY <2>3, FaultCounted DEF PurgeDelete
    <3>2. scheduler.id \in Req /\ table' \in [Req -> Ref]
      BY <2>3 DEF PurgeDelete
    <3>. QED
      BY <2>3, <3>1, <3>2 DEF PurgeDelete, Busy
  <2>. QED
    BY <1>13, <2>1, <2>2, <2>3
<1>14. ASSUME Retry PROVE TypeInv'
  BY <1>14 DEF Retry, Forward, Busy
<1>15. ASSUME NEW c \in Req, Expire(c) PROVE TypeInv'
  BY <1>15 DEF Expire, Busy
<1>16. ASSUME NEW a \in answers, OnAnswer(a) PROVE TypeInv'
  BY <1>16 DEF OnAnswer, ToRetry, Busy
<1>17. ASSUME NEW q \in sent, RemoteAccepts(q) PROVE TypeInv'
  <2> DEFINE answer == [local |-> q.local, id |-> IdOf(q), context |-> q.context, ok |-> TRUE]
  <2>1. q \in Request /\ IdOf(q) \in Req
    BY DEF IdOf
  <2>2. answer \in Answer /\ answer.id \in Req
    BY <2>1
  <2>3. answers' = answers \cup {answer}
    BY <1>17 DEF RemoteAccepts
  <2> HIDE DEF answer
  <2>4. answers' \subseteq Answer /\ \A a \in answers' : a.ok => a.id \in Req
    BY <2>2, <2>3
  <2>5. forwarded' \subseteq Req /\ sent' \subseteq Request
    BY <1>17, <2>1 DEF RemoteAccepts, Take
  <2>. QED
    BY <1>17, <2>4, <2>5 DEF RemoteAccepts, Busy
<1>18. ASSUME NEW q \in sent, RemoteFails(q) PROVE TypeInv'
  <2>1. q \in Request
    OBVIOUS
  <2>2. PICK id \in {None, q.id} : answers' = answers \cup
           {[local |-> q.local, id |-> id, context |-> q.context, ok |-> FALSE]}
    BY <1>18 DEF RemoteFails
  <2> DEFINE answer == [local |-> q.local, id |-> id, context |-> q.context, ok |-> FALSE]
  <2>3. answer \in Answer /\ answer.ok = FALSE
    BY <2>1
  <2> HIDE DEF answer
  <2>4. answers' \subseteq Answer /\ \A a \in answers' : a.ok => a.id \in Req
    <3>1. answers' = answers \cup {answer}
      BY <2>2 DEF answer
    <3>. QED
      BY <2>3, <3>1
  <2>5. forwarded' \subseteq Req /\ sent' \subseteq Request /\ failures' \in 0 .. MaxFailures
    BY <1>18, <2>1 DEF RemoteFails, Take
  <2>. QED
    BY <1>18, <2>4, <2>5 DEF RemoteFails, Busy
<1>19. CASE UNCHANGED vars
  BY <1>19 DEF vars, Busy
<1>. QED
  BY <1>1, <1>2, <1>3, <1>4, <1>5, <1>6, <1>7, <1>8, <1>9, <1>10, <1>11, <1>12, <1>13,
     <1>14, <1>15, <1>16, <1>17, <1>18, <1>19
  DEF Next, Client, HttpThread, Scheduler, Clock, Callbacks, RemoteBroker

LEMMA TypeInit == Init => TypeInv
  BY DEF Init, TypeInv, TypeOK, IdsKnown, AnswersHaveIds, Busy, Ref, Stage, Ended, Entry,
         NoEntry, Resting

(* Every variable holds values of its kind, whatever clients, threads, the *)
(* remote broker and the database do.                                      *)
THEOREM TypeCorrect == Spec => []TypeOK
<1>1. TypeInv /\ [Next]_vars => TypeInv'
  BY TypeStep
<1>. QED
  BY TypeInit, <1>1, PTL DEF Spec, TypeInv

---------------------------------------------------------------------------
(* At most one thread is at an id.                                         *)

LEMMA MoveEffect ==
  ASSUME TypeInv, NEW r \in Req, NEW stage \in Stage, Move(r, stage)
  PROVE  /\ thread'[r].at = stage /\ thread'[r].id = thread[r].id
         /\ \A q \in Req \ {r} : thread'[q] = thread[q]
         /\ \A q \in Req : thread'[q].id = thread[q].id
  BY DEF TypeInv, TypeOK, Move

LEMMA WhoInit == Init => WhoInv
  BY DEF Init, WhoInv, OwnIds, PutByItsCall, ExpiredEnded, AloneOnId, ExpiredLeftAlone,
         PurgedLeftAlone, PurgeStages, Purging, Busy, Resting, Ended

(* A thread that goes on, and changes the map at its own id if at all.     *)
LEMMA WhoMoves ==
  ASSUME TypeInv, WhoInv, NEW r \in Req, NEW stage \in Stage \ {"idle"},
         Busy(r), Move(r, stage),
         thread[r].at = "forward" => stage \in Ended,
         UNCHANGED <<expired, scheduler>>,
         \A i \in Req : registrations'[i] # registrations[i] =>
            /\ i = thread[r].id
            /\ registrations'[i] = None \/ (registrations'[i] = r /\ stage = "forward")
  PROVE  WhoInv'
<1>1. /\ thread'[r].at = stage /\ thread'[r].id = thread[r].id
      /\ \A q \in Req \ {r} : thread'[q] = thread[q]
      /\ \A q \in Req : thread'[q].id = thread[q].id
  BY MoveEffect
<1>2. \A q \in Req : Busy(q)' => Busy(q)
  BY <1>1 DEF Busy
<1>3. thread[r].id \in Req
  BY DEF TypeInv, IdsKnown
<1> USE DEF WhoInv
<1>4. OwnIds'
  BY <1>1 DEF OwnIds, TypeInv, TypeOK, Ref
<1>5. PutByItsCall'
  <2> SUFFICES ASSUME NEW i \in Req, registrations'[i] # None
               PROVE  /\ thread'[registrations'[i]].id = i
                      /\ thread'[registrations'[i]].at \in {"forward"} \cup Ended
    BY DEF PutByItsCall
  <2>1. CASE registrations'[i] # registrations[i]
    BY <2>1, <1>1
  <2>2. CASE registrations'[i] = registrations[i]
    <3>1. registrations[i] \in Req
      BY <2>2 DEF TypeInv, TypeOK, Ref
    <3>. QED
      BY <2>2, <3>1, <1>1 DEF PutByItsCall, Busy
  <2>. QED
    BY <2>1, <2>2
<1>6. ExpiredEnded'
  BY <1>1 DEF ExpiredEnded, Busy, TypeInv, TypeOK
<1>7. AloneOnId'
  BY <1>1, <1>2 DEF AloneOnId
<1>8. ExpiredLeftAlone'
  <2> SUFFICES ASSUME NEW i \in Req, NEW q \in Req, registrations'[i] \in expired, Busy(q)',
                      thread'[q].id = i
               PROVE  FALSE
    BY DEF ExpiredLeftAlone
  <2>1. None \notin expired /\ r \notin expired
    BY DEF TypeInv, TypeOK, ExpiredEnded, Busy
  <2>2. registrations'[i] = registrations[i]
    BY <2>1
  <2>. QED
    BY <2>2, <1>1, <1>2 DEF ExpiredLeftAlone
<1>9. PurgedLeftAlone'
  BY <1>1, <1>2 DEF PurgedLeftAlone, Purging
<1>10. PurgeStages'
  <2> SUFFICES ASSUME Purging
               PROVE  /\ thread'[scheduler.id].id = scheduler.id
                      /\ registrations'[scheduler.id] = registrations[scheduler.id]
    BY DEF PurgeStages, Purging
  <2>1. scheduler.id \in Req /\ scheduler.id # thread[r].id
    BY DEF PurgedLeftAlone, TypeInv, IdsKnown, Purging
  <2>. QED
    BY <2>1, <1>1 DEF PurgeStages
<1>. QED
  BY <1>4, <1>5, <1>6, <1>7, <1>8, <1>9, <1>10

(* A call begins: the id of the client is free, and so is one of its own.  *)
LEMMA WhoBegins ==
  ASSUME TypeInv, WhoInv, RenewInTime, NEW r \in Req, NEW i \in Req, NEW stage \in {"look", "delete"},
         thread[r].at = "idle",
         i # r => /\ thread[i].id = i
                  /\ \A q \in Req : thread[q].id = i => ~ Busy(q)
                  /\ registrations[i] \notin expired
                  /\ scheduler.id # i,
         thread' = [thread EXCEPT ![r] = [id |-> i, at |-> stage]],
         UNCHANGED <<registrations, expired, scheduler>>
  PROVE  WhoInv'
<1> USE DEF WhoInv
<1>1. /\ thread'[r].at = stage /\ thread'[r].id = i
      /\ \A q \in Req \ {r} : thread'[q] = thread[q]
  BY DEF TypeInv, TypeOK
<1>2. \A q \in Req : thread[q].id # r
  BY DEF OwnIds
<1>3. registrations[r] = None
  BY <1>2 DEF PutByItsCall, TypeInv, TypeOK, Ref
<1>4. None \notin expired /\ r \notin expired /\ \A j \in Req : registrations[j] # r
  BY DEF TypeInv, TypeOK, ExpiredEnded, PutByItsCall, Ended
<1>5. \A q \in Req : thread[q].id = i => ~ Busy(q)
  BY <1>2
<1>6. Purging => scheduler.id # i
  BY <1>2 DEF PurgeStages, IdsKnown, TypeInv, Purging
<1>7. OwnIds'
  <2> SUFFICES ASSUME NEW q \in Req
               PROVE  /\ thread'[q].at = "idle" => thread'[q].id = None
                      /\ thread'[q].id # None => thread'[thread'[q].id].id = thread'[q].id
    BY DEF OwnIds
  <2>1. CASE q = r
    BY <2>1, <1>1
  <2>2. CASE q # r
    <3>1. thread[q].id # None => thread[q].id \in Req
      BY DEF TypeInv, TypeOK, Ref
    <3>. QED
      BY <2>2, <3>1, <1>1, <1>2 DEF OwnIds
  <2>. QED
    BY <2>1, <2>2
<1>8. PutByItsCall'
  BY <1>1, <1>4 DEF PutByItsCall, TypeInv, TypeOK, Ref
<1>9. ExpiredEnded'
  BY <1>1, <1>4 DEF ExpiredEnded, TypeInv, TypeOK
<1>10. AloneOnId'
  BY <1>1, <1>5 DEF AloneOnId, Busy
<1>11. ExpiredLeftAlone'
  BY <1>1, <1>3, <1>4 DEF ExpiredLeftAlone, Busy
<1>12. PurgedLeftAlone'
  BY <1>1, <1>6 DEF PurgedLeftAlone, Purging, Busy
<1>13. PurgeStages'
  <2>1. Purging => scheduler.id \in Req /\ scheduler.id # r
    BY <1>2 DEF PurgeStages, TypeInv, IdsKnown, Purging
  <2>. QED
    BY <2>1, <1>1 DEF PurgeStages, Purging
<1>. QED
  BY <1>7, <1>8, <1>9, <1>10, <1>11, <1>12, <1>13

LEMMA WhoStep ==
  ASSUME RenewInTime, TypeInv, WhoInv, [Next]_vars
  PROVE  WhoInv'
<1> USE DEF outside
<1>1. ASSUME NEW r \in Req, RefuseContext(r) PROVE WhoInv'
  <2>1. thread[r].at = "idle" /\ Move(r, "error")
    BY <1>1 DEF RefuseContext
  <2>2. /\ thread'[r].at = "error" /\ thread'[r].id = thread[r].id
        /\ \A q \in Req \ {r} : thread'[q] = thread[q]
        /\ \A q \in Req : thread'[q].id = thread[q].id
    BY <2>1, MoveEffect DEF Stage, Ended
  <2>3. \A q \in Req : Busy(q)' <=> Busy(q)
    BY <2>1, <2>2 DEF Busy, Ended
  <2>. QED
    BY <1>1, <2>1, <2>2, <2>3
    DEF RefuseContext, WhoInv, OwnIds, PutByItsCall, ExpiredEnded, AloneOnId, ExpiredLeftAlone,
        PurgedLeftAlone, PurgeStages, Purging, TypeInv, TypeOK, Ref, Ended, IdsKnown
<1>2. ASSUME NEW r \in Req, NEW id \in Ref, RegisterContext(r, id) PROVE WhoInv'
  <2> DEFINE i == IF id # None /\ registrations[id] # None THEN id ELSE r
  <2>1. i \in Req /\ (i # r => id # None /\ i = id)
    BY DEF Ref
  <2>2. thread' = [thread EXCEPT ![r] = [id |-> i, at |-> "look"]]
    BY <1>2 DEF RegisterContext
  <2> HIDE DEF i
  <2>3. i # r => /\ thread[i].id = i
                 /\ \A q \in Req : thread[q].id = i => ~ Busy(q)
                 /\ registrations[i] \notin expired
                 /\ scheduler.id # i
    BY <1>2, <2>1 DEF RegisterContext, MayCall, WhoInv, OwnIds
  <2>. QED
    BY <1>2, <2>1, <2>2, <2>3, WhoBegins DEF RegisterContext, MayCall
<1>3. ASSUME NEW r \in Req, NEW id \in Ref, RemoveContext(r, id) PROVE WhoInv'
  <2>1. id \in Req /\ thread[id].id = id
    BY <1>3 DEF RemoveContext, MayCall, WhoInv, OwnIds, Ref
  <2>2. /\ \A q \in Req : thread[q].id = id => ~ Busy(q)
        /\ registrations[id] \notin expired
        /\ scheduler.id # id
        /\ thread[r].at = "idle"
    BY <1>3 DEF RemoveContext, MayCall
  <2>. QED
    BY <1>3, <2>1, <2>2, WhoBegins DEF RemoveContext
<1>4. ASSUME NEW r \in Req, LookUp(r) \/ UpdateRow(r) \/ InsertRow(r) \/ DeleteRow(r)
      PROVE WhoInv'
  <2>1. PICK stage \in {"insert", "update", "put", "unmap", "error"} : Move(r, stage)
    BY <1>4 DEF LookUp, UpdateRow, InsertRow, DeleteRow, Refused
  <2>2. Busy(r) /\ thread[r].at # "forward" /\ UNCHANGED <<registrations, expired, scheduler>>
    BY <1>4 DEF LookUp, UpdateRow, InsertRow, DeleteRow, Busy, Ended
  <2>. QED
    BY <2>1, <2>2, WhoMoves DEF Stage, Ended
<1>5. ASSUME NEW r \in Req, PutRegistration(r) PROVE WhoInv'
  <2>1. Busy(r) /\ Move(r, "forward") /\ thread[r].at # "forward"
    BY <1>5 DEF PutRegistration, Busy, Ended
  <2>2. \A i \in Req : registrations'[i] # registrations[i] =>
            i = thread[r].id /\ registrations'[i] = r
    BY <1>5 DEF PutRegistration, TypeInv, TypeOK
  <2>. QED
    BY <1>5, <2>1, <2>2, WhoMoves DEF PutRegistration, Stage
<1>6. ASSUME NEW r \in Req, Unmap(r) PROVE WhoInv'
  <2>1. Busy(r) /\ Move(r, "forget") /\ thread[r].at # "forward"
    BY <1>6 DEF Unmap, Busy, Ended
  <2>2. \A i \in Req : registrations'[i] # registrations[i] =>
            i = thread[r].id /\ registrations'[i] = None
    BY <1>6 DEF Unmap, TypeInv, TypeOK
  <2>. QED
    BY <1>6, <2>1, <2>2, WhoMoves DEF Unmap, Stage
<1>7. ASSUME NEW r \in Req, ForwardContext(r) \/ Forget(r) PROVE WhoInv'
  <2>1. Busy(r) /\ Move(r, "ok") /\ UNCHANGED <<registrations, expired, scheduler>>
    BY <1>7 DEF ForwardContext, Forget, Busy, Ended
  <2>. QED
    BY <2>1, WhoMoves DEF Stage, Ended
<1> USE DEF WhoInv, OwnIds, PutByItsCall, ExpiredEnded, AloneOnId, ExpiredLeftAlone,
            PurgedLeftAlone, PurgeStages, Purging
<1>8. ASSUME NEW id \in Req, FindExpired(id) PROVE WhoInv'
  <2>1. /\ scheduler' = [at |-> "unmap", id |-> id, context |-> None]
        /\ registrations[id] \in expired
        /\ UNCHANGED <<registrations, expired, thread>>
    BY <1>8 DEF FindExpired
  <2>2. registrations[id] # None
    BY <2>1 DEF TypeInv, TypeOK
  <2>3. thread[registrations[id]].id = id /\ registrations[id] \in Req
    BY <2>2 DEF TypeInv, TypeOK, Ref
  <2>4. thread[id].id = id
    BY <2>3
  <2>. QED
    BY <2>1, <2>4 DEF Busy
<1>9. ASSUME NEW id \in Req, FindPending(id) PROVE WhoInv'
  BY <1>9 DEF FindPending, Busy
<1>10. ASSUME PurgeUnmap PROVE WhoInv'
  <2>1. scheduler.id \in Req /\ scheduler.at = "unmap"
    BY <1>10 DEF PurgeUnmap, TypeInv, IdsKnown
  <2>2. /\ scheduler'.at = "forget" /\ scheduler'.id = scheduler.id
        /\ registrations'[scheduler.id] = None
        /\ \A i \in Req \ {scheduler.id} : registrations'[i] = registrations[i]
        /\ UNCHANGED <<expired, thread>>
    BY <1>10, <2>1 DEF PurgeUnmap, TypeInv, TypeOK
  <2>3. None \notin expired
    BY DEF TypeInv, TypeOK
  <2>. QED
    BY <2>1, <2>2, <2>3 DEF Busy
<1>11. ASSUME PurgeForget PROVE WhoInv'
  <2>1. /\ scheduler.at = "forget" /\ scheduler'.at = "delete" /\ scheduler'.id = scheduler.id
        /\ UNCHANGED <<registrations, expired, thread>>
    BY <1>11 DEF PurgeForget, TypeInv, TypeOK
  <2>. QED
    BY <2>1 DEF Busy
<1>12. ASSUME PurgeDelete \/ Retry PROVE WhoInv'
  BY <1>12 DEF PurgeDelete, Retry, Resting, Busy
<1>13. ASSUME NEW c \in Req, Expire(c) PROVE WhoInv'
  <2>1. PICK i \in Req : registrations[i] = c
    BY <1>13 DEF Expire
  <2>2. thread[c].id = i /\ thread[c].at \in {"forward"} \cup Ended /\ c # None
    BY <2>1
  <2>3. \A q \in Req : thread[q].id = i => ~ Busy(q)
    BY <1>13, <2>2 DEF Expire
  <2>4. thread[c].at \in Ended
    BY <2>2, <2>3 DEF Busy, TypeInv, TypeOK, Stage
  <2>5. \A j \in Req : registrations[j] = c => j = i
    BY <2>2
  <2>6. expired' = expired \cup {c} /\ UNCHANGED <<registrations, thread, scheduler>>
    BY <1>13 DEF Expire
  <2>. QED
    BY <2>3, <2>4, <2>5, <2>6 DEF Busy
<1>14. ASSUME UNCHANGED <<registrations, expired, thread, scheduler>> PROVE WhoInv'
  BY <1>14 DEF Busy
<1>15. ASSUME NEW a \in answers, OnAnswer(a) PROVE WhoInv'
  BY <1>15, <1>14 DEF OnAnswer
<1>16. ASSUME NEW q \in sent, RemoteAccepts(q) \/ RemoteFails(q) PROVE WhoInv'
  BY <1>16, <1>14 DEF RemoteAccepts, RemoteFails
<1>17. CASE UNCHANGED vars
  BY <1>17, <1>14 DEF vars
<1>. QED
  BY <1>1, <1>2, <1>3, <1>4, <1>5, <1>6, <1>7, <1>8, <1>9, <1>10, <1>11, <1>12, <1>13,
     <1>15, <1>16, <1>17
  DEF Next, Client, HttpThread, Scheduler, Clock, Callbacks, RemoteBroker

---------------------------------------------------------------------------
(* The table covers the map.                                               *)

LEMMA TableInit == Init => TableInv
  BY DEF Init, TableInv, RowsCover, StageHolds

(* A thread that goes on, and changes row and map at its own id if at all. *)
LEMMA TableMoves ==
  ASSUME TypeInv, WhoInv, TableInv, NEW r \in Req, NEW stage \in Stage,
         Busy(r), Move(r, stage), StageHolds(r)',
         \A j \in Req \ {thread[r].id} :
            table'[j] = table[j] /\ registrations'[j] = registrations[j],
         LET i == thread[r].id IN
            registrations'[i] # None /\ stage \notin {"put", "unmap"}
              => table'[i] = registrations'[i]
  PROVE  TableInv'
<1> DEFINE i == thread[r].id
<1>1. /\ thread'[r].at = stage /\ thread'[r].id = i
      /\ \A q \in Req \ {r} : thread'[q] = thread[q]
  BY MoveEffect
<1>2. i \in Req
  BY DEF TypeInv, IdsKnown
<1>3. \A q \in Req \ {r} : Busy(q) => thread[q].id # i /\ thread[q].id \in Req
  BY DEF WhoInv, AloneOnId, TypeInv, IdsKnown
<1>4. \A j \in Req : j # i => (Between(j)' <=> Between(j))
  BY <1>1 DEF Between
<1>5. ASSUME NEW j \in Req, j = i PROVE Between(j)' <=> stage \in {"put", "unmap"}
  <2>1. ASSUME NEW q \in Req \ {r}, thread'[q].at \in {"put", "unmap"}
        PROVE  thread'[q].id # j
    BY <2>1, <1>1, <1>3, <1>5 DEF Busy, Ended
  <2>2. Between(j)' <=> \E q \in Req : thread'[q].id = j /\ thread'[q].at \in {"put", "unmap"}
    BY DEF Between
  <2>. QED
    BY <2>1, <2>2, <1>1, <1>5
<1>6. RowsCover'
  <2> SUFFICES ASSUME NEW j \in Req, registrations'[j] # None, ~ Between(j)'
               PROVE  table'[j] = registrations'[j]
    BY DEF RowsCover
  <2>1. CASE j = i
    BY <2>1, <1>5
  <2>2. CASE j # i
    BY <2>2, <1>4 DEF RowsCover, TableInv
  <2>. QED
    BY <2>1, <2>2
<1>7. ASSUME NEW q \in Req \ {r} PROVE StageHolds(q)'
  <2>1. thread'[q] = thread[q] /\ StageHolds(q)
    BY <1>1 DEF TableInv
  <2>2. CASE Busy(q)
    BY <2>1, <2>2, <1>3 DEF StageHolds
  <2>3. CASE ~ Busy(q)
    BY <2>1, <2>3 DEF StageHolds, Busy, Ended
  <2>. QED
    BY <2>2, <2>3
<1>. QED
  BY <1>6, <1>7 DEF TableInv

LEMMA TableBegins ==
  ASSUME TypeInv, TableInv, NEW r \in Req, NEW i \in Ref, NEW stage \in {"look", "delete", "error"},
         thread[r].at = "idle",
         thread' = [thread EXCEPT ![r] = [id |-> i, at |-> stage]],
         UNCHANGED <<registrations, table>>
  PROVE  TableInv'
<1>1. /\ thread'[r].at = stage
      /\ \A q \in Req \ {r} : thread'[q] = thread[q]
  BY DEF TypeInv, TypeOK
<1>2. \A j \in Req : Between(j)' <=> Between(j)
  BY <1>1 DEF Between
<1>. QED
  BY <1>1, <1>2 DEF TableInv, RowsCover, StageHolds

LEMMA TableStep ==
  ASSUME RenewInTime, TypeInv, WhoInv, TableInv, [Next]_vars
  PROVE  TableInv'
<1> USE DEF outside
<1> DEFINE Covered(r, stage) ==
             LET i == thread[r].id IN
                registrations'[i] # None /\ stage \notin {"put", "unmap"}
                  => table'[i] = registrations'[i]
           Elsewhere(r) ==
             \A j \in Req \ {thread[r].id} :
                table'[j] = table[j] /\ registrations'[j] = registrations[j]
<1>0. ASSUME NEW r \in Req, Busy(r)
      PROVE  /\ thread[r].id \in Req /\ StageHolds(r)
             /\ \A q \in Req \ {r} : thread[q].id = thread[r].id => ~ Busy(q)
             /\ registrations[thread[r].id] # None /\ thread[r].at \notin {"put", "unmap"}
                  => table[thread[r].id] = registrations[thread[r].id]
  <2>1. /\ thread[r].id \in Req /\ StageHolds(r)
        /\ \A q \in Req \ {r} : thread[q].id = thread[r].id => ~ Busy(q)
    BY <1>0 DEF TypeInv, IdsKnown, TableInv, WhoInv, AloneOnId
  <2>2. thread[r].at \notin {"put", "unmap"} => ~ Between(thread[r].id)
    BY <2>1 DEF Between, Busy, Ended
  <2>. QED
    BY <2>1, <2>2 DEF TableInv, RowsCover
<1>1. ASSUME NEW r \in Req, RefuseContext(r) PROVE TableInv'
  <2>1. /\ thread[r].at = "idle" /\ thread[r].id \in Ref
        /\ thread' = [thread EXCEPT ![r] = [id |-> thread[r].id, at |-> "error"]]
    <3>1. thread[r] \in [id : Ref, at : Stage]
      BY DEF TypeInv, TypeOK
    <3>2. [thread[r] EXCEPT !.at = "error"] = [id |-> thread[r].id, at |-> "error"]
      BY <3>1
    <3>. QED
      BY <1>1, <3>1, <3>2 DEF RefuseContext, Move, TypeInv, TypeOK
  <2>. QED
    BY <1>1, <2>1, TableBegins DEF RefuseContext
<1>2. ASSUME NEW r \in Req, NEW id \in Ref, RegisterContext(r, id) PROVE TableInv'
  BY <1>2, TableBegins DEF RegisterContext, MayCall, Ref
<1>3. ASSUME NEW r \in Req, NEW id \in Ref, RemoveContext(r, id) PROVE TableInv'
  BY <1>3, TableBegins DEF RemoveContext, MayCall
<1>4. ASSUME NEW r \in Req, LookUp(r) PROVE TableInv'
  <2>1. Busy(r) /\ thread[r].at = "look" /\ UNCHANGED <<registrations, table>>
    BY <1>4 DEF LookUp, Busy, Ended
  <2>2. PICK stage \in {"insert", "update", "error"} :
          /\ Move(r, stage)
          /\ stage = "insert" => table[thread[r].id] = None
          /\ stage = "update" => table[thread[r].id] # None
    BY <1>4 DEF LookUp, Refused
  <2>3. StageHolds(r)' /\ Elsewhere(r) /\ Covered(r, stage)
    BY <2>1, <2>2, <1>0, MoveEffect DEF StageHolds, Stage, Ended
  <2>. QED
    BY <2>1, <2>2, <2>3, TableMoves DEF Stage, Ended
<1>5. ASSUME NEW r \in Req, UpdateRow(r) \/ InsertRow(r) PROVE TableInv'
  <2>1. /\ Busy(r) /\ thread[r].at \in {"update", "insert"} /\ UNCHANGED registrations
        /\ thread[r].id \in Req
    BY <1>5, <1>0 DEF UpdateRow, InsertRow, Busy, Ended
  <2>2. PICK stage \in {"put", "error"} :
          /\ Move(r, stage)
          /\ stage = "put" => table' = [table EXCEPT ![thread[r].id] = r]
          /\ stage = "error" => UNCHANGED table
    BY <1>5, <2>1, <1>0 DEF UpdateRow, InsertRow, Refused, StageHolds, TypeInv, TypeOK
  <2>3. StageHolds(r)' /\ Elsewhere(r) /\ Covered(r, stage)
    BY <2>1, <2>2, <1>0, MoveEffect DEF StageHolds, Stage, Ended, TypeInv, TypeOK
  <2>. QED
    BY <2>1, <2>2, <2>3, TableMoves DEF Stage, Ended
<1>6. ASSUME NEW r \in Req, PutRegistration(r) PROVE TableInv'
  <2>1. Busy(r) /\ thread[r].at = "put" /\ Move(r, "forward") /\ thread[r].id \in Req
    BY <1>6, <1>0 DEF PutRegistration, Busy, Ended
  <2>2. StageHolds(r)' /\ Elsewhere(r) /\ Covered(r, "forward")
    BY <1>6, <2>1, <1>0, MoveEffect
    DEF PutRegistration, StageHolds, Stage, Ended, TypeInv, TypeOK
  <2>. QED
    BY <2>1, <2>2, TableMoves DEF Stage, Ended
<1>7. ASSUME NEW r \in Req, ForwardContext(r) \/ Forget(r) PROVE TableInv'
  <2>1. /\ Busy(r) /\ thread[r].at \in {"forward", "forget"} /\ Move(r, "ok")
        /\ UNCHANGED <<registrations, table>>
    BY <1>7 DEF ForwardContext, Forget, Busy, Ended
  <2>2. StageHolds(r)' /\ Elsewhere(r) /\ Covered(r, "ok")
    BY <2>1, <1>0, MoveEffect DEF StageHolds, Stage, Ended
  <2>. QED
    BY <2>1, <2>2, TableMoves DEF Stage, Ended
<1>8. ASSUME NEW r \in Req, DeleteRow(r) PROVE TableInv'
  <2>1. /\ Busy(r) /\ thread[r].at = "delete" /\ UNCHANGED registrations
        /\ thread[r].id \in Req
    BY <1>8, <1>0 DEF DeleteRow, Busy, Ended
  <2>2. PICK stage \in {"unmap", "error"} :
          /\ Move(r, stage)
          /\ stage = "unmap" => table' = [table EXCEPT ![thread[r].id] = None]
          /\ stage = "error" => UNCHANGED table
    BY <1>8 DEF DeleteRow, Refused
  <2>3. StageHolds(r)' /\ Elsewhere(r) /\ Covered(r, stage)
    BY <2>1, <2>2, <1>0, MoveEffect DEF StageHolds, Stage, Ended, TypeInv, TypeOK
  <2>. QED
    BY <2>1, <2>2, <2>3, TableMoves DEF Stage, Ended
<1>9. ASSUME NEW r \in Req, Unmap(r) PROVE TableInv'
  <2>1. Busy(r) /\ thread[r].at = "unmap" /\ Move(r, "forget") /\ thread[r].id \in Req
    BY <1>9, <1>0 DEF Unmap, Busy, Ended
  <2>2. StageHolds(r)' /\ Elsewhere(r) /\ Covered(r, "forget")
    BY <1>9, <2>1, <1>0, MoveEffect DEF Unmap, StageHolds, Stage, Ended, TypeInv, TypeOK
  <2>. QED
    BY <2>1, <2>2, TableMoves DEF Stage, Ended
<1>10. ASSUME PurgeUnmap \/ PurgeDelete PROVE TableInv'
  <2>1. /\ scheduler.id \in Req
        /\ \A r \in Req : Busy(r) => thread[r].id # scheduler.id
    BY <1>10 DEF PurgeUnmap, PurgeDelete, TypeInv, IdsKnown, WhoInv, PurgedLeftAlone, Purging
  <2>2. /\ UNCHANGED thread
        /\ registrations'[scheduler.id] = None
        /\ \A j \in Req \ {scheduler.id} :
             table'[j] = table[j] /\ registrations'[j] = registrations[j]
    BY <1>10, <2>1 DEF PurgeUnmap, PurgeDelete, TypeInv, TypeOK, WhoInv, PurgeStages
  <2>3. ASSUME NEW r \in Req PROVE StageHolds(r)'
    <3>1. CASE Busy(r)
      BY <2>1, <2>2, <3>1 DEF StageHolds, TableInv, TypeInv, IdsKnown
    <3>2. CASE ~ Busy(r)
      BY <2>2, <3>2 DEF StageHolds, Busy, Ended
    <3>. QED
      BY <3>1, <3>2
  <2>4. RowsCover'
    BY <2>1, <2>2 DEF RowsCover, Between, TableInv
  <2>. QED
    BY <2>3, <2>4 DEF TableInv
<1>11. ASSUME UNCHANGED <<registrations, table, thread>> PROVE TableInv'
  BY <1>11 DEF TableInv, RowsCover, Between, StageHolds
<1>12. ASSUME NEW id \in Req, FindExpired(id) \/ FindPending(id) \/ Expire(id) PROVE TableInv'
  BY <1>12, <1>11 DEF FindExpired, FindPending, Expire
<1>13. ASSUME PurgeForget \/ Retry PROVE TableInv'
  BY <1>13, <1>11 DEF PurgeForget, Retry
<1>14. ASSUME NEW a \in answers, OnAnswer(a) PROVE TableInv'
  BY <1>14, <1>11 DEF OnAnswer
<1>15. ASSUME NEW q \in sent, RemoteAccepts(q) \/ RemoteFails(q) PROVE TableInv'
  BY <1>15, <1>11 DEF RemoteAccepts, RemoteFails
<1>16. CASE UNCHANGED vars
  BY <1>16, <1>11 DEF vars
<1>. QED
  BY <1>1, <1>2, <1>3, <1>4, <1>5, <1>6, <1>7, <1>8, <1>9, <1>10, <1>12, <1>13, <1>14,
     <1>15, <1>16
  DEF Next, Client, HttpThread, Scheduler, Clock, Callbacks, RemoteBroker

LEMMA TableConclude == TypeInv /\ TableInv => TableCoversMap
  BY DEF TableInv, RowsCover, TableCoversMap, Between, UnderWay, Busy, Ended

(* For clients that renew in time the map never holds what the table does  *)
(* not, at whichever statement calls and purges fail or meet.              *)
THEOREM MapIsPersisted ==
  ASSUME RenewInTime
  PROVE  Spec => []TableCoversMap
<1>1. TypeInv /\ [Next]_vars => TypeInv'
  BY TypeStep
<1>2. TypeInv /\ WhoInv /\ [Next]_vars => WhoInv'
  BY WhoStep
<1>3. TypeInv /\ WhoInv /\ TableInv /\ [Next]_vars => TableInv'
  BY TableStep
<1>. QED
  BY TypeInit, WhoInit, TableInit, <1>1, <1>2, <1>3, TableConclude, PTL DEF Spec

---------------------------------------------------------------------------
(* What the remote broker is told.                                         *)

LEMMA RemoteInit == Init => RemoteInv
  BY DEF Init, RemoteInv

(* Threads that go on leave every registration where it is or take it, and *)
(* nothing that is known of it is lost.                                    *)
LEMMA RemoteKept ==
  ASSUME RemoteInv,
         \A i \in Req : registrations'[i] # None =>
            \/ Forwarding(i)' \/ InFlight(i)' \/ Pending(i)' \/ remote'[i].id # None
            \/ /\ registrations[i] # None
               /\ Forwarding(i) => Forwarding(i)'
               /\ InFlight(i) => InFlight(i)'
               /\ Pending(i) => Pending(i)'
               /\ remote[i].id # None => remote'[i].id # None
  PROVE  RemoteInv'
  BY DEF RemoteInv

LEMMA RemoteStep ==
  ASSUME TypeInv, WhoInv, TableInv, RemoteInv, [Next]_vars
  PROVE  RemoteInv'
<1> USE DEF outside
<1>1. ASSUME NEW r \in Req, thread[r].at # "forward",
             \A q \in Req \ {r} : thread'[q] = thread[q],
             UNCHANGED <<remote, sent, answers>>,
             \A i \in Req : registrations'[i] # None => registrations[i] # None
      PROVE  RemoteInv'
  <2>1. \A i \in Req : (Forwarding(i) => Forwarding(i)') /\ InFlight(i)' = InFlight(i)
                       /\ Pending(i)' = Pending(i)
    BY <1>1 DEF Forwarding, InFlight, Pending
  <2>. QED
    BY <2>1, <1>1, RemoteKept
<1>2. ASSUME NEW r \in Req, thread[r].at # "forward",
             \/ RefuseContext(r) \/ LookUp(r) \/ UpdateRow(r) \/ InsertRow(r)
             \/ DeleteRow(r) \/ Unmap(r)
      PROVE  RemoteInv'
  <2>1. \A q \in Req \ {r} : thread'[q] = thread[q]
    BY <1>2 DEF RefuseContext, LookUp, UpdateRow, InsertRow, DeleteRow, Unmap, Refused, Move,
                TypeInv, TypeOK
  <2>2. \A i \in Req : registrations'[i] # None => registrations[i] # None
    BY <1>2 DEF RefuseContext, LookUp, UpdateRow, InsertRow, DeleteRow, Unmap, TypeInv, TypeOK
  <2>3. UNCHANGED <<remote, sent, answers>>
    BY <1>2 DEF RefuseContext, LookUp, UpdateRow, InsertRow, DeleteRow, Unmap
  <2>. QED
    BY <2>1, <2>2, <2>3, <1>2, <1>1
<1>3. ASSUME NEW r \in Req, NEW id \in Ref, RegisterContext(r, id) \/ RemoveContext(r, id)
      PROVE  RemoteInv'
  <2>1. thread[r].at # "forward" /\ \A q \in Req \ {r} : thread'[q] = thread[q]
    BY <1>3 DEF RegisterContext, RemoveContext, MayCall, TypeInv, TypeOK
  <2>. QED
    BY <1>3, <2>1, <1>1 DEF RegisterContext, RemoveContext
<1>4. ASSUME NEW r \in Req, PutRegistration(r) PROVE RemoteInv'
  <2>1. Move(r, "forward") /\ thread[r].at = "put"
    BY <1>4 DEF PutRegistration
  <2>2. /\ thread'[r].at = "forward" /\ thread'[r].id = thread[r].id
        /\ \A q \in Req \ {r} : thread'[q] = thread[q]
    BY <2>1, MoveEffect DEF Stage
  <2>3. \A i \in Req : registrations'[i] # registrations[i] => Forwarding(i)'
    BY <1>4, <2>2 DEF PutRegistration, Forwarding, TypeInv, TypeOK
  <2>4. \A i \in Req : (Forwarding(i) => Forwarding(i)') /\ InFlight(i)' = InFlight(i)
                       /\ Pending(i)' = Pending(i)
    BY <1>4, <2>1, <2>2 DEF PutRegistration, Forwarding, InFlight, Pending
  <2>. QED
    BY <1>4, <2>3, <2>4, RemoteKept DEF PutRegistration
<1>5. ASSUME NEW local \in Req, NEW context, Forward(local, context),
             UNCHANGED <<registrations, answers>>,
             \A i \in Req \ {local} : Forwarding(i) => Forwarding(i)'
      PROVE  RemoteInv'
  <2>1. \A i \in Req : InFlight(i) => InFlight(i)'
    BY <1>5 DEF Forward, InFlight
  <2>2. InFlight(local)'
    <3> DEFINE m == [local |-> local, id |-> remote[local].id, context |-> context]
    <3>1. m \in sent' /\ m.local = local
      BY <1>5 DEF Forward
    <3>. QED
      BY <3>1 DEF InFlight
  <2>3. \A i \in Req \ {local} : remote'[i] = remote[i]
    BY <1>5 DEF Forward, TypeInv, TypeOK
  <2>. QED
    BY <1>5, <2>1, <2>2, <2>3, RemoteKept DEF Pending
<1>6. ASSUME NEW r \in Req, ForwardContext(r) PROVE RemoteInv'
  <2>1. Move(r, "ok") /\ thread[r].at = "forward" /\ thread[r].id \in Req
    BY <1>6 DEF ForwardContext, TypeInv, IdsKnown, Busy, Ended
  <2>2. \A q \in Req \ {r} : thread'[q] = thread[q]
    BY <2>1, MoveEffect DEF Stage, Ended
  <2>3. \A i \in Req \ {thread[r].id} : Forwarding(i) => Forwarding(i)'
    BY <2>2 DEF Forwarding
  <2>. QED
    BY <1>6, <2>1, <2>3, <1>5 DEF ForwardContext
<1>7. ASSUME Retry PROVE RemoteInv'
  <2>1. scheduler.id \in Req
    BY <1>7 DEF Retry, TypeInv, IdsKnown
  <2>2. \A i \in Req : Forwarding(i)' = Forwarding(i)
    BY <1>7 DEF Retry, Forwarding
  <2>. QED
    BY <1>7, <2>1, <2>2, <1>5 DEF Retry
<1>8. ASSUME NEW i \in Req, registrations[i] = None, remote' = [remote EXCEPT ![i] = NoEntry],
             UNCHANGED <<registrations, sent, answers>>,
             \A j \in Req : Forwarding(j) => Forwarding(j)'
      PROVE  RemoteInv'
  <2>1. \A j \in Req : InFlight(j)' = InFlight(j)
    BY <1>8 DEF InFlight
  <2>2. \A j \in Req \ {i} : remote'[j] = remote[j]
    BY <1>8 DEF TypeInv, TypeOK
  <2>. QED
    BY <1>8, <2>1, <2>2, RemoteKept DEF Pending
<1>9. ASSUME NEW r \in Req, Forget(r) PROVE RemoteInv'
  <2>1. Move(r, "ok") /\ thread[r].at = "forget" /\ thread[r].id \in Req
    BY <1>9 DEF Forget, TypeInv, IdsKnown, Busy, Ended
  <2>2. registrations[thread[r].id] = None
    BY <2>1 DEF TableInv, StageHolds
  <2>3. \A q \in Req \ {r} : thread'[q] = thread[q]
    BY <2>1, MoveEffect DEF Stage, Ended
  <2>4. \A j \in Req : Forwarding(j) => Forwarding(j)'
    BY <2>1, <2>3 DEF Forwarding
  <2>. QED
    BY <1>9, <2>1, <2>2, <2>4, <1>8 DEF Forget
<1>10. ASSUME PurgeForget PROVE RemoteInv'
  <2>1. scheduler.id \in Req /\ registrations[scheduler.id] = None
    BY <1>10 DEF PurgeForget, TypeInv, IdsKnown, WhoInv, PurgeStages
  <2>2. \A j \in Req : Forwarding(j)' = Forwarding(j)
    BY <1>10 DEF PurgeForget, Forwarding
  <2>. QED
    BY <1>10, <2>1, <2>2, <1>8 DEF PurgeForget
<1>11. ASSUME UNCHANGED <<remote, thread>>,
              \A i \in Req : InFlight(i) => InFlight(i)',
              \A i \in Req : registrations'[i] # None => registrations[i] # None
       PROVE  RemoteInv'
  <2>1. \A i \in Req : Forwarding(i)' = Forwarding(i) /\ Pending(i)' = Pending(i)
    BY <1>11 DEF Forwarding, Pending
  <2>. QED
    BY <1>11, <2>1, RemoteKept
<1>12. ASSUME PurgeUnmap \/ PurgeDelete PROVE RemoteInv'
  <2>1. \A i \in Req : registrations'[i] # None => registrations[i] # None
    BY <1>12 DEF PurgeUnmap, PurgeDelete, TypeInv, TypeOK
  <2>2. \A i \in Req : InFlight(i)' = InFlight(i)
    BY <1>12 DEF PurgeUnmap, PurgeDelete, InFlight
  <2>. QED
    BY <1>12, <2>1, <2>2, <1>11 DEF PurgeUnmap, PurgeDelete
<1>13. ASSUME UNCHANGED <<registrations, remote, thread, sent, answers>> PROVE RemoteInv'
  <2>1. \A i \in Req : InFlight(i)' = InFlight(i)
    BY <1>13 DEF InFlight
  <2>. QED
    BY <1>13, <2>1, <1>11
<1>14. ASSUME NEW id \in Req, FindExpired(id) \/ FindPending(id) \/ Expire(id) PROVE RemoteInv'
  BY <1>14, <1>13 DEF FindExpired, FindPending, Expire
<1>15. ASSUME NEW a \in answers, OnAnswer(a) PROVE RemoteInv'
  <2>1. a \in Answer /\ (a.ok => a.id \in Req)
    BY DEF TypeInv, TypeOK, AnswersHaveIds
  <2>2. a.local \in Req /\ a.context \in Req
    BY <2>1 DEF Answer
  <2> DEFINE entry == [present |-> TRUE, id |-> a.id, context |-> ToRetry(a)]
  <2>3. entry.id = a.id /\ entry.context = ToRetry(a)
    OBVIOUS
  <2>4. remote' = [remote EXCEPT ![a.local] = entry]
    BY <1>15 DEF OnAnswer
  <2> HIDE DEF entry
  <2>5. remote'[a.local].id # None \/ Pending(a.local)'
    BY <2>1, <2>2, <2>3, <2>4 DEF Pending, ToRetry, TypeInv, TypeOK
  <2>6. \A i \in Req \ {a.local} : remote'[i] = remote[i]
    BY <2>4 DEF TypeInv, TypeOK
  <2>7. \A i \in Req \ {a.local} : InFlight(i) => InFlight(i)'
    BY <1>15 DEF OnAnswer, InFlight
  <2>8. \A i \in Req : Forwarding(i)' = Forwarding(i)
    BY <1>15 DEF OnAnswer, Forwarding
  <2>. QED
    BY <1>15, <2>2, <2>5, <2>6, <2>7, <2>8, RemoteKept DEF OnAnswer, Pending
<1>16. ASSUME NEW q \in sent, NEW id, NEW ok, sent' = sent \ {q},
              answers' = answers \cup
                {[local |-> q.local, id |-> id, context |-> q.context, ok |-> ok]}
       PROVE  \A i \in Req : InFlight(i) => InFlight(i)'
  <2> DEFINE a == [local |-> q.local, id |-> id, context |-> q.context, ok |-> ok]
  <2>1. a \in answers' /\ a.local = q.local
    BY <1>16
  <2> HIDE DEF a
  <2>. QED
    BY <1>16, <2>1 DEF InFlight
<1>17. ASSUME NEW q \in sent, RemoteAccepts(q) PROVE RemoteInv'
  <2>1. \A i \in Req : InFlight(i) => InFlight(i)'
    BY <1>17, <1>16 DEF RemoteAccepts
  <2>. QED
    BY <1>17, <2>1, <1>11 DEF RemoteAccepts
<1>18. ASSUME NEW q \in sent, RemoteFails(q) PROVE RemoteInv'
  <2>1. \A i \in Req : InFlight(i) => InFlight(i)'
    BY <1>18, <1>16 DEF RemoteFails
  <2>. QED
    BY <1>18, <2>1, <1>11 DEF RemoteFails
<1>19. CASE UNCHANGED vars
  BY <1>19, <1>13 DEF vars
<1>20. ASSUME NEW r \in Req,
              \/ RefuseContext(r) \/ LookUp(r) \/ UpdateRow(r) \/ InsertRow(r)
              \/ DeleteRow(r) \/ Unmap(r)
       PROVE  RemoteInv'
  <2>1. thread[r].at # "forward"
    BY <1>20 DEF RefuseContext, LookUp, UpdateRow, InsertRow, DeleteRow, Unmap
  <2>. QED
    BY <1>20, <2>1, <1>2
<1>. QED
  BY <1>3, <1>4, <1>6, <1>7, <1>9, <1>10, <1>12, <1>14, <1>15, <1>17, <1>18, <1>19, <1>20
  DEF Next, Client, HttpThread, Scheduler, Clock, Callbacks, RemoteBroker

LEMMA RemoteConclude == RemoteInv => NeverForgotten
  BY DEF RemoteInv, NeverForgotten, Forwarding, UnderWay, Busy, Ended

(* For clients that renew in time the remote broker never loses track of a *)
(* registration, whatever failed and in whatever order updates, retries    *)
(* and answers came.                                                       *)
THEOREM RemoteIsTold ==
  ASSUME RenewInTime
  PROVE  Spec => []NeverForgotten
<1>1. TypeInv /\ [Next]_vars => TypeInv'
  BY TypeStep
<1>2. TypeInv /\ WhoInv /\ [Next]_vars => WhoInv'
  BY WhoStep
<1>3. TypeInv /\ WhoInv /\ TableInv /\ [Next]_vars => TableInv'
  BY TableStep
<1>4. TypeInv /\ WhoInv /\ TableInv /\ RemoteInv /\ [Next]_vars => RemoteInv'
  BY RemoteStep
<1>. QED
  BY TypeInit, WhoInit, TableInit, RemoteInit, <1>1, <1>2, <1>3, <1>4, RemoteConclude, PTL
  DEF Spec

==============================================================================
