--------------------------- MODULE Registrations ---------------------------
(***************************************************************************)
(* Context registrations of the Cepheus broker: LocalRegistrations (the    *)
(* live map), RegistrationsRepository (its table) and RemoteRegistrations  *)
(* (what the remote broker was told, and what is still to be told).        *)
(*                                                                         *)
(* HTTP threads run updateRegistrationContext without a lock.  One Spring  *)
(* scheduler thread runs the purge and the retry, and the threads of the   *)
(* asynchronous HTTP client run the callbacks.  One action is what a       *)
(* thread does between two accesses to shared state.                       *)
(*                                                                         *)
(* A call brings one RegisterContext and draws at most one UUID: both are  *)
(* named by the call.  A remote registration is named by the context that  *)
(* made the remote broker create it.  A remote broker is configured.       *)
(***************************************************************************)
EXTENDS Naturals

CONSTANTS
  Req,           \* the registerContext calls: each is made once (bound)
  MaxFailures,   \* how many calls to the remote broker may fail (bound)
  MaxFaults,     \* how many database statements may fail (bound)
  RenewInTime,   \* do clients call about a registration one call at a time,
                 \* and never while it expires?
  None           \* Java's null

ASSUME ConstantsAssumption ==
  /\ None \notin Req
  /\ {MaxFailures, MaxFaults} \subseteq Nat
  /\ RenewInTime \in BOOLEAN

VARIABLES
  registrations, \* LocalRegistrations.registrations: the context under each id
  expired,       \* contexts whose expiration date has passed
  table,         \* t_registrations: the context in each row
  remote,        \* RemoteRegistrations.registrations
  thread,        \* where each call is
  scheduler,     \* what the scheduler thread is doing
  sent,          \* registerContext requests on their way to the remote broker
  answers,       \* its answers on their way back
  forwarded,     \* the contexts it has taken
  failures,      \* how many of those calls have failed
  faults         \* how many database statements have failed

vars == <<registrations, expired, table, remote, thread, scheduler, sent,
          answers, forwarded, failures, faults>>
outside == <<sent, answers, forwarded, failures>>

Ref == Req \cup {None}

\* A RemoteRegistration object, or its absence from the map.
Entry == [present : BOOLEAN, id : Ref, context : Ref]
NoEntry == [present |-> FALSE, id |-> None, context |-> None]

Ended == {"ok", "error"}
Stage == {"idle", "look", "update", "insert", "put", "forward",
          "delete", "unmap", "forget"} \cup Ended

Request == [local : Req, id : Ref, context : Req]
Answer == [local : Req, id : Ref, context : Req, ok : BOOLEAN]

Resting == [at |-> "idle", id |-> None, context |-> None]

Init ==
  /\ registrations = [i \in Req |-> None]
  /\ expired = {}
  /\ table = [i \in Req |-> None]
  /\ remote = [i \in Req |-> NoEntry]
  /\ thread = [r \in Req |-> [id |-> None, at |-> "idle"]]
  /\ scheduler = Resting
  /\ sent = {}
  /\ answers = {}
  /\ forwarded = {}
  /\ failures = 0
  /\ faults = 0

Busy(r) == thread[r].at \notin {"idle"} \cup Ended

Move(r, stage) == thread' = [thread EXCEPT ![r].at = stage]

\* A statement the database refuses: RegistrationPersistenceException, which
\* ends a call.
Fault == faults < MaxFaults /\ faults' = faults + 1
RefusedSilently(r) == Fault /\ Move(r, "put")
Refused(r) == Fault /\ Move(r, "error")

----------------------------------------------------------------------------
\* updateRegistrationContext

\* The id a client may send: none, or one an earlier call returned.
MayCall(r, id) ==
  /\ thread[r].at = "idle"
  /\ id # None => \E q \in Req : thread[q] = [id |-> id, at |-> "ok"]
  /\ RenewInTime /\ id # None =>
       /\ \A q \in Req : thread[q].id = id => ~Busy(q)
       /\ registrations[id] \notin expired
       /\ scheduler.id # id

\* Lines 65-87: the id is kept when it names a registration of the map.
RegisterContext(r, id) ==
  /\ MayCall(r, id)
  /\ thread' = [thread EXCEPT ![r] =
       [id |-> IF id # None /\ registrations[id] # None THEN id ELSE r, at |-> "look"]]
  /\ UNCHANGED <<registrations, expired, table, remote, scheduler, outside, faults>>

\* A duration or a pattern that does not parse.
RefuseContext(r) ==
  /\ thread[r].at = "idle"
  /\ Move(r, "error")
  /\ UNCHANGED <<registrations, expired, table, remote, scheduler, outside, faults>>

\* getRegistration: is there a row to update?
LookUp(r) ==
  /\ thread[r].at = "look"
  /\ \/ /\ Move(r, IF table[thread[r].id] = None THEN "insert" ELSE "update")
        /\ UNCHANGED faults
     \/ Refused(r)
  /\ UNCHANGED <<registrations, expired, table, remote, scheduler, outside>>

\* updateRegistration: no row matches when it was removed in between.
UpdateRow(r) ==
  /\ thread[r].at = "update"
  /\ \/ /\ table' = [table EXCEPT ![thread[r].id] = IF @ = None THEN None ELSE r]
        /\ Move(r, "put")
        /\ UNCHANGED faults
     \/ Refused(r) /\ UNCHANGED table
  /\ UNCHANGED <<registrations, expired, remote, scheduler, outside>>

\* saveRegistration: the id is the table's primary key.
InsertRow(r) ==
  /\ thread[r].at = "insert"
  /\ \/ /\ table[thread[r].id] = None
        /\ table' = [table EXCEPT ![thread[r].id] = r]
        /\ Move(r, "put")
        /\ UNCHANGED faults
     \/ table[thread[r].id] # None /\ Move(r, "error") /\ UNCHANGED <<table, faults>>
     \/ Refused(r) /\ UNCHANGED table
  /\ UNCHANGED <<registrations, expired, remote, scheduler, outside>>

PutRegistration(r) ==
  /\ thread[r].at = "put"
  /\ registrations' = [registrations EXCEPT ![thread[r].id] = r]
  /\ Move(r, "forward")
  /\ UNCHANGED <<expired, table, remote, scheduler, outside, faults>>

\* RemoteRegistrations.registerContext: what is pending is cleared under the
\* lock, and the context goes out under the remote id known at that moment.
Forward(local, context) ==
  /\ remote' = [remote EXCEPT ![local].context = None]
  /\ sent' = sent \cup {[local |-> local, id |-> remote[local].id, context |-> context]}

ForwardContext(r) ==
  /\ thread[r].at = "forward"
  /\ Forward(thread[r].id, r)
  /\ Move(r, "ok")
  /\ UNCHANGED <<registrations, expired, table, scheduler, answers, forwarded, failures, faults>>

\* A zero duration with an id: row, map and remote entry go, in this order.
RemoveContext(r, id) ==
  /\ MayCall(r, id)
  /\ id # None
  /\ thread' = [thread EXCEPT ![r] = [id |-> id, at |-> "delete"]]
  /\ UNCHANGED <<registrations, expired, table, remote, scheduler, outside, faults>>

DeleteRow(r) ==
  /\ thread[r].at = "delete"
  /\ \/ /\ table' = [table EXCEPT ![thread[r].id] = None]
        /\ Move(r, "unmap")
        /\ UNCHANGED faults
     \/ Refused(r) /\ UNCHANGED table
  /\ UNCHANGED <<registrations, expired, remote, scheduler, outside>>

Unmap(r) ==
  /\ thread[r].at = "unmap"
  /\ registrations' = [registrations EXCEPT ![thread[r].id] = None]
  /\ Move(r, "forget")
  /\ UNCHANGED <<expired, table, remote, scheduler, outside, faults>>

Forget(r) ==
  /\ thread[r].at = "forget"
  /\ remote' = [remote EXCEPT ![thread[r].id] = NoEntry]
  /\ Move(r, "ok")
  /\ UNCHANGED <<registrations, expired, table, scheduler, outside, faults>>

----------------------------------------------------------------------------
\* The scheduler thread.  Each task visits the entries of a map one by one; a
\* task here is one such visit.

\* purgeExpiredContextRegistrations meets an expired registration; other
\* threads run between this and the steps that remove it.
FindExpired(id) ==
  /\ scheduler.at = "idle"
  /\ registrations[id] \in expired
  /\ scheduler' = [at |-> "unmap", id |-> id, context |-> None]
  /\ UNCHANGED <<registrations, expired, table, remote, thread, outside, faults>>

PurgeUnmap ==
  /\ scheduler.at = "unmap"
  /\ registrations' = [registrations EXCEPT ![scheduler.id] = None]
  /\ scheduler' = [scheduler EXCEPT !.at = "forget"]
  /\ UNCHANGED <<expired, table, remote, thread, outside, faults>>

PurgeForget ==
  /\ scheduler.at = "forget"
  /\ remote' = [remote EXCEPT ![scheduler.id] = NoEntry]
  /\ scheduler' = [scheduler EXCEPT !.at = "delete"]
  /\ UNCHANGED <<registrations, expired, table, thread, outside, faults>>

\* A statement that fails is logged: the row stays.
PurgeDelete ==
  /\ scheduler.at = "delete"
  /\ \/ table' = [table EXCEPT ![scheduler.id] = None] /\ UNCHANGED faults
     \/ Fault /\ UNCHANGED table
  /\ scheduler' = Resting
  /\ UNCHANGED <<registrations, expired, remote, thread, outside>>

\* registerPendingRemoteRegistrations: the context is read without the lock.
PendingOnlyWithId(id) == remote[id].context # None /\ remote[id].id # None
Pending(id) == remote[id].context # None

FindPending(id) ==
  /\ scheduler.at = "idle"
  /\ Pending(id)
  /\ scheduler' = [at |-> "retry", id |-> id, context |-> remote[id].context]
  /\ UNCHANGED <<registrations, expired, table, remote, thread, outside, faults>>

Retry ==
  /\ scheduler.at = "retry"
  /\ Forward(scheduler.id, scheduler.context)
  /\ scheduler' = Resting
  /\ UNCHANGED <<registrations, expired, table, thread, answers, forwarded, failures, faults>>

\* Time passes: the expiration date of a context of the map lies in the past.
Expire(c) ==
  /\ c \notin expired
  /\ c \in {registrations[i] : i \in Req}
  /\ RenewInTime => \A q \in Req : thread[q].id = thread[c].id => ~Busy(q)
  /\ expired' = expired \cup {c}
  /\ UNCHANGED <<registrations, table, remote, thread, scheduler, outside, faults>>

----------------------------------------------------------------------------
\* The remote broker, and the callbacks on its answers

\* What a failed registration leaves to be retried: its context.
ToRetryForgotten(a) == None
ToRetryAnswer(a) == IF a.ok THEN None ELSE a
ToRetry(a) == IF a.ok THEN None ELSE a.context

\* updateRemoteRegistration: the entry is made when it is not there.
OnAnswer(a) ==
  /\ answers' = answers \ {a}
  /\ remote' = [remote EXCEPT ![a.local] =
                  [present |-> TRUE, id |-> a.id, context |-> ToRetry(a)]]
  /\ UNCHANGED <<registrations, expired, table, thread, scheduler, sent, forwarded, failures, faults>>

IdOf(q) == IF q.id = None THEN q.context ELSE q.id

Take(q) == forwarded' = forwarded \cup {q.context}

RemoteAccepts(q) ==
  /\ sent' = sent \ {q}
  /\ Take(q)
  /\ answers' = answers \cup
       {[local |-> q.local, id |-> IdOf(q), context |-> q.context, ok |-> TRUE]}
  /\ UNCHANGED <<registrations, expired, table, remote, thread, scheduler, failures, faults>>

\* An error in the response, with or without an id, or no response at all,
\* in which case the remote broker may still have taken the context.
RemoteFails(q) ==
  /\ failures < MaxFailures
  /\ failures' = failures + 1
  /\ sent' = sent \ {q}
  /\ Take(q) \/ UNCHANGED forwarded
  /\ \E id \in {None, q.id} : answers' = answers \cup
       {[local |-> q.local, id |-> id, context |-> q.context, ok |-> FALSE]}
  /\ UNCHANGED <<registrations, expired, table, remote, thread, scheduler, faults>>

----------------------------------------------------------------------------

Client ==
  \E r \in Req :
    \/ RefuseContext(r)
    \/ \E id \in Ref : RegisterContext(r, id) \/ RemoveContext(r, id)

HttpThread ==
  \E r \in Req :
    \/ LookUp(r) \/ UpdateRow(r) \/ InsertRow(r) \/ PutRegistration(r) \/ ForwardContext(r)
    \/ DeleteRow(r) \/ Unmap(r) \/ Forget(r)

Scheduler ==
  \/ \E id \in Req : FindExpired(id) \/ FindPending(id)
  \/ PurgeUnmap \/ PurgeForget \/ PurgeDelete \/ Retry

Clock == \E c \in Req : Expire(c)

Callbacks == \E a \in answers : OnAnswer(a)

RemoteBroker == \E q \in sent : RemoteAccepts(q) \/ RemoteFails(q)

Next == Client \/ HttpThread \/ Scheduler \/ Clock \/ Callbacks \/ RemoteBroker

Spec == Init /\ [][Next]_vars

\* Threads run, the scheduler's tasks come back every minute, and the HTTP
\* client's requests are answered or fail; clients and time owe nothing.
FairSpec == Spec /\ WF_vars(HttpThread) /\ WF_vars(Scheduler)
                 /\ WF_vars(Callbacks) /\ WF_vars(RemoteBroker)

----------------------------------------------------------------------------
\* Properties

\* Every variable holds values of its kind.
TypeOK ==
  /\ registrations \in [Req -> Ref]
  /\ expired \subseteq Req
  /\ table \in [Req -> Ref]
  /\ remote \in [Req -> Entry]
  /\ thread \in [Req -> [id : Ref, at : Stage]]
  /\ scheduler \in [at : {"idle", "unmap", "forget", "delete", "retry"}, id : Ref, context : Ref]
  /\ sent \subseteq Request
  /\ answers \subseteq Answer
  /\ forwarded \subseteq Req
  /\ failures \in 0..MaxFailures
  /\ faults \in 0..MaxFaults

InFlight(i) == \E m \in sent \cup answers : m.local = i

UnderWay(i) == (\E r \in Req : thread[r].id = i /\ Busy(r)) \/ scheduler.id = i

\* The remote side never loses track of a live registration: a request about
\* it is in flight, its retry is planned, or its remote id is known, whatever
\* failed and in whatever order updates, retries and answers came.
NeverForgotten ==
  \A i \in Req :
    registrations[i] # None /\ ~UnderWay(i) =>
      InFlight(i) \/ Pending(i) \/ remote[i].id # None

\* The map never holds what the table does not: a statement that fails leaves
\* both as they were, and a removal that gets half way leaves only the row
\* behind.
TableCoversMap ==
  \A i \in Req : registrations[i] # None /\ ~UnderWay(i) => table[i] = registrations[i]

\* A registration that stays is registered with the remote broker in the end:
\* what fails is retried ("Scheduled task that will retry failed remote
\* registrations", RemoteRegistrations.java 101).
EventuallyRegistered ==
  \A i \in Req : registrations[i] # None ~> registrations[i] = None \/ remote[i].id # None

\* "All registrations updates are forwarded to the remote broker"
\* (LocalRegistrations.java 42): when nothing about a registration is under way
\* or pending, the remote broker has been given its current context.
UpdatesAreForwarded ==
  \A i \in Req :
    registrations[i] # None /\ ~UnderWay(i) /\ ~InFlight(i) /\ ~Pending(i)
      => registrations[i] \in forwarded

\* The purge removes expired registrations only ("Removed expired
\* registrations every min", LocalRegistrations.java 158).
PurgesOnlyExpired ==
  [][PurgeUnmap => registrations[scheduler.id] \in expired \cup {None}]_vars
=============================================================================
