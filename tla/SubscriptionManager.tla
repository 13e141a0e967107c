------------------------ MODULE SubscriptionManager ------------------------
(***************************************************************************)
(* How the Cepheus CEP keeps itself subscribed to the providers of its     *)
(* configuration: SubscriptionManager.java.                                *)
(*                                                                         *)
(* Three kinds of threads meet here.  An admin thread (one at a time, the  *)
(* controller is synchronized) sets a configuration; the scheduler's only  *)
(* thread runs the periodic task; the threads of the asynchronous HTTP     *)
(* client record answers, and HTTP threads validate notifications.  One    *)
(* action is one access to the two fields they share, or the work on one   *)
(* Provider object, whose fields are taken together.                       *)
(*                                                                         *)
(* The calls of setConfiguration are numbered.  A configuration's Provider *)
(* objects are named by the call that brought it and by their source (an   *)
(* event type and the URL of a provider), a Subscriptions object by the    *)
(* call that made it.  Setting the same configuration again is what a      *)
(* refused POST does.  A subscription's id is drawn when it is asked for,  *)
(* from those nobody knows any more; objects nobody reads any more are     *)
(* emptied, so that there are only so many of both.                        *)
(***************************************************************************)
EXTENDS Naturals

CONSTANTS
  Source,        \* event types with the URL of one of their providers
  Id,            \* ids of subscriptions
  MaxSettings,   \* how often a configuration is set (bound)
  MaxMishaps,    \* failed requests and early notifications (bound)
  Null           \* Java's null

ASSUME SubscriptionAssumption ==
  /\ {MaxSettings, MaxMishaps} \subseteq Nat
  /\ Null \notin Id

VARIABLES
  providers,     \* the sources of the configuration each call brought
  record,        \* the Provider objects: subscriptionId and subscriptionDate
  current,       \* eventTypeIns: the call that brought them
  set,           \* the field subscriptions: the call that made the object
  valid,         \* the ids in each Subscriptions object
  adminThread,   \* where setConfiguration is, and its locals
  task,          \* where the periodic task is, and its locals
  due,           \* has the task just been scheduled, to run at once?
  sent,          \* requests on their way to providers
  answers,       \* their answers to subscribe requests
  live,          \* the live subscriptions at each source
  mishaps

cep == <<providers, record, current, set, valid, adminThread, task, due>>
subscriptionVars ==
  <<providers, record, current, set, valid, adminThread, task, due,
    sent, answers, live, mishaps>>

Setting == 0..MaxSettings
IdOrNull == Id \cup {Null}

\* subscriptionDate: null, or how far the deadline is.
Date == {"none", "fresh", "passed"}
Record == [id : IdOrNull, date : Date]
NoRecord == [id |-> Null, date |-> "none"]

AdminThread == [at : {"idle", "migrate", "replaceTypes"},
          config : Setting, made : Setting, todo : SUBSET Source]
Task == [at : {"idle", "read", "visit"}, set : Setting, config : Setting, todo : SUBSET Source]

Subscribing == [kind : {"subscribe"}, id : Id, source : Source, config : Setting, set : Setting]
Unsubscribing == [kind : {"unsubscribe"}, id : Id, source : Source]

SubscriptionInit ==
  /\ providers = [n \in Setting |-> {}]
  /\ record = [n \in Setting |-> [s \in Source |-> NoRecord]]
  /\ current = 0
  /\ set = 0
  /\ valid = [n \in Setting |-> {}]
  /\ adminThread = [at |-> "idle", config |-> 0, made |-> 0, todo |-> {}]
  /\ task = [at |-> "idle", set |-> 0, config |-> 0, todo |-> {}]
  /\ due = FALSE
  /\ sent = {}
  /\ answers = {}
  /\ live = [s \in Source |-> {}]
  /\ mishaps = 0

InFlight == {m \in sent : m.kind = "subscribe"} \cup answers

Unsubscribe(s, id) == [kind |-> "unsubscribe", id |-> id, source |-> s]

----------------------------------------------------------------------------
\* setConfiguration

\* A POST brings new Provider objects; a refused one sets those of the
\* current configuration again.  adminThread.made numbers the calls.
SetConfiguration(config, sources) ==
  /\ adminThread.at = "idle"
  /\ adminThread.made < MaxSettings
  /\ providers' = [providers EXCEPT ![config] = sources]
  /\ adminThread' = [at |-> "migrate", config |-> config, made |-> adminThread.made + 1,
               todo |-> providers[current]]
  /\ UNCHANGED <<record, current, set, valid, task, due, sent, answers, live, mishaps>>

SetNewConfiguration ==
  \E sources \in SUBSET Source : SetConfiguration(adminThread.made + 1, sources)

RestoreConfiguration == current # 0 /\ SetConfiguration(current, providers[current])

\* migrateSubscriptions meets a provider the new configuration has too: its
\* subscription, if any, moves, and a null id is added like any other.
KeepProvider(s) ==
  LET old == record[current][s] IN
  /\ s \in providers[adminThread.config]
  /\ record' = [record EXCEPT ![adminThread.config][s] = old]
  /\ valid' = [valid EXCEPT ![adminThread.made] = @ \cup {old.id}]
  /\ UNCHANGED sent

\* ... or one it has not: unsubscribeProvider.
SubscribedAnyway(r) == TRUE
Subscribed(r) == r.id # Null

DropProvider(s) ==
  LET old == record[current][s] IN
  /\ s \notin providers[adminThread.config]
  /\ IF Subscribed(old)
       THEN /\ valid' = [valid EXCEPT ![set] = @ \ {old.id}]
            /\ sent' = sent \cup {Unsubscribe(s, old.id)}
            /\ record' = [record EXCEPT ![current][s] = NoRecord]
       ELSE UNCHANGED <<record, valid, sent>>

MigrateProvider(s) ==
  /\ adminThread.at = "migrate"
  /\ s \in adminThread.todo
  /\ KeepProvider(s) \/ DropProvider(s)
  /\ adminThread' = [adminThread EXCEPT !.todo = @ \ {s}]
  /\ UNCHANGED <<providers, current, set, task, due, answers, live, mishaps>>

ReplaceSet ==
  /\ adminThread.at = "migrate" /\ adminThread.todo = {}
  /\ set' = adminThread.made
  /\ valid' = [valid EXCEPT ![set] = {}]
  /\ adminThread' = [adminThread EXCEPT !.at = "replaceTypes"]
  /\ UNCHANGED <<providers, record, current, task, due, sent, answers, live, mishaps>>

\* eventTypeIns is replaced, and the task rescheduled to run at once; a run
\* under way goes on, with the objects it has.
ReplaceTypes ==
  LET garbage == {current} \ {adminThread.config, task.config} IN
  /\ adminThread.at = "replaceTypes"
  /\ current' = adminThread.config
  /\ due' = TRUE
  /\ adminThread' = [adminThread EXCEPT !.at = "idle", !.config = 0]
  /\ record' = [n \in Setting |-> IF n \in garbage THEN [s \in Source |-> NoRecord] ELSE record[n]]
  /\ providers' = [n \in Setting |-> IF n \in garbage THEN {} ELSE providers[n]]
  /\ UNCHANGED <<set, valid, task, sent, answers, live, mishaps>>

----------------------------------------------------------------------------
\* periodicSubscriptionTask

\* It runs when it was rescheduled, then every five minutes; requests are
\* answered or fail in less than that.
TaskTakesSet ==
  /\ task.at = "idle"
  /\ due \/ (current # 0 /\ InFlight = {})
  /\ due' = FALSE
  /\ task' = [task EXCEPT !.at = "read", !.set = set]
  /\ UNCHANGED <<providers, record, current, set, valid, adminThread, sent, answers, live, mishaps>>

TaskReadsTypes ==
  /\ task.at = "read"
  /\ task' = [task EXCEPT !.at = "visit", !.config = current, !.todo = providers[current]]
  /\ UNCHANGED <<providers, record, current, set, valid, adminThread, due, sent, answers, live, mishaps>>

\* Ids that nobody knows any more.
Known ==
  {m.id : m \in sent \cup answers} \cup UNION {live[s] : s \in Source}
    \cup valid[set] \cup valid[adminThread.made]
    \cup {record[n][s].id : n \in {current, adminThread.config, task.config}, s \in Source}
Fresh == Id \ Known

\* A provider without subscription, or whose deadline comes before the next run.
DeadlineIgnored(r) == FALSE
DeadlinePassed(r) == r.date = "passed"
NeedsSubscription(r) == r.date = "none" \/ DeadlinePassed(r)

TaskVisits(s) ==
  LET r == record[task.config][s] IN
  /\ task.at = "visit"
  /\ s \in task.todo
  /\ task' = [task EXCEPT !.todo = @ \ {s}]
  /\ IF NeedsSubscription(r)
       THEN /\ Fresh # {}
            /\ sent' = sent \cup
                 {[kind |-> "subscribe", id |-> CHOOSE i \in Fresh : TRUE, source |-> s,
                   config |-> task.config, set |-> task.set]}
       ELSE UNCHANGED sent
  /\ IF DeadlinePassed(r) /\ Subscribed(r)
       THEN /\ valid' = [valid EXCEPT ![task.set] = @ \ {r.id}]
            /\ record' = [record EXCEPT ![task.config][s] = NoRecord]
       ELSE UNCHANGED <<valid, record>>
  /\ UNCHANGED <<providers, current, set, adminThread, due, answers, live, mishaps>>

AfterRunAgain == [task EXCEPT !.todo = providers[task.config]]
AfterRun == [at |-> "idle", set |-> 0, config |-> 0, todo |-> {}]

TaskEnds ==
  /\ task.at = "visit" /\ task.todo = {}
  /\ task' = AfterRun
  /\ UNCHANGED <<providers, record, current, set, valid, adminThread, due, sent, answers, live, mishaps>>

----------------------------------------------------------------------------
\* Answers and notifications

\* The callback of subscribeProvider works on the Provider and Subscriptions
\* objects the task gave it, whatever has replaced them since.
OnSubscribed(a) ==
  /\ answers' = answers \ {a}
  /\ record' = IF a.config \in {current, adminThread.config, task.config}
                 THEN [record EXCEPT ![a.config][a.source] = [id |-> a.id, date |-> "fresh"]]
                 ELSE record
  /\ valid' = IF a.set \in {set, adminThread.made}
                THEN [valid EXCEPT ![a.set] = @ \cup {a.id}] ELSE valid
  /\ UNCHANGED <<providers, current, set, adminThread, task, due, sent, live, mishaps>>

\* validateSubscriptionId refuses a notification of a subscription that is
\* not in the current set, and unsubscribes it.  A provider may notify before
\* its answer has come: a mishap.
RefuseNotification(s, id) ==
  /\ id \in live[s] \ valid[set]
  /\ IF \E a \in answers : a.id = id
       THEN mishaps < MaxMishaps /\ mishaps' = mishaps + 1
       ELSE UNCHANGED mishaps
  /\ sent' = sent \cup {Unsubscribe(s, id)}
  /\ UNCHANGED <<cep, answers, live>>

----------------------------------------------------------------------------
\* Providers, and time

Accept(m) ==
  /\ sent' = sent \ {m}
  /\ IF m.kind = "subscribe"
       THEN /\ live' = [live EXCEPT ![m.source] = @ \cup {m.id}]
            /\ answers' = answers \cup {m}
       ELSE /\ live' = [live EXCEPT ![m.source] = @ \ {m.id}]
            /\ UNCHANGED answers
  /\ UNCHANGED <<cep, mishaps>>

\* A request or its answer is lost, or the provider answers an error: the CEP
\* only logs that.
Fail(m) ==
  /\ mishaps < MaxMishaps
  /\ mishaps' = mishaps + 1
  /\ sent' = sent \ {m}
  /\ \/ m.kind = "subscribe" /\ live' = [live EXCEPT ![m.source] = @ \cup {m.id}]
     \/ UNCHANGED live
  /\ UNCHANGED <<cep, answers>>

\* The deadline of a subscription comes before the next run of the task.  An
\* hour has passed: what was under way was answered, and the source has
\* dropped the subscriptions before this one.
Deadline(n, s) ==
  /\ record[n][s].date = "fresh"
  /\ InFlight = {} /\ live[s] \subseteq {record[n][s].id}
  /\ record' = [record EXCEPT ![n][s].date = "passed"]
  /\ UNCHANGED <<providers, current, set, valid, adminThread, task, due, sent, answers, live, mishaps>>

\* A provider drops a subscription after its duration, which is not before
\* the CEP's own deadline.
Expire(s, id) ==
  /\ id \in live[s]
  /\ \A n \in {current, adminThread.config} : record[n][s] # [id |-> id, date |-> "fresh"]
  /\ \A a \in answers : a.id # id
  /\ live' = [live EXCEPT ![s] = @ \ {id}]
  /\ UNCHANGED <<cep, sent, answers, mishaps>>

----------------------------------------------------------------------------

Configure ==
  \/ \E s \in Source : MigrateProvider(s)
  \/ ReplaceSet \/ ReplaceTypes

PeriodicTask ==
  \/ TaskTakesSet \/ TaskReadsTypes
  \/ \E s \in Source : TaskVisits(s)
  \/ TaskEnds

Callbacks == \E a \in answers : OnSubscribed(a)

Providers == \E m \in sent : Accept(m) \/ Fail(m)

SubscriptionNext ==
  \/ SetNewConfiguration \/ RestoreConfiguration \/ Configure
  \/ PeriodicTask \/ Callbacks \/ Providers
  \/ \E s \in Source :
       \/ Deadline(current, s) \/ Deadline(task.config, s)
       \/ \E id \in Id : RefuseNotification(s, id) \/ Expire(s, id)

SubscriptionSpec == SubscriptionInit /\ [][SubscriptionNext]_subscriptionVars

\* Threads run, the task comes back every five minutes, requests are answered
\* or fail, deadlines pass and subscriptions do not outlive their duration;
\* nobody has to post a configuration or to notify.
FairSpec ==
  /\ SubscriptionSpec
  /\ WF_subscriptionVars(Configure) /\ WF_subscriptionVars(PeriodicTask)
  /\ WF_subscriptionVars(Callbacks) /\ WF_subscriptionVars(Providers)
  /\ \A s \in Source :
       /\ WF_subscriptionVars(Deadline(current, s))
       /\ WF_subscriptionVars(Deadline(task.config, s))
       /\ \A id \in Id : WF_subscriptionVars(Expire(s, id))

----------------------------------------------------------------------------
\* Properties

\* Every variable holds values of its kind.
SubscriptionTypeOK ==
  /\ providers \in [Setting -> SUBSET Source]
  /\ record \in [Setting -> [Source -> Record]]
  /\ {current, set} \subseteq Setting
  /\ valid \in [Setting -> SUBSET IdOrNull]
  /\ adminThread \in AdminThread
  /\ task \in Task
  /\ due \in BOOLEAN
  /\ sent \subseteq Subscribing \cup Unsubscribing
  /\ answers \subseteq Subscribing
  /\ live \in [Source -> SUBSET Id]
  /\ mishaps \in 0..MaxMishaps

\* Notifications of s arrive and are accepted.
Heard(s) == live[s] \cap valid[set] # {}

\* Whatever was replaced while requests were under way, refused too early or
\* lost, every provider of the last configuration is heard again and again.
EventuallyHeard == \A s \in Source : []<>(s \in providers[current] => Heard(s))

\* A provider that the last configuration does not name is in the end no
\* longer listened to, even if the task was at it while the configuration
\* was replaced.
EventuallySilent == \A s \in Source : <>[](s \notin providers[current] => ~Heard(s))

\* Nothing is under way.
Quiet == adminThread.at = "idle" /\ task.at = "idle" /\ ~due /\ sent = {} /\ answers = {}

\* The date of a provider's subscription tells that the subscription is valid
\* ("Date of last successful subscription. Used by the SubscriptionManager to
\* track valid subscriptions", Provider.java 27-28): its notifications are
\* accepted.
TrackedAreValid ==
  Quiet => \A s \in providers[current] :
             record[current][s].date = "fresh" => record[current][s].id \in valid[set]
=============================================================================
