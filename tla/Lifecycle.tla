------------------------------ MODULE Lifecycle ------------------------------
(***************************************************************************)
(* How an IoT agent starts and stops the library: activate and deactivate  *)
(* of fiware-iotagent-lib.js, the northbound server                        *)
(* (northBound/northboundServer.js), the choice of the registries          *)
(* (commonConfig.js, dbConn.js), the handler of uncaught exceptions and    *)
(* the statistics timer.                                                   *)
(*                                                                         *)
(* An activation runs in one turn up to the listen call, then up to the    *)
(* registration with the IoT Manager, then to its callback.  The agent     *)
(* makes one call at a time; after an activation that failed it may        *)
(* deactivate the library or try again.                                    *)
(***************************************************************************)
EXTENDS Statistics

CONSTANTS
    Configs,        \* the configurations an agent may be started with
    ClearsTimers,   \* whether the agent calls clearTimers when it deactivates
    MaxActivations, \* bound: calls of activate
    MaxAdds,        \* bound: values counted
    MaxTicks        \* bound: ticks of the timer

Config == [valid : BOOLEAN, db : {"memory", "mongodb", "nohost"}, stats : BOOLEAN,
           manager : {"none", "incomplete", "complete"}, die : BOOLEAN]

ASSUME LifecycleAssumption ==
    /\ Configs \subseteq Config
    /\ ClearsTimers \in BOOLEAN
    /\ MaxActivations \in Nat /\ MaxAdds \in Nat /\ MaxTicks \in Nat

VARIABLES
    config,            \* the configuration
    stage,             \* the agent's last call, and how far it is
    registry,          \* config.getRegistry and getGroupRegistry: which, if any
    db,                \* whether dbConn has a connection
    northboundServer,  \* the server the module knows: 0 or an activation
    listening,         \* the servers that listen; each has the number of its activation
    errorHandlers,     \* how often globalErrorHandler is installed
    activations,       \* the calls of activate so far
    ticks,             \* the ticks so far
    alive              \* the process

lifecycleVars == <<statsVars, config, stage, registry, db, northboundServer, listening,
                   errorHandlers, activations, ticks, alive>>

Stages == {"none", "binding", "registering", "active", "failed", "stuck",
           "closing", "inactive", "notClosed"}

LifecycleTypeOK ==
    /\ StatsTypeOK
    /\ config \in Configs
    /\ stage \in Stages
    /\ registry \in {"none", "memory", "mongodb"}
    /\ {db, alive} \subseteq BOOLEAN
    /\ activations \in 0 .. MaxActivations
    /\ northboundServer \in 0 .. activations
    /\ listening \subseteq 1 .. activations
    /\ errorHandlers \in 0 .. activations
    /\ ticks \in 0 .. MaxTicks

LifecycleInit ==
    /\ StatsInit
    /\ config \in Configs
    /\ stage = "none"
    /\ registry = "none"
    /\ db = FALSE
    /\ northboundServer = 0
    /\ listening = {}
    /\ errorHandlers = 0
    /\ activations = 0
    /\ ticks = 0
    /\ alive = TRUE

(* An exception nobody catches.                                            *)
Throw == alive' = (errorHandlers > 0)

---------------------------------------------------------------------------
(* A variant to be told apart: the handler is installed with a database.   *)
HandlersWithDb == IF config.die \/ ~ db' THEN errorHandlers ELSE errorHandlers + 1

(* process.on, and doActivate's choice of the registries.                  *)
HandlersInstalled == IF config.die THEN errorHandlers ELSE errorHandlers + 1
RegistryChosen == IF config.db = "memory" THEN "memory" ELSE "mongodb"

(* configureDb: a connection for the MongoDB registry, which has to name a *)
(* host; without one it is an error.                                       *)
ConfigureDb == db' = (config.db = "mongodb")
DbConfigured == config.db # "nohost"

(* activate up to http.Server.listen: checkConfig, doActivate, configureDb *)
(* and northboundServer.start.                                             *)
Activate ==
    /\ stage \in {"none", "failed", "inactive", "notClosed"}
    /\ activations < MaxActivations
    /\ activations' = activations + 1
    /\ IF config.valid
       THEN /\ ConfigureDb
            /\ errorHandlers' = HandlersInstalled
            /\ registry' = RegistryChosen
       ELSE UNCHANGED <<errorHandlers, registry, db>>
    /\ IF config.valid /\ DbConfigured
       THEN stage' = "binding" /\ northboundServer' = activations'
       ELSE stage' = "failed" /\ UNCHANGED northboundServer
    /\ UNCHANGED <<statsVars, config, listening, ticks, alive>>

(* activateStatLogs.                                                       *)
ActivateStatLogs ==
    IF config.stats
    THEN /\ stats' = Loaded
         /\ reported' = 0
         /\ timerActions' = WithAction(timerActions, "logStats")
         /\ timerHandler' = TRUE
    ELSE UNCHANGED statsVars

(* The server listens, no other has the port: the statistics, and the      *)
(* registration with the IoT Manager, which may be missing or lack a       *)
(* parameter.                                                              *)
Listening ==
    /\ stage = "binding" /\ listening = {}
    /\ listening' = {northboundServer}
    /\ ActivateStatLogs
    /\ stage' = CASE config.manager = "none" -> "active"
                  [] config.manager = "incomplete" -> "failed"
                  [] config.manager = "complete" -> "registering"
    /\ UNCHANGED <<config, registry, db, northboundServer, errorHandlers, activations, ticks, alive>>

(* The port is taken, by a server of an earlier activation or by another   *)
(* process, or the process may not have it: the server's error event has   *)
(* no listener, and activate never calls back.                             *)
ListenFails ==
    /\ stage = "binding"
    /\ stage' = "stuck"
    /\ Throw
    /\ UNCHANGED <<statsVars, config, registry, db, northboundServer, listening,
                   errorHandlers, activations, ticks>>

(* A variant to be told apart: an error of the manager is kept back.       *)
RegistrationMayHang ==
    /\ stage = "registering"
    /\ stage' \in {"active", "stuck"}
    /\ UNCHANGED <<statsVars, config, registry, db, northboundServer, listening,
                   errorHandlers, activations, ticks, alive>>

(* iotManager.register: any answer will do; a broken connection is an      *)
(* error, which leaves everything else as it is.                           *)
HandleRegistration ==
    /\ stage = "registering"
    /\ stage' \in {"active", "failed"}
    /\ UNCHANGED <<statsVars, config, registry, db, northboundServer, listening,
                   errorHandlers, activations, ticks, alive>>

---------------------------------------------------------------------------
(* northboundServer.stop: closing a server that does not listen is an      *)
(* error.                                                                  *)
StopServer ==
    /\ stage' = IF northboundServer = 0 THEN "inactive"
                ELSE IF northboundServer \in listening THEN "closing" ELSE "notClosed"
    /\ listening' = listening \ {northboundServer}

(* A variant to be told apart: the handler is removed, there or not.       *)
OneHandlerLess == errorHandlers - 1

(* process.removeListener.                                                 *)
HandlersLeft == IF errorHandlers > 0 THEN errorHandlers - 1 ELSE 0

(* deactivate: removes the handler once and stops the server; the timer is *)
(* left to the agent.                                                      *)
Deactivate ==
    /\ stage \in {"none", "active", "failed", "stuck", "inactive", "notClosed"}
    /\ errorHandlers' = HandlersLeft
    /\ StopServer
    /\ IF ClearsTimers THEN ClearTimers ELSE UNCHANGED <<timerActions, timerHandler>>
    /\ UNCHANGED <<stats, reported, config, registry, db, northboundServer,
                   activations, ticks, alive>>

(* The last connection has ended.                                          *)
Closed ==
    /\ stage = "closing"
    /\ stage' = "inactive"
    /\ UNCHANGED <<statsVars, config, registry, db, northboundServer, listening,
                   errorHandlers, activations, ticks, alive>>

---------------------------------------------------------------------------
Serving == listening # {} \/ stage = "closing"

(* A request counts a value, or throws out of its handler.                 *)
HandleRequest ==
    /\ Serving
    /\ \/ stats[InUse].global < MaxAdds /\ Add /\ UNCHANGED alive
       \/ Throw /\ UNCHANGED statsVars
    /\ UNCHANGED <<config, stage, registry, db, northboundServer, listening, errorHandlers,
                   activations, ticks>>

(* The agent has its statistics persisted too.                             *)
AddPersistence ==
    /\ stage = "active" /\ config.stats
    /\ \A k \in DOMAIN timerActions : timerActions[k].does # "persist"
    /\ timerActions' = Append(timerActions, [does |-> "persist", on |-> InUse])
    /\ UNCHANGED <<stats, timerHandler, reported, config, stage, registry, db, northboundServer,
                   listening, errorHandlers, activations, ticks, alive>>

(* A tick; without a database mongodbPersistence throws, and the actions   *)
(* after it do not run.                                                    *)
RunsUntil ==
    LET persists == {k \in DOMAIN timerActions : timerActions[k].does = "persist"}
    IN  IF db \/ persists = {} THEN Len(timerActions) ELSE Min(persists) - 1

TimerTicks ==
    /\ ticks < MaxTicks
    /\ ticks' = ticks + 1
    /\ Tick(SubSeq(timerActions, 1, RunsUntil))
    /\ IF RunsUntil < Len(timerActions) THEN Throw ELSE UNCHANGED alive
    /\ UNCHANGED <<config, stage, registry, db, northboundServer, listening, errorHandlers, activations>>

LifecycleNext ==
    /\ alive
    /\ \/ Activate \/ Listening \/ ListenFails \/ HandleRegistration
       \/ Deactivate \/ Closed
       \/ HandleRequest \/ AddPersistence \/ TimerTicks

(* The event loop, the answer of the IoT Manager, the end of connections.  *)
LifecycleFairness ==
    WF_lifecycleVars(alive /\ (Listening \/ ListenFails \/ HandleRegistration \/ Closed))

LifecycleSpec == LifecycleInit /\ [][LifecycleNext]_lifecycleVars /\ LifecycleFairness

---------------------------------------------------------------------------
(* While the library is started, an exception of a request, a listen call  *)
(* or a timer action ends the process only if it was configured to         *)
(* (dieOnUnexpectedError); during and after a deactivation it may.         *)
SurvivesWhileStarted ==
    ~ alive => config.die \/ stage \in {"closing", "inactive", "notClosed"}

(* An activation calls back, unless its server could not listen, for       *)
(* whatever reason, or the process dies: nothing but a listen error may    *)
(* swallow the callback, neither the database nor the IoT Manager.         *)
ActivationCallsBack ==
    stage \in {"binding", "registering"} ~>
        \/ stage \in {"active", "failed"}
        \/ stage = "stuck" /\ northboundServer \notin listening
        \/ ~ alive
==============================================================================
