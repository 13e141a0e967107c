----------------------------- MODULE NgsiService -----------------------------
(***************************************************************************)
(* The calls an IoT agent makes to the context broker                      *)
(* (ngsi/ngsiService.js): an update or a query looks up the device group,  *)
(* finds the type information it works with, gets a token when the broker  *)
(* is protected, runs the middlewares, sends one HTTP request and hands    *)
(* its answer to the caller.  The result of a command (setCommandResult)   *)
(* is such an update.                                                      *)
(*                                                                         *)
(* A call is <<kind, request, device, command>>: the PENDING status        *)
(* written while the command request is handled, or the RESULT a device    *)
(* reports for it.  At the broker, status[d][x] is the call that wrote the *)
(* attribute `x_status` of d's entity last.                                *)
(*                                                                         *)
(* Every step below is one turn of the event loop; what the answer does to *)
(* the caller is conjoined by the module that makes the call.  The group   *)
(* lookup is asynchronous, as with the MongoDB registry; with the memory   *)
(* registry it answers within the turn that asked, one of the schedules    *)
(* here.                                                                   *)
(***************************************************************************)
EXTENDS Naturals

CONSTANTS
    Requests,       \* the requests whose commands the calls are about
    Devices,        \* the registered devices
    Commands,       \* the names of commands
    DeviceCommands, \* the commands each device declares
    DeviceTrust,    \* whether a device carries a Keystone trust
    TypeCommands,   \* the commands of a device's group or configured type
    TypeTrust,      \* whether that group or type carries a trust
    Typed           \* the devices whose resource has a group or a type

ASSUME NgsiAssumption ==
    /\ DeviceCommands \in [Devices -> SUBSET Commands]
    /\ DeviceTrust \in [Devices -> BOOLEAN]
    /\ TypeCommands \in [Devices -> SUBSET Commands]
    /\ TypeTrust \in [Devices -> BOOLEAN]
    /\ Typed \subseteq Devices

VARIABLES
    authentication,   \* config.authentication.enabled
    updateMiddleware, \* whether an update middleware is installed
    calls,            \* what has become of each call, and the options given
    wire,             \* the requests on their way to the broker
    status,           \* the broker: the call that wrote each _status last
    measureRequests   \* the statistic of that name

ngsiVars == <<authentication, updateMiddleware, calls, wire, status, measureRequests>>

Nobody == <<"NONE">>

Call == {"PENDING", "RESULT"} \X Requests \X Devices \X Commands

Settled == {"ok", "failed", "lost"}

NgsiTypeOK ==
    /\ authentication \in BOOLEAN
    /\ updateMiddleware \in BOOLEAN
    /\ calls \in [Call -> [phase : {"idle", "lookup", "token", "sent", "accepted", "refused"}
                                     \union Settled,
                           given : BOOLEAN]]
    /\ wire \subseteq Call
    /\ status \in [Devices -> [Commands -> Call \union {Nobody}]]
    /\ measureRequests \in Nat

NgsiInit ==
    /\ authentication \in BOOLEAN
    /\ updateMiddleware \in BOOLEAN
    /\ calls = [c \in Call |-> [phase |-> "idle", given |-> TRUE]]
    /\ wire = {}
    /\ status = [d \in Devices |-> [x \in Commands |-> Nobody]]
    /\ measureRequests = 0

IsResult(c) == c[1] = "RESULT"
Phase(c) == calls[c].phase
SetPhase(c, p) == [calls EXCEPT ![c].phase = p]

(* typeInformation: the device handed over by the caller, or else the      *)
(* group of the resource and key, or else the configured type.             *)
KnowsType(c) == calls[c].given \/ c[3] \in Typed
HasTrust(c) == IF calls[c].given THEN DeviceTrust[c[3]] ELSE c[3] \in Typed /\ TypeTrust[c[3]]
KnownCommands(c) == IF calls[c].given THEN DeviceCommands[c[3]] ELSE TypeCommands[c[3]]

(* sendUpdateValue: counts the measure, runs the middlewares (one of which *)
(* may fail) and posts the update.                                         *)
SendUpdateValue(c) ==
    IF ~ KnowsType(c)
    THEN /\ calls' = SetPhase(c, "failed")       \* TypeNotFound
         /\ UNCHANGED <<wire, measureRequests>>
    ELSE /\ measureRequests' = measureRequests + 1
         /\ \/ /\ calls' = SetPhase(c, "sent")
               /\ wire' = wire \union {c}
            \/ /\ updateMiddleware
               /\ calls' = SetPhase(c, "failed")
               /\ UNCHANGED wire

(* A variant to be told apart: a token is asked for without a trust, and   *)
(* the call goes out whatever Keystone says.                               *)
ExecuteWithoutTrust(c) == SendUpdateValue(c)

(* executeWithDeviceInformation, once the group lookup has answered: with  *)
(* no type information the protected branch reads a field of undefined.    *)
ExecuteWithDeviceInformation(c) ==
    IF ~ authentication THEN SendUpdateValue(c)
    ELSE /\ calls' = SetPhase(c, IF HasTrust(c) THEN "token"
                                 ELSE IF KnowsType(c) THEN "failed" ELSE "lost")
         /\ UNCHANGED <<wire, measureRequests>>

(* setCommandResult looks the group up first and then makes the update,    *)
(* which looks it up again.  A result without type information throws, one *)
(* of a command that information does not list is refused.                 *)
SetCommandResult(c) ==
    IF KnowsType(c) /\ c[4] \in KnownCommands(c)
    THEN ExecuteWithDeviceInformation(c)
    ELSE /\ calls' = SetPhase(c, IF KnowsType(c) THEN "failed" ELSE "lost")
         /\ UNCHANGED <<wire, measureRequests>>

GroupFound(c) ==
    /\ Phase(c) = IF IsResult(c) THEN "lookup" ELSE "idle"
    /\ IF IsResult(c) THEN SetCommandResult(c) ELSE ExecuteWithDeviceInformation(c)
    /\ UNCHANGED <<authentication, updateMiddleware, status>>

(* security.getToken: Keystone answers with a token, refuses, or the       *)
(* connection breaks.                                                      *)
TokenAnswered(c) ==
    /\ Phase(c) = "token"
    /\ \/ SendUpdateValue(c)
       \/ /\ calls' = SetPhase(c, "failed")
          /\ UNCHANGED <<wire, measureRequests>>
    /\ UNCHANGED <<authentication, updateMiddleware, status>>

(* The broker takes a request off the wire and applies or refuses it; the  *)
(* caller may have lost the connection by then.                            *)
BrokerUpdates(c) ==
    /\ c \in wire
    /\ wire' = wire \ {c}
    /\ \/ /\ status' = [status EXCEPT ![c[3]][c[4]] = c]
          /\ calls' = IF Phase(c) = "sent" THEN SetPhase(c, "accepted") ELSE calls
       \/ /\ calls' = IF Phase(c) = "sent" THEN SetPhase(c, "refused") ELSE calls
          /\ UNCHANGED status
    /\ UNCHANGED <<authentication, updateMiddleware, measureRequests>>

(* generateNGSIOperationHandler: what the caller is told.  A connection    *)
(* that breaks is a failure whatever the broker has done or will do.       *)
OperationHandler(c) ==
    /\ \/ /\ Phase(c) \in {"accepted", "refused"}
          /\ calls' = SetPhase(c, IF Phase(c) = "accepted" THEN "ok" ELSE "failed")
       \/ /\ Phase(c) \in {"sent", "accepted", "refused"}
          /\ calls' = SetPhase(c, "failed")
    /\ UNCHANGED <<authentication, updateMiddleware, wire, status, measureRequests>>

(* The steps of a call on the agent's side.                                *)
CallStep(c) == GroupFound(c) \/ TokenAnswered(c) \/ OperationHandler(c)

(* The agent installs its middlewares before it makes calls                *)
(* (addUpdateMiddleware, in NgsiInit); clearAll takes them away.           *)
ResetMiddlewares ==
    /\ updateMiddleware
    /\ updateMiddleware' = FALSE
    /\ UNCHANGED <<authentication, calls, wire, status, measureRequests>>

(* Safety of the calls alone: with authentication enabled nothing reaches  *)
(* the broker for a device or type that has no trust, whatever happens     *)
(* between the lookup, the token and the request                           *)
(* (executeWithDeviceInformation).                                         *)
OnlyTrustedCalls ==
    authentication => \A c \in Call :
        (c \in wire \/ status[c[3]][c[4]] = c) => HasTrust(c)

==============================================================================
