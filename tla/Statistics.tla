------------------------------ MODULE Statistics ------------------------------
(***************************************************************************)
(* The statistics registry (stats/statsRegistry.js): two dictionaries, of  *)
(* the values since the last report (current) and of all values (global),  *)
(* and the actions a timer runs over them.                                 *)
(*                                                                         *)
(* globalLoad replaces both dictionaries by new objects, and a timer       *)
(* action is bound to the objects of the moment it was added: a pair of    *)
(* objects is named here by the load that made it.  One statistic stands   *)
(* for all; they never meet.                                               *)
(***************************************************************************)
EXTENDS Naturals, SequencesExt

VARIABLES
    stats,        \* the pairs of objects made by the loads; the last is in use
    timerActions, \* the actions of a tick, each with the pair it is bound to
    timerHandler, \* whether the timer runs
    reported      \* the sum of the current values logged since the last load

statsVars == <<stats, timerActions, timerHandler, reported>>

Action == [does : {"logStats", "persist"}, on : Nat]

StatsTypeOK ==
    /\ Len(stats) > 0
    /\ \A g \in DOMAIN stats : stats[g] \in [current : Nat, global : Nat]
    /\ \A k \in DOMAIN timerActions :
         timerActions[k] \in Action /\ timerActions[k].on \in DOMAIN stats
    /\ timerHandler \in BOOLEAN
    /\ reported \in Nat

Zero == [current |-> 0, global |-> 0]

StatsInit ==
    /\ stats = <<Zero>>
    /\ timerActions = <<>>
    /\ timerHandler = FALSE
    /\ reported = 0

InUse == Len(stats)

Add ==
    /\ stats' = [stats EXCEPT ![InUse].current = @ + 1, ![InUse].global = @ + 1]
    /\ UNCHANGED <<timerActions, timerHandler, reported>>

(* globalLoad with zeroes, as the activation makes it.                     *)
Loaded == Append(stats, Zero)

(* A variant to be told apart: the action is bound before the load.        *)
BoundEarly(actions, does) == Append(actions, [does |-> does, on |-> InUse])

(* addTimerAction, run after a load in the same turn.                      *)
WithAction(actions, does) == Append(actions, [does |-> does, on |-> Len(stats')])

(* clearTimers.                                                            *)
ClearTimers ==
    /\ timerHandler' = FALSE
    /\ timerActions' = <<>>

(* One action of a tick.  logStats reports the pair it is bound to and     *)
(* resets the current values in use (resetCurrent); mongodbPersistence     *)
(* stores the global values and changes nothing here.                      *)
Perform(state, action) ==
    IF action.does = "persist" THEN state
    ELSE [stats |-> [state.stats EXCEPT ![InUse].current = 0],
          reported |-> state.reported + state.stats[action.on].current]

(* tickHandler runs the actions in order, within one turn.                 *)
Performed(actions) ==
    FoldLeft(Perform, [stats |-> stats, reported |-> reported], actions)

Tick(actions) ==
    /\ timerHandler
    /\ stats' = Performed(actions).stats
    /\ reported' = Performed(actions).reported
    /\ UNCHANGED <<timerActions, timerHandler>>

(* "one of the dictionaries holds the historical global value and the      *)
(* other one stores the value since the last value reporting"              *)
(* (README.md:85 of the library): whatever was counted since the last load *)
(* has been reported once, or is in the current values.                    *)
EverythingReportedOnce ==
    stats[InUse].global = reported + stats[InUse].current

(* The reports keep their promise: adding a value counts it, a tick that   *)
(* gets as far as logStats reports what was counted since the last one,    *)
(* and nothing else touches these values until the next load.              *)
Reports == INSTANCE StatisticsReports WITH
    counted <- stats[InUse].global, pending <- stats[InUse].current, told <- reported

ImplementsReports == Reports!Spec
==============================================================================
