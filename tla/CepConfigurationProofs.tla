------------------------ MODULE CepConfigurationProofs ------------------------
(***************************************************************************)
(* Proofs about CepConfiguration, for any configurations, refused at any   *)
(* step, and a process that may die between any two: its types, that a     *)
(* configuration is persisted only when it is in force in every part, that *)
(* one answered 201 is, that a refusal over a configuration in force       *)
(* restores the engine and that a restart brings a self contained          *)
(* configuration back.                                                     *)
(*                                                                         *)
(* The last part is about SubscriptionManager: its types.                  *)
(***************************************************************************)
EXTENDS CepConfiguration, SubscriptionManager, TLAPS

---------------------------------------------------------------------------
(* The inductive invariant.                                                *)

Applying == {"ins", "outs", "statements", "adopt", "mapper", "subscribe", "save", "write"}
Restoring == {"restore", "restoreMapper", "restoreSubscriptions"}

(* What a running admin method works with.                                 *)
AdminHolds ==
    /\ admin.at \in Applying => admin.op \in {"post", "start"} /\ admin.config \in Config
    /\ admin.at \in {"save", "write"} => admin.op = "post"
    /\ admin.at \in Restoring => admin.op = "post" /\ admin.previous \in Config
    /\ admin.at \in {"reset", "delete"} => admin.op = "delete"

TypeInv == TypeOK /\ AdminHolds

(* Esper never runs a statement over an event type it does not have, and   *)
(* no part uses jsonpaths that do not compile.                             *)
EngineConsistent == \A s \in statements : Uses[s] \subseteq NamesOf(types)
PathsCompile == mapper \notin BadPath /\ file \notin BadPath

(* What the steps of an operation have brought about so far.               *)
AppliedSoFar ==
    LET c == admin.config IN
    /\ admin.at = "adopt" => Runs(c)
    /\ admin.at = "mapper" /\ ~ Starting => Runs(c) /\ {configuration, sink} = {c}
    /\ admin.at = "subscribe" => Runs(c) /\ {configuration, sink, mapper} = {c}
    /\ admin.at \in {"save", "write"} =>
         Runs(c) /\ {configuration, sink, mapper, subscribed} = {c}

(* Between requests the engine runs what the processor calls its           *)
(* configuration, unless the mapper refused that one; so what a POST finds *)
(* running are the statements of the one it may have to restore.           *)
ProcessorRuns ==
    LET p == admin.previous IN
    /\ admin.at \in {"idle", "reset", "delete"} /\ configuration \in Config \ BadPath =>
         Runs(configuration)
    /\ admin.op = "post" =>
         /\ p \in Config \ BadPath => admin.found = Range(Statements[p])
         /\ admin.at \in {"ins", "outs", "statements", "adopt"} => configuration = p
         /\ admin.at = "restore" => configuration \in {p} \cup BadPath
         /\ admin.at \in {"restoreMapper", "restoreSubscriptions"} =>
              configuration \in {p, None} \cup BadPath

RestoredSoFar ==
    admin.at \in {"restoreMapper", "restoreSubscriptions"} =>
        Runs(admin.previous) \/ configuration = None

(* A startup begins with nothing and leaves the file alone.                *)
LoadedSoFar ==
    LET c == admin.config IN
    Starting =>
        /\ admin.at \in Applying => file = c
        /\ admin.at \in {"ins", "outs", "statements", "adopt"} => mapper = c
        /\ admin.at \in {"mapper", "ins", "outs", "statements"} =>
             statements = {} /\ configuration = None
        /\ admin.at \in {"mapper", "ins"} => types = {}
        /\ admin.at = "outs" /\ SelfContained(c) => types = Ins[c]
        /\ admin.at = "statements" /\ SelfContained(c) => types = Ins[c] \cup Outs[c]

ConfigInv ==
    /\ EngineConsistent /\ PathsCompile
    /\ ProcessorRuns /\ AppliedSoFar /\ RestoredSoFar /\ LoadedSoFar
    /\ CreatedIsInForce /\ RejectedRestoresEngine /\ RestartReloads

---------------------------------------------------------------------------
(* What the steps of an operation do to it.                                *)

USE ConstantsAssumption

Admin == [op : Operation, config : ConfigOrNone, previous : ConfigOrNone,
          found : SUBSET Statement, at : Stage]
Results == {"none", "created", "rejected", "failed", "deleted"}

SameOperation ==
    /\ admin' \in Admin
    /\ admin'.op = admin.op /\ admin'.config = admin.config /\ admin'.previous = admin.previous
    /\ admin'.found = admin.found

LEMMA GotoEffect ==
  ASSUME TypeInv, NEW stage \in Stage, Goto(stage)
  PROVE  SameOperation /\ admin'.at = stage
  BY DEF TypeInv, TypeOK, Goto, SameOperation, Admin

LEMMA AnswerEffect ==
  ASSUME TypeInv, NEW result, Answer(result)
  PROVE  SameOperation /\ admin'.at = "idle" /\ answer' = result
  BY GotoEffect DEF Answer, Stage

LEMMA ThrowEffect ==
  ASSUME TypeInv, admin.at \in Applying, Throw
  PROVE  /\ SameOperation
         /\ \/ ~ Starting /\ admin'.at = "restore" /\ admin.previous \in Config /\ answer' = answer
            \/ Starting /\ admin'.at = "idle" /\ answer' = "none"
            \/ ~ Starting /\ admin'.at = "idle" /\ admin.previous = None /\ answer' = "rejected"
<1>1. admin.previous # None => admin.previous \in Config
  BY DEF TypeInv, TypeOK, ConfigOrNone
<1>2. CASE ~ Starting /\ admin.previous # None
  BY <1>1, <1>2, GotoEffect DEF Throw, Stage
<1>3. CASE Starting
  BY <1>3, AnswerEffect DEF Throw
<1>4. CASE ~ Starting /\ admin.previous = None
  BY <1>4, AnswerEffect DEF Throw
<1>. QED
  BY <1>2, <1>3, <1>4

(* A refused step of the types leaves no statement without its types.      *)
LEMMA UpdateTypesEffect ==
  ASSUME TypeInv, EngineConsistent, NEW old, NEW new \in SUBSET EventType, NEW next,
         UpdateEventTypes(old, new, next)
  PROVE  /\ EngineConsistent'
         /\ types' \subseteq EventType
         /\ statements' \subseteq statements
<1> DEFINE gone == NamesOf(old \ new)
           left == {e \in types : NameOf[e] \notin gone}
<1>1. PICK S \in SUBSET new : types' = left \cup S
  BY DEF UpdateEventTypes
<1>2. statements' = {s \in statements : Uses[s] \cap gone = {}}
  BY DEF UpdateEventTypes, StatementsWithout
<1>3. left \subseteq types' /\ types' \subseteq EventType
  BY <1>1 DEF TypeInv, TypeOK
<1> HIDE DEF gone
<1>4. ASSUME NEW s \in statements', NEW n \in Uses[s] PROVE n \in NamesOf(types')
  <2>1. s \in statements /\ n \notin gone
    BY <1>2, <1>4
  <2>2. PICK e \in types : n = NameOf[e]
    BY <2>1, <1>4 DEF EngineConsistent, NamesOf
  <2>3. e \in types'
    BY <2>1, <2>2, <1>3
  <2>. QED
    BY <2>2, <2>3 DEF NamesOf
<1>. QED
  BY <1>2, <1>3, <1>4 DEF EngineConsistent

(* The statements of a document, and those that run when its compilation   *)
(* has come to the i-th: each compiled, so each has its event types.       *)
LEMMA StatementsOf ==
  ASSUME NEW c \in Config
  PROVE  /\ DOMAIN Statements[c] = 1..Len(Statements[c]) /\ Len(Statements[c]) \in Nat
         /\ Range(Statements[c]) \subseteq Statement
<1>1. Statements[c] \in Seq(Statement)
  OBVIOUS
<1>. QED
  BY <1>1 DEF Range

LEMMA RunningBeforeRange ==
  ASSUME NEW c \in Config, NEW i \in DOMAIN Statements[c], NEW kept
  PROVE  RunningBefore(Statements[c], i, kept) \subseteq kept \cup Range(Statements[c])
  BY StatementsOf DEF RunningBefore, Range

LEMMA FirstRefusedEffect ==
  ASSUME NEW c \in Config, NEW kept, NEW known, NEW i \in DOMAIN Statements[c],
         \A s \in kept : Uses[s] \subseteq NamesOf(known),
         FirstRefused(Statements[c], i, kept, known)
  PROVE  /\ \A s \in RunningBefore(Statements[c], i, kept) : Uses[s] \subseteq NamesOf(known)
         /\ ~ AllCompile(Statements[c], kept, known)
<1>. USE DEF RunningBefore, FirstRefused, AllCompile, Compiles
<1>1. ASSUME NEW j \in 1..(i - 1) PROVE Uses[Statements[c][j]] \subseteq NamesOf(known)
  BY <1>1
<1>. QED
  BY <1>1

LEMMA AllCompileEffect ==
  ASSUME NEW c \in Config, NEW kept, NEW known,
         \A s \in kept : Uses[s] \subseteq NamesOf(known),
         AllCompile(Statements[c], kept, known)
  PROVE  \A s \in Range(Statements[c]) : Uses[s] \subseteq NamesOf(known)
  BY DEF AllCompile, Compiles, Range

---------------------------------------------------------------------------
(* Type correctness.                                                       *)

LEMMA TypeInit == Init => TypeInv
  BY DEF Init, TypeInv, TypeOK, AdminHolds, ConfigOrNone, Operation, Stage, Applying, Restoring

LEMMA ThrowTypes ==
  ASSUME TypeInv, admin.at \in Applying, Throw
  PROVE  admin' \in Admin /\ AdminHolds' /\ answer' \in Results
<1>1. admin.op \in {"post", "start"}
  BY DEF TypeInv, AdminHolds
<1>. QED
  BY <1>1, ThrowEffect
  DEF TypeInv, TypeOK, AdminHolds, SameOperation, Results, Starting, Applying, Restoring

(* One step after another of the same operation.                           *)
LEMMA MoveTypes ==
  ASSUME TypeInv, NEW stage \in Stage, admin'.at = stage, SameOperation,
         \/ stage = "idle"
         \/ admin.at \in Applying /\ stage \in Applying
              /\ (stage \in {"save", "write"} => admin.op = "post")
         \/ admin.at \in Restoring /\ stage \in Restoring
         \/ admin.at = "reset" /\ stage = "delete"
  PROVE  admin' \in Admin /\ AdminHolds'
  BY DEF TypeInv, AdminHolds, SameOperation, Applying, Restoring

LEMMA TypeStep == TypeInv /\ [Next]_vars => TypeInv'
<1> SUFFICES ASSUME TypeInv, [Next]_vars PROVE TypeInv'
  OBVIOUS
<1> USE DEF engine
<1>0. /\ types \subseteq EventType /\ statements \subseteq Statement
      /\ {configuration, sink, mapper, subscribed} \subseteq ConfigOrNone
      /\ file \in ConfigOrNone \cup {Partial} /\ answer \in Results
  BY DEF TypeInv, TypeOK, Results
<1>a. ASSUME admin' \in Admin, AdminHolds', answer' \in Results,
             types' \subseteq EventType, statements' \subseteq Statement,
             {configuration', sink', mapper', subscribed'} \subseteq ConfigOrNone,
             file' \in ConfigOrNone \cup {Partial}
      PROVE  TypeInv'
  BY <1>a DEF TypeInv, TypeOK, Admin, Results
<1>b. ASSUME admin.at \in Applying
      PROVE  admin.config \in Config /\ admin.op \in {"post", "start"}
  BY <1>b DEF TypeInv, AdminHolds
<1>1. ASSUME NEW c \in Config, PostConfiguration(c) PROVE TypeInv'
  <2>1. admin' \in Admin /\ AdminHolds'
    BY <1>0, <1>1 DEF PostConfiguration, Admin, AdminHolds, ConfigOrNone, Operation, Stage,
                      Applying, Restoring
  <2>. QED
    BY <2>1, <1>0, <1>1, <1>a DEF PostConfiguration
<1>2. ASSUME ApplyIns \/ ApplyOuts PROVE TypeInv'
  <2>1. PICK old, new \in SUBSET EventType, next \in {"outs", "statements"} :
          UpdateEventTypes(old, new, next)
    <3>1. /\ Of(Ins, configuration) \in SUBSET EventType
          /\ Of(Outs, configuration) \in SUBSET EventType
      BY <1>0 DEF Of, ConfigOrNone
    <3>2. Ins[admin.config] \in SUBSET EventType /\ Outs[admin.config] \in SUBSET EventType
      BY <1>2, <1>b DEF ApplyIns, ApplyOuts, At, Applying
    <3>. QED
      BY <1>2, <3>1, <3>2 DEF ApplyIns, ApplyOuts
  <2>2. admin.at \in Applying
    BY <1>2 DEF ApplyIns, ApplyOuts, At, Applying
  <2>3. types' \subseteq EventType /\ statements' \subseteq Statement
    <3>1. /\ statements' \subseteq statements
          /\ \E S \in SUBSET new : types' \subseteq types \cup S
      BY <2>1 DEF UpdateEventTypes, StatementsWithout
    <3>. QED
      BY <3>1, <1>0
  <2>4. admin' \in Admin /\ AdminHolds' /\ answer' \in Results
    <3>1. CASE Throw
      BY <2>2, <3>1, ThrowTypes
    <3>2. CASE Goto(next) /\ UNCHANGED answer
      BY <2>2, <3>2, <1>0, GotoEffect, MoveTypes DEF Stage, Applying
    <3>. QED
      BY <2>1, <3>1, <3>2 DEF UpdateEventTypes
  <2>. QED
    BY <2>3, <2>4, <1>0, <1>2, <1>a DEF ApplyIns, ApplyOuts
<1>3. ASSUME ApplyStatements PROVE TypeInv'
  <2>1. admin.at \in Applying
    BY <1>3 DEF ApplyStatements, At, Applying
  <2>2. statements' \subseteq Statement
    <3> DEFINE list == Statements[admin.config]
               kept == Kept(statements, Range(list))
    <3>1. admin.config \in Config /\ kept \subseteq Statement
      BY <2>1, <1>0, <1>b DEF Kept
    <3>2. \/ statements' = Range(list)
          \/ \E i \in DOMAIN list : statements' = RunningBefore(list, i, kept)
      BY <1>3 DEF ApplyStatements
    <3>3. statements' \subseteq kept \cup Range(list)
      <4> HIDE DEF kept
      <4>. QED
        BY <3>1, <3>2, RunningBeforeRange
    <3>. QED
      BY <3>1, <3>3, StatementsOf
  <2>3. admin' \in Admin /\ AdminHolds' /\ answer' \in Results
    <3>1. CASE Throw
      BY <2>1, <3>1, ThrowTypes
    <3>2. CASE Goto("adopt") /\ UNCHANGED answer
      BY <2>1, <3>2, <1>0, GotoEffect, MoveTypes DEF Stage, Applying
    <3>. QED
      BY <1>3, <3>1, <3>2 DEF ApplyStatements
  <2>. QED
    BY <2>2, <2>3, <1>0, <1>3, <1>a DEF ApplyStatements
<1>4. ASSUME AdoptConfiguration PROVE TypeInv'
  <2>1. admin.at \in Applying /\ Goto(AfterAdopt)
    BY <1>4 DEF AdoptConfiguration, At, Applying
  <2>2. admin' \in Admin /\ AdminHolds'
    BY <2>1, GotoEffect, MoveTypes DEF AfterAdopt, Stage, Applying
  <2>. QED
    BY <2>1, <2>2, <1>0, <1>4, <1>a, <1>b DEF AdoptConfiguration, Adopt, ConfigOrNone
<1>5. ASSUME SetMapper PROVE TypeInv'
  <2>1. admin.at \in Applying
    BY <1>5 DEF SetMapper, At, Applying
  <2>2. admin' \in Admin /\ AdminHolds' /\ answer' \in Results
    <3>1. CASE Throw
      BY <2>1, <3>1, ThrowTypes
    <3>2. CASE (Goto("ins") \/ Goto("subscribe")) /\ UNCHANGED answer
      BY <2>1, <3>2, <1>0, GotoEffect, MoveTypes DEF Stage, Applying
    <3>. QED
      BY <1>5, <3>1, <3>2 DEF SetMapper
  <2>. QED
    BY <2>1, <2>2, <1>0, <1>5, <1>a, <1>b DEF SetMapper, ConfigOrNone
<1>6. ASSUME SetSubscriptions PROVE TypeInv'
  <2>1. admin.at \in Applying
    BY <1>6 DEF SetSubscriptions, At, Applying
  <2>2. admin' \in Admin /\ AdminHolds' /\ answer' \in Results
    <3>1. CASE Answer("none")
      BY <3>1, AnswerEffect, MoveTypes DEF Stage, Results
    <3>2. CASE ~ Starting /\ Goto("save") /\ UNCHANGED answer
      BY <2>1, <3>2, <1>0, <1>b, GotoEffect, MoveTypes DEF Stage, Applying, Starting
    <3>. QED
      BY <1>6, <3>1, <3>2 DEF SetSubscriptions
  <2>. QED
    BY <2>1, <2>2, <1>0, <1>6, <1>a, <1>b DEF SetSubscriptions, ConfigOrNone
<1>7. ASSUME OpenFile \/ WriteFile PROVE TypeInv'
  <2>1. admin.at \in {"save", "write"} /\ admin.op = "post" /\ admin.config \in Config
    BY <1>7 DEF OpenFile, WriteFile, At, Applying, TypeInv, AdminHolds
  <2>2. admin' \in Admin /\ AdminHolds' /\ answer' \in Results
    <3>1. ASSUME NEW result \in Results, Answer(result)
          PROVE  admin' \in Admin /\ AdminHolds' /\ answer' \in Results
      BY <3>1, AnswerEffect, MoveTypes DEF Stage
    <3>2. CASE Goto("write") /\ UNCHANGED answer
      BY <2>1, <3>2, <1>0, GotoEffect, MoveTypes DEF Stage, Applying
    <3>. QED
      BY <1>7, <3>1, <3>2 DEF OpenFile, WriteFile, Results
  <2>3. file' \in ConfigOrNone \cup {Partial}
    BY <2>1, <1>0, <1>7 DEF OpenFile, WriteFile, ConfigOrNone
  <2>. QED
    BY <2>2, <2>3, <1>0, <1>7, <1>a DEF OpenFile, WriteFile
<1>8. ASSUME RestoreEngine PROVE TypeInv'
  <2>1. admin.at \in Restoring /\ admin.previous \in Config
    BY <1>8 DEF RestoreEngine, At, Restoring, TypeInv, AdminHolds
  <2>2. types' \subseteq EventType /\ statements' \subseteq Statement
    <3> DEFINE list == Statements[admin.previous]
    <3>1. /\ types' \subseteq Ins[admin.previous] \cup Outs[admin.previous]
          /\ \/ statements' \in {{}, Range(list)}
             \/ \E i \in DOMAIN list : statements' = RunningBefore(list, i, {})
      BY <1>8 DEF RestoreEngine
    <3>2. statements' \subseteq Range(list)
      BY <2>1, <3>1, RunningBeforeRange
    <3>. QED
      BY <3>1, <3>2, <2>1, StatementsOf
  <2>3. admin' \in Admin /\ AdminHolds'
    BY <2>1, <1>8, GotoEffect, MoveTypes DEF RestoreEngine, Stage, Restoring
  <2>4. configuration' \in ConfigOrNone
    BY <1>8, <1>0 DEF RestoreEngine, ConfigOrNone
  <2>. QED
    BY <2>2, <2>3, <2>4, <1>0, <1>8, <1>a DEF RestoreEngine
<1>9. ASSUME RestoreMapper \/ RestoreSubscriptions PROVE TypeInv'
  <2>1. admin.at \in Restoring /\ admin.previous \in Config
    BY <1>9 DEF RestoreMapper, RestoreSubscriptions, At, Restoring, TypeInv, AdminHolds
  <2>2. admin' \in Admin /\ AdminHolds' /\ answer' \in Results
    <3>1. CASE Answer("rejected")
      BY <3>1, AnswerEffect, MoveTypes DEF Stage, Results
    <3>2. CASE Goto("restoreSubscriptions") /\ UNCHANGED answer
      BY <2>1, <3>2, <1>0, GotoEffect, MoveTypes DEF Stage, Restoring
    <3>. QED
      BY <1>9, <3>1, <3>2 DEF RestoreMapper, RestoreSubscriptions
  <2>. QED
    BY <2>1, <2>2, <1>0, <1>9, <1>a DEF RestoreMapper, RestoreSubscriptions, ConfigOrNone
<1>10. ASSUME DeleteRequest PROVE TypeInv'
  <2>1. admin' \in Admin /\ AdminHolds'
    BY <1>10 DEF DeleteRequest, Admin, AdminHolds, ConfigOrNone, Operation, Stage,
                 Applying, Restoring
  <2>. QED
    BY <2>1, <1>0, <1>10, <1>a DEF DeleteRequest
<1>11. ASSUME ResetEngine PROVE TypeInv'
  <2>1. admin' \in Admin /\ AdminHolds'
    BY <1>11, GotoEffect, MoveTypes DEF ResetEngine, At, Stage
  <2>. QED
    BY <2>1, <1>0, <1>11, <1>a DEF ResetEngine, ConfigOrNone
<1>12. ASSUME DeleteFile PROVE TypeInv'
  <2>1. admin' \in Admin /\ AdminHolds' /\ answer' \in Results
    BY <1>12, AnswerEffect, MoveTypes DEF DeleteFile, Stage, Results
  <2>. QED
    BY <2>1, <1>0, <1>12, <1>a DEF DeleteFile, ConfigOrNone
<1>13. ASSUME Restart PROVE TypeInv'
  <2>1. admin' \in Admin /\ AdminHolds' /\ answer' \in Results
    BY <1>13 DEF Restart, Admin, AdminHolds, ConfigOrNone, Operation, Stage, Applying,
                 Restoring, Results
  <2>. QED
    BY <2>1, <1>0, <1>13, <1>a DEF Restart, ConfigOrNone
<1>14. CASE UNCHANGED vars
  BY <1>14 DEF vars, TypeInv, TypeOK, AdminHolds
<1>. QED
  BY <1>1, <1>2, <1>3, <1>4, <1>5, <1>6, <1>7, <1>8, <1>9, <1>10, <1>11, <1>12, <1>13, <1>14
  DEF Next

(* Every variable holds values of its kind, and a running admin method has *)
(* the configuration it works on.                                          *)
THEOREM TypeCorrect == Spec => []TypeOK
<1>1. TypeInv /\ [Next]_vars => TypeInv'
  BY TypeStep
<1>. QED
  BY TypeInit, <1>1, PTL DEF Spec, TypeInv

---------------------------------------------------------------------------
(* What is in force.                                                       *)

LEMMA ConfigInit == Init => ConfigInv
  BY DEF Init, ConfigInv, EngineConsistent, PathsCompile, ProcessorRuns, AppliedSoFar,
         RestoredSoFar, LoadedSoFar, CreatedIsInForce, RejectedRestoresEngine, RestartReloads,
         At, Starting, Applying

(* A step that throws undoes nothing that is promised: a startup throws    *)
(* only over a configuration that is not self contained, a POST while the  *)
(* processor has the previous configuration, or one the mapper refuses.    *)
LEMMA ConfigThrows ==
  ASSUME TypeInv, ConfigInv, admin.at \in Applying, Throw,
         EngineConsistent', PathsCompile', UNCHANGED <<configuration, file>>,
         Starting => ~ SelfContained(admin.config) /\ configuration = None,
         ~ Starting => configuration \in {admin.previous} \cup BadPath
  PROVE  ConfigInv'
<1>1. /\ admin'.op = admin.op /\ admin'.config = admin.config /\ admin'.previous = admin.previous
      /\ admin'.found = admin.found
      /\ \/ ~ Starting /\ admin'.at = "restore" /\ admin.previous \in Config /\ answer' = answer
         \/ Starting /\ admin'.at = "idle" /\ answer' = "none"
         \/ ~ Starting /\ admin'.at = "idle" /\ admin.previous = None /\ answer' = "rejected"
  BY ThrowEffect DEF SameOperation
<1>2. Starting => file = admin.config
  BY DEF ConfigInv, LoadedSoFar
<1>3. AppliedSoFar' /\ RestoredSoFar' /\ LoadedSoFar' /\ CreatedIsInForce' /\ RejectedRestoresEngine'
  BY <1>1 DEF AppliedSoFar, RestoredSoFar, LoadedSoFar, CreatedIsInForce, RejectedRestoresEngine,
              At, Starting, Applying
<1>4. RestartReloads'
  BY <1>1, <1>2 DEF RestartReloads, At, Starting, SelfContained
<1>5. ProcessorRuns'
  BY <1>1 DEF ProcessorRuns, ConfigInv, Starting
<1>. QED
  BY <1>3, <1>4, <1>5 DEF ConfigInv

(* A step to another stage, where what is so far has to hold.              *)
LEMMA ConfigMoves ==
  ASSUME SameOperation, admin'.at # "idle", EngineConsistent', PathsCompile',
         ProcessorRuns', AppliedSoFar', RestoredSoFar', LoadedSoFar'
  PROVE  ConfigInv'
  BY DEF ConfigInv, CreatedIsInForce, RejectedRestoresEngine, RestartReloads, At

(* The processor's configuration is the previous one until a POST adopts   *)
(* its own.                                                                *)
LEMMA ProcessorMoves ==
  ASSUME ConfigInv, SameOperation,
         \/ /\ admin.at \in {"ins", "outs", "statements"}
            /\ admin'.at \in {"outs", "statements", "adopt"}
            /\ UNCHANGED configuration
         \/ admin'.at \in {"mapper", "subscribe", "save", "write"}
         \/ Starting /\ admin'.at = "ins"
  PROVE  ProcessorRuns'
  BY DEF ConfigInv, ProcessorRuns, SameOperation, Starting

LEMMA ApplyInsStep ==
  ASSUME TypeInv, ConfigInv, ApplyIns
  PROVE  ConfigInv'
<1> DEFINE c == admin.config
<1>1. c \in Config /\ admin.at = "ins"
  BY DEF ApplyIns, At, TypeInv, AdminHolds, Applying
<1>2. UpdateEventTypes(Of(Ins, configuration), Ins[c], "outs")
  BY DEF ApplyIns
<1>3. EngineConsistent' /\ statements' \subseteq statements
  BY <1>1, <1>2, UpdateTypesEffect DEF ConfigInv
<1>4. PathsCompile' /\ UNCHANGED <<configuration, sink, mapper, subscribed, file>>
  BY DEF ApplyIns, ConfigInv, PathsCompile
<1>5. Starting => types = {} /\ statements = {} /\ Of(Ins, configuration) = {} /\ mapper = c /\ file = c
                  /\ configuration = None
  BY <1>1 DEF ConfigInv, LoadedSoFar, Of, Applying
<1> DEFINE left == {e \in types : NameOf[e] \notin NamesOf(Of(Ins, configuration) \ Ins[c])}
           added == Ins[c] \ Of(Ins, configuration)
<1>6. Starting => left = {} /\ left \cup added = Ins[c]
  BY <1>5
<1>7. ~ Starting => configuration = admin.previous
  BY <1>1 DEF ConfigInv, ProcessorRuns, Starting, TypeInv, AdminHolds, Applying
<1>8. CASE Clash(left \cup added) /\ Throw
  <2>1. Starting => ~ SelfContained(c)
    BY <1>6, <1>8 DEF SelfContained, Clash
  <2>. QED
    BY <1>1, <1>3, <1>4, <1>5, <1>8, <1>7, <2>1, ConfigThrows DEF Applying
<1>9. CASE types' = left \cup added /\ Goto("outs") /\ UNCHANGED answer
  <2>1. SameOperation /\ admin'.at = "outs"
    BY <1>9, GotoEffect DEF Stage
  <2>2. AppliedSoFar' /\ RestoredSoFar'
    BY <2>1 DEF AppliedSoFar, RestoredSoFar
  <2>3. Starting => types' = Ins[c] /\ statements' = {}
    BY <1>3, <1>5, <1>6, <1>9
  <2> HIDE DEF left, added
  <2>4. LoadedSoFar'
    BY <2>1, <2>3, <1>4, <1>5 DEF LoadedSoFar, SameOperation, Starting
  <2>5. ProcessorRuns'
    BY <2>1, <1>1, <1>4, ProcessorMoves
  <2>. QED
    BY <2>1, <2>2, <2>4, <2>5, <1>3, <1>4, ConfigMoves
<1>. QED
  BY <1>2, <1>8, <1>9 DEF UpdateEventTypes

LEMMA ApplyOutsStep ==
  ASSUME TypeInv, ConfigInv, ApplyOuts
  PROVE  ConfigInv'
<1> DEFINE c == admin.config
<1>1. c \in Config /\ admin.at = "outs"
  BY DEF ApplyOuts, At, TypeInv, AdminHolds, Applying
<1>2. UpdateEventTypes(Of(Outs, configuration), Outs[c], "statements")
  BY DEF ApplyOuts
<1>3. EngineConsistent' /\ statements' \subseteq statements
  BY <1>1, <1>2, UpdateTypesEffect DEF ConfigInv
<1>4. PathsCompile' /\ UNCHANGED <<configuration, sink, mapper, subscribed, file>>
  BY DEF ApplyOuts, ConfigInv, PathsCompile
<1>5. Starting => /\ statements = {} /\ Of(Outs, configuration) = {} /\ mapper = c /\ file = c
                  /\ configuration = None /\ (SelfContained(c) => types = Ins[c])
  BY <1>1 DEF ConfigInv, LoadedSoFar, Of, Applying
<1> DEFINE left == {e \in types : NameOf[e] \notin NamesOf(Of(Outs, configuration) \ Outs[c])}
           added == Outs[c] \ Of(Outs, configuration)
<1>6. Starting /\ SelfContained(c) => left \cup added = Ins[c] \cup Outs[c]
  BY <1>5 DEF NamesOf
<1>7. ~ Starting => configuration = admin.previous
  BY <1>1 DEF ConfigInv, ProcessorRuns, Starting, TypeInv, AdminHolds, Applying
<1>8. CASE Clash(left \cup added) /\ Throw
  <2>1. Starting => ~ SelfContained(c)
    BY <1>6, <1>8 DEF SelfContained
  <2>. QED
    BY <1>1, <1>3, <1>4, <1>5, <1>8, <1>7, <2>1, ConfigThrows DEF Applying
<1>9. CASE types' = left \cup added /\ Goto("statements") /\ UNCHANGED answer
  <2>1. SameOperation /\ admin'.at = "statements"
    BY <1>9, GotoEffect DEF Stage
  <2>2. AppliedSoFar' /\ RestoredSoFar'
    BY <2>1 DEF AppliedSoFar, RestoredSoFar
  <2>3. Starting => statements' = {} /\ (SelfContained(c) => types' = Ins[c] \cup Outs[c])
    BY <1>3, <1>5, <1>6, <1>9
  <2> HIDE DEF left, added
  <2>4. LoadedSoFar'
    BY <2>1, <2>3, <1>4, <1>5
    DEF LoadedSoFar, SameOperation, Starting, SelfContained, Compiles
  <2>5. ProcessorRuns'
    BY <2>1, <1>1, <1>4, ProcessorMoves
  <2>. QED
    BY <2>1, <2>2, <2>4, <2>5, <1>3, <1>4, ConfigMoves
<1>. QED
  BY <1>2, <1>8, <1>9 DEF UpdateEventTypes

LEMMA ApplyStatementsStep ==
  ASSUME TypeInv, ConfigInv, ApplyStatements
  PROVE  ConfigInv'
<1> DEFINE c == admin.config
           list == Statements[c]
           kept == Kept(statements, Range(list))
<1>1. c \in Config /\ admin.at = "statements"
  BY DEF ApplyStatements, At, TypeInv, AdminHolds, Applying
<1>2. PathsCompile' /\ UNCHANGED <<types, configuration, sink, mapper, subscribed, file>>
  BY DEF ApplyStatements, ConfigInv, PathsCompile
<1>3. \A s \in kept : Uses[s] \subseteq NamesOf(types)
  BY DEF Kept, ConfigInv, EngineConsistent
<1>4. Starting => kept = {} /\ configuration = None /\ file = c /\ mapper = c
  BY <1>1 DEF Kept, ConfigInv, LoadedSoFar, Applying
<1>5. CASE /\ AllCompile(list, kept, types)
           /\ statements' = Range(list) /\ Goto("adopt") /\ UNCHANGED answer
  <2>1. SameOperation /\ admin'.at = "adopt"
    BY <1>5, GotoEffect DEF Stage
  <2>2. EngineConsistent'
    <3> HIDE DEF kept
    <3>1. \A s \in Range(list) : Uses[s] \subseteq NamesOf(types)
      BY <1>1, <1>3, <1>5, AllCompileEffect
    <3>. QED
      BY <1>2, <1>5, <3>1 DEF EngineConsistent
  <2>3. Runs(c)'
    BY <1>5, <2>1, <2>2 DEF Runs, EngineConsistent, SameOperation
  <2>4. AppliedSoFar' /\ RestoredSoFar'
    BY <2>1, <2>3 DEF AppliedSoFar, RestoredSoFar
  <2>5. LoadedSoFar'
    BY <2>1, <1>2, <1>4 DEF LoadedSoFar, SameOperation, Starting
  <2>6. ProcessorRuns'
    BY <2>1, <1>1, <1>2, ProcessorMoves
  <2>. QED
    BY <2>1, <2>2, <2>4, <2>5, <2>6, <1>2, ConfigMoves
<1>6. ASSUME NEW i \in DOMAIN list, FirstRefused(list, i, kept, types),
             statements' = RunningBefore(list, i, kept), Throw
      PROVE  ConfigInv'
  <2>1. /\ \A s \in statements' : Uses[s] \subseteq NamesOf(types)
        /\ ~ AllCompile(list, kept, types)
    <3> HIDE DEF kept
    <3>. QED
      BY <1>1, <1>3, <1>6, FirstRefusedEffect
  <2>2. EngineConsistent'
    BY <1>2, <2>1 DEF EngineConsistent
  <2>3. Starting => ~ SelfContained(c)
    <3> SUFFICES ASSUME Starting, SelfContained(c) PROVE FALSE
      OBVIOUS
    <3>1. types = Ins[c] \cup Outs[c] /\ kept = {}
      BY <1>1, <1>4 DEF ConfigInv, LoadedSoFar
    <3> HIDE DEF kept
    <3>. QED
      BY <3>1, <2>1 DEF SelfContained
  <2>4. ~ Starting => configuration = admin.previous
    BY <1>1 DEF ConfigInv, ProcessorRuns, Starting, TypeInv, AdminHolds, Applying
  <2>. QED
    BY <1>1, <1>2, <1>4, <1>6, <2>2, <2>3, <2>4, ConfigThrows DEF Applying
<1>. QED
  BY <1>5, <1>6 DEF ApplyStatements

LEMMA AdoptStep ==
  ASSUME TypeInv, ConfigInv, AdoptConfiguration
  PROVE  ConfigInv'
<1> DEFINE c == admin.config
<1>1. admin.at = "adopt" /\ Goto(AfterAdopt) /\ configuration' = c /\ sink' = c
  BY DEF AdoptConfiguration, Adopt, At
<1>2. UNCHANGED <<types, statements, mapper, subscribed, file, answer>>
  BY DEF AdoptConfiguration, engine
<1>3. SameOperation /\ admin'.at = IF Starting THEN "subscribe" ELSE "mapper"
  BY <1>1, GotoEffect DEF AfterAdopt, Stage
<1>4. Runs(c) /\ (Starting => file = c /\ mapper = c)
  BY <1>1 DEF ConfigInv, AppliedSoFar, LoadedSoFar, Applying
<1>5. EngineConsistent' /\ PathsCompile'
  BY <1>2 DEF ConfigInv, EngineConsistent, PathsCompile
<1>6. AppliedSoFar' /\ RestoredSoFar'
  BY <1>1, <1>2, <1>3, <1>4 DEF AppliedSoFar, RestoredSoFar, SameOperation, Starting, Runs
<1>7. LoadedSoFar'
  BY <1>2, <1>3, <1>4 DEF LoadedSoFar, SameOperation, Starting
<1>8. ProcessorRuns'
  BY <1>3, ProcessorMoves
<1>. QED
  BY <1>3, <1>5, <1>6, <1>7, <1>8, ConfigMoves

LEMMA SetMapperStep ==
  ASSUME TypeInv, ConfigInv, SetMapper
  PROVE  ConfigInv'
<1> DEFINE c == admin.config
<1>1. admin.at = "mapper" /\ c \in Config
  BY DEF SetMapper, At, TypeInv, AdminHolds, Applying
<1>2. UNCHANGED <<types, statements, configuration, sink, subscribed, file>>
  BY DEF SetMapper, engine
<1>3. EngineConsistent'
  BY <1>2 DEF ConfigInv, EngineConsistent
<1>4. Starting => file = c /\ types = {} /\ statements = {} /\ configuration = None
  BY <1>1 DEF ConfigInv, LoadedSoFar, Applying
<1>5. ~ Starting => Runs(c) /\ {configuration, sink} = {c}
  BY <1>1 DEF ConfigInv, AppliedSoFar
<1>6. CASE /\ c \notin BadPath /\ mapper' = c
           /\ Goto(IF Starting THEN "ins" ELSE "subscribe") /\ UNCHANGED answer
  <2>1. SameOperation /\ admin'.at = IF Starting THEN "ins" ELSE "subscribe"
    BY <1>6, GotoEffect DEF Stage
  <2>2. PathsCompile'
    BY <1>2, <1>6 DEF PathsCompile, ConfigInv
  <2>3. AppliedSoFar' /\ RestoredSoFar'
    BY <1>2, <1>5, <1>6, <2>1 DEF AppliedSoFar, RestoredSoFar, SameOperation, Starting, Runs
  <2>4. LoadedSoFar'
    BY <1>2, <1>4, <1>6, <2>1 DEF LoadedSoFar, SameOperation, Starting
  <2>5. ProcessorRuns'
    BY <2>1, ProcessorMoves
  <2>. QED
    BY <1>3, <2>1, <2>2, <2>3, <2>4, <2>5, ConfigMoves
<1>7. CASE c \in BadPath /\ Throw /\ UNCHANGED mapper
  <2>1. PathsCompile' /\ ~ Starting
    BY <1>2, <1>4, <1>7 DEF PathsCompile, ConfigInv
  <2>2. configuration \in BadPath
    BY <1>5, <1>7, <2>1
  <2>. QED
    BY <2>2, <1>1, <1>2, <1>3, <1>7, <2>1, ConfigThrows DEF Applying
<1>. QED
  BY <1>6, <1>7 DEF SetMapper

LEMMA SetSubscriptionsStep ==
  ASSUME TypeInv, ConfigInv, SetSubscriptions
  PROVE  ConfigInv'
<1> DEFINE c == admin.config
<1>1. admin.at = "subscribe" /\ subscribed' = c
  BY DEF SetSubscriptions, At
<1>2. UNCHANGED <<types, statements, configuration, sink, mapper, file>>
  BY DEF SetSubscriptions, engine
<1>3. Runs(c) /\ {configuration, sink, mapper} = {c}
  BY <1>1 DEF ConfigInv, AppliedSoFar
<1>4. EngineConsistent' /\ PathsCompile'
  BY <1>2 DEF ConfigInv, EngineConsistent, PathsCompile
<1>5. CASE Starting /\ Answer("none")
  <2>1. SameOperation /\ admin'.at = "idle" /\ answer' = "none"
    BY <1>5, AnswerEffect
  <2>2. file = c
    BY <1>1, <1>5 DEF ConfigInv, LoadedSoFar, Applying
  <2>3. RestartReloads'
    BY <1>1, <1>2, <1>3, <2>2 DEF RestartReloads, Runs
  <2>4. AppliedSoFar' /\ RestoredSoFar' /\ LoadedSoFar'
    BY <2>1 DEF AppliedSoFar, RestoredSoFar, LoadedSoFar, Applying
  <2>5. CreatedIsInForce' /\ RejectedRestoresEngine'
    BY <2>1 DEF CreatedIsInForce, RejectedRestoresEngine
  <2>6. ProcessorRuns'
    BY <1>2, <1>3, <1>5, <2>1 DEF ProcessorRuns, SameOperation, Starting, Runs
  <2>. QED
    BY <1>4, <2>3, <2>4, <2>5, <2>6 DEF ConfigInv
<1>6. CASE ~ Starting /\ Goto("save") /\ UNCHANGED answer
  <2>1. SameOperation /\ admin'.at = "save"
    BY <1>6, GotoEffect DEF Stage
  <2>2. AppliedSoFar' /\ RestoredSoFar'
    BY <1>1, <1>2, <1>3, <2>1 DEF AppliedSoFar, RestoredSoFar, SameOperation, Runs
  <2>3. LoadedSoFar'
    BY <1>6, <2>1 DEF LoadedSoFar, SameOperation, Starting
  <2>4. ProcessorRuns'
    BY <2>1, ProcessorMoves
  <2>. QED
    BY <1>4, <2>1, <2>2, <2>3, <2>4, ConfigMoves
<1>. QED
  BY <1>5, <1>6 DEF SetSubscriptions

(* The file: what is written is in force, and refusals of the disk leave   *)
(* everything else as it is.                                               *)
LEMMA SaveStep ==
  ASSUME TypeInv, ConfigInv, OpenFile \/ WriteFile
  PROVE  ConfigInv'
<1> DEFINE c == admin.config
<1>1. admin.at \in {"save", "write"} /\ admin.op = "post" /\ c \in Config
  BY DEF OpenFile, WriteFile, At, TypeInv, AdminHolds, Applying
<1>2. UNCHANGED <<types, statements, configuration, sink, mapper, subscribed>>
  BY DEF OpenFile, WriteFile, engine
<1>3. Runs(c) /\ {configuration, sink, mapper, subscribed} = {c}
  BY <1>1 DEF ConfigInv, AppliedSoFar
<1>4. EngineConsistent'
  BY <1>2 DEF ConfigInv, EngineConsistent
<1>5. file' \in {file, Partial, c}
  BY DEF OpenFile, WriteFile
<1>6. PathsCompile'
  BY <1>2, <1>3, <1>5 DEF ConfigInv, PathsCompile
<1>7. CASE Goto("write") /\ UNCHANGED answer
  <2>1. SameOperation /\ admin'.at = "write"
    BY <1>7, GotoEffect DEF Stage
  <2>2. AppliedSoFar' /\ RestoredSoFar' /\ LoadedSoFar'
    BY <1>1, <1>2, <1>3, <2>1
    DEF AppliedSoFar, RestoredSoFar, LoadedSoFar, SameOperation, Starting, Runs
  <2>3. ProcessorRuns'
    BY <2>1, ProcessorMoves
  <2>. QED
    BY <1>4, <1>6, <2>1, <2>2, <2>3, ConfigMoves
<1>8. ASSUME NEW result, Answer(result), result = "failed" \/ (result = "created" /\ file' = c)
      PROVE  ConfigInv'
  <2>1. SameOperation /\ admin'.at = "idle" /\ answer' = result
    BY <1>8, AnswerEffect
  <2>2. AppliedSoFar' /\ RestoredSoFar' /\ LoadedSoFar' /\ RejectedRestoresEngine' /\ RestartReloads'
    BY <1>1, <1>8, <2>1
    DEF AppliedSoFar, RestoredSoFar, LoadedSoFar, RejectedRestoresEngine, RestartReloads,
        SameOperation, Starting
  <2>3. CreatedIsInForce'
    BY <1>2, <1>3, <1>8, <2>1 DEF CreatedIsInForce, SameOperation, Runs
  <2>4. ProcessorRuns'
    BY <1>2, <1>3, <2>1 DEF ProcessorRuns, ConfigInv, SameOperation, Runs
  <2>. QED
    BY <1>4, <1>6, <2>2, <2>3, <2>4 DEF ConfigInv
<1>. QED
  BY <1>7, <1>8 DEF OpenFile, WriteFile

LEMMA RestoreStep ==
  ASSUME TypeInv, ConfigInv, RestoreEngine \/ RestoreMapper \/ RestoreSubscriptions
  PROVE  ConfigInv'
<1> DEFINE p == admin.previous
<1>1. admin.at \in Restoring /\ admin.op = "post" /\ p \in Config
  BY DEF RestoreEngine, RestoreMapper, RestoreSubscriptions, At, TypeInv, AdminHolds, Restoring
<1>2. UNCHANGED file /\ mapper' \notin BadPath
  BY DEF RestoreEngine, RestoreMapper, RestoreSubscriptions, ConfigInv, PathsCompile
<1>3. PathsCompile'
  BY <1>2 DEF ConfigInv, PathsCompile
<1>4. CASE RestoreEngine
  <2> DEFINE all == Ins[p] \cup Outs[p]
             list == Statements[p]
  <2>1. SameOperation /\ admin'.at = "restoreMapper"
    BY <1>4, GotoEffect DEF RestoreEngine, Stage
  <2>2. EngineConsistent' /\ (Runs(p)' \/ configuration' = None)
    <3>1. CASE AllCompile(list, {}, all) /\ types' = all /\ statements' = Range(list)
      <4>1. EngineConsistent'
        BY <1>1, <3>1, AllCompileEffect DEF EngineConsistent
      <4>2. Runs(p)'
        BY <3>1, <4>1, <2>1 DEF Runs, EngineConsistent, SameOperation
      <4>. QED
        BY <4>1, <4>2
    <3>2. ASSUME NEW i \in DOMAIN list, FirstRefused(list, i, {}, all), types' = all,
                 statements' = RunningBefore(list, i, {}), configuration' = None
          PROVE  EngineConsistent' /\ (Runs(p)' \/ configuration' = None)
      BY <1>1, <3>2, FirstRefusedEffect DEF EngineConsistent
    <3>3. CASE statements' = {} /\ configuration' = None
      BY <3>3 DEF EngineConsistent
    <3>. QED
      BY <1>4, <3>1, <3>2, <3>3 DEF RestoreEngine
  <2>3. AppliedSoFar' /\ RestoredSoFar' /\ LoadedSoFar'
    BY <1>1, <2>1, <2>2
    DEF AppliedSoFar, RestoredSoFar, LoadedSoFar, SameOperation, Starting, Runs
  <2>4. ProcessorRuns'
    <3>1. admin.at = "restore" /\ configuration' \in {configuration, None}
      BY <1>4 DEF RestoreEngine, At
    <3>. QED
      BY <1>1, <2>1, <3>1 DEF ProcessorRuns, ConfigInv, SameOperation
  <2>. QED
    BY <1>3, <2>1, <2>2, <2>3, <2>4, ConfigMoves
<1>5. CASE RestoreMapper \/ RestoreSubscriptions
  <2>1. UNCHANGED <<types, statements, configuration>> /\ (Runs(p) \/ configuration = None)
    BY <1>5 DEF RestoreMapper, RestoreSubscriptions, engine, At, ConfigInv, RestoredSoFar
  <2>2. EngineConsistent'
    BY <2>1 DEF ConfigInv, EngineConsistent
  <2>3. /\ configuration \in {p, None} \cup BadPath
        /\ p \in Config \ BadPath => admin.found = Range(Statements[p])
    BY <1>1, <1>5 DEF RestoreMapper, RestoreSubscriptions, At, ConfigInv, ProcessorRuns
  <2>4. CASE Goto("restoreSubscriptions")
    <3>1. SameOperation /\ admin'.at = "restoreSubscriptions"
      BY <2>4, GotoEffect DEF Stage
    <3>2. AppliedSoFar' /\ RestoredSoFar' /\ LoadedSoFar'
      BY <1>1, <2>1, <3>1
      DEF AppliedSoFar, RestoredSoFar, LoadedSoFar, SameOperation, Starting, Runs
    <3>3. ProcessorRuns'
      BY <2>1, <2>3, <3>1 DEF ProcessorRuns, SameOperation
    <3>. QED
      BY <1>3, <2>2, <3>1, <3>2, <3>3, ConfigMoves
  <2>5. CASE Answer("rejected")
    <3>1. SameOperation /\ admin'.at = "idle" /\ answer' = "rejected"
      BY <2>5, AnswerEffect
    <3>2. AppliedSoFar' /\ RestoredSoFar' /\ LoadedSoFar' /\ CreatedIsInForce' /\ RestartReloads'
      BY <1>1, <3>1
      DEF AppliedSoFar, RestoredSoFar, LoadedSoFar, CreatedIsInForce, RestartReloads,
          SameOperation, Starting
    <3>3. RejectedRestoresEngine'
      BY <2>1, <2>3, <3>1 DEF RejectedRestoresEngine, SameOperation, Runs
    <3>4. ProcessorRuns'
      BY <2>1, <2>3, <3>1 DEF ProcessorRuns, SameOperation, Runs
    <3>. QED
      BY <1>3, <2>2, <3>2, <3>3, <3>4 DEF ConfigInv
  <2>. QED
    BY <1>5, <2>4, <2>5 DEF RestoreMapper, RestoreSubscriptions
<1>. QED
  BY <1>4, <1>5

LEMMA ConfigStep ==
  ASSUME TypeInv, ConfigInv, [Next]_vars
  PROVE  ConfigInv'
<1> USE DEF engine
<1>1. ASSUME NEW c \in Config, PostConfiguration(c) PROVE ConfigInv'
  <2>1. /\ admin'.at = "ins" /\ admin'.op = "post" /\ admin.at = "idle"
        /\ admin'.previous = configuration /\ admin'.found = statements
        /\ UNCHANGED configuration
    BY <1>1 DEF PostConfiguration, At
  <2>2. ProcessorRuns'
    BY <2>1 DEF ProcessorRuns, ConfigInv, Runs
  <2>. QED
    BY <2>1, <2>2, <1>1
    DEF PostConfiguration, ConfigInv, EngineConsistent, PathsCompile, AppliedSoFar,
        RestoredSoFar, LoadedSoFar, CreatedIsInForce, RejectedRestoresEngine, RestartReloads,
        At, Starting
<1>2. ASSUME DeleteRequest PROVE ConfigInv'
  <2>1. admin'.at = "reset" /\ admin'.op = "delete"
    BY <1>2 DEF DeleteRequest
  <2>2. ProcessorRuns'
    BY <2>1, <1>2 DEF DeleteRequest, At, ProcessorRuns, ConfigInv, Runs
  <2>. QED
    BY <2>1, <2>2, <1>2
    DEF DeleteRequest, ConfigInv, EngineConsistent, PathsCompile, AppliedSoFar,
        RestoredSoFar, LoadedSoFar, CreatedIsInForce, RejectedRestoresEngine, RestartReloads,
        At, Starting
<1>3. ASSUME ResetEngine \/ DeleteFile PROVE ConfigInv'
  <2>1. /\ admin.op = "delete" /\ admin'.op = "delete" /\ admin'.at \in {"delete", "idle"}
        /\ admin'.at = "idle" => answer' = "deleted"
    BY <1>3, GotoEffect, AnswerEffect
    DEF ResetEngine, DeleteFile, At, Stage, SameOperation, TypeInv, AdminHolds
  <2>2. EngineConsistent' /\ PathsCompile'
    BY <1>3 DEF ResetEngine, DeleteFile, ConfigInv, EngineConsistent, PathsCompile
  <2>3. ProcessorRuns'
    BY <2>1, <1>3 DEF ResetEngine, DeleteFile, At, ProcessorRuns, ConfigInv, Runs
  <2>. QED
    BY <2>1, <2>2, <2>3
    DEF ConfigInv, AppliedSoFar, RestoredSoFar, LoadedSoFar, CreatedIsInForce,
        RejectedRestoresEngine, RestartReloads, At, Starting
<1>4. ASSUME Restart PROVE ConfigInv'
  <2>1. EngineConsistent' /\ PathsCompile' /\ answer' = "none"
    BY <1>4 DEF Restart, ConfigInv, EngineConsistent, PathsCompile
  <2>2. ProcessorRuns'
    BY <1>4 DEF Restart, ProcessorRuns
  <2>3. CASE file \in Config
    <3>1. /\ admin'.op = "start" /\ admin'.config = file /\ admin'.at = "mapper"
          /\ types' = {} /\ statements' = {} /\ configuration' = None /\ file' = file
      BY <1>4, <2>3 DEF Restart
    <3>. QED
      BY <2>1, <2>2, <3>1
      DEF ConfigInv, AppliedSoFar, RestoredSoFar, LoadedSoFar, CreatedIsInForce,
          RejectedRestoresEngine, RestartReloads, At, Starting
  <2>4. CASE file \notin Config
    <3>1. admin'.op = "start" /\ admin'.at = "idle" /\ file' = file
      BY <1>4, <2>4 DEF Restart
    <3>. QED
      BY <2>1, <2>4, <2>2, <3>1
      DEF ConfigInv, AppliedSoFar, RestoredSoFar, LoadedSoFar, CreatedIsInForce,
          RejectedRestoresEngine, RestartReloads, At, Starting, Applying
  <2>. QED
    BY <2>3, <2>4
<1>5. CASE UNCHANGED vars
  <2>1. UNCHANGED <<types, statements, configuration, sink, mapper, subscribed, file, admin, answer>>
    BY <1>5 DEF vars
  <2>2. EngineConsistent' /\ PathsCompile'
    BY <2>1 DEF ConfigInv, EngineConsistent, PathsCompile
  <2>3. AppliedSoFar'
    BY <2>1 DEF ConfigInv, AppliedSoFar, Runs, Starting
  <2>4. RestoredSoFar'
    BY <2>1 DEF ConfigInv, RestoredSoFar, Runs
  <2>5. LoadedSoFar'
    BY <2>1 DEF ConfigInv, LoadedSoFar, Starting, SelfContained
  <2>6. CreatedIsInForce'
    BY <2>1 DEF ConfigInv, CreatedIsInForce, Runs, At
  <2>7. RejectedRestoresEngine'
    BY <2>1 DEF ConfigInv, RejectedRestoresEngine, Runs, At
  <2>8. RestartReloads'
    BY <2>1 DEF ConfigInv, RestartReloads, Runs, At, Starting, SelfContained
  <2>9. ProcessorRuns'
    BY <2>1 DEF ConfigInv, ProcessorRuns, Runs
  <2>. QED
    BY <2>2, <2>3, <2>4, <2>5, <2>6, <2>7, <2>8, <2>9 DEF ConfigInv
<1>. QED
  BY <1>1, <1>2, <1>3, <1>4, <1>5, ApplyInsStep, ApplyOutsStep, ApplyStatementsStep, AdoptStep,
     SetMapperStep, SetSubscriptionsStep, SaveStep, RestoreStep
  DEF Next

(* What the theorems below rest on.                                        *)
LEMMA Invariance == Spec => [](TypeInv /\ ConfigInv)
<1>1. TypeInv /\ [Next]_vars => TypeInv'
  BY TypeStep
<1>2. TypeInv /\ ConfigInv /\ [Next]_vars => ConfigInv'
  BY ConfigStep
<1>. QED
  BY TypeInit, ConfigInit, <1>1, <1>2, PTL DEF Spec

(* A POST answered 201 Created is in force in every part: engine,          *)
(* processor, sink, mapper, subscriptions and file.                        *)
THEOREM CreatedIsApplied == Spec => []CreatedIsInForce
  BY Invariance, PTL DEF ConfigInv

(* A POST over a configuration in force that is refused, at whichever      *)
(* step, leaves the engine running exactly the statements that ran when    *)
(* the POST began, or GET answers no configuration.                        *)
THEOREM RefusalRestores == Spec => []RejectedRestoresEngine
  BY Invariance, PTL DEF ConfigInv

(* A restart brings the persisted configuration back, wherever the process *)
(* died, if each of its statements uses only what comes before it in the   *)
(* document.                                                               *)
THEOREM PersistedIsReloaded == Spec => []RestartReloads
  BY Invariance, PTL DEF ConfigInv

(* A configuration reaches the disk only when every part has it.           *)
THEOREM PersistsWhatIsApplied == Spec => PersistedOnceApplied
<1>1. TypeInv /\ ConfigInv /\ [Next]_vars =>
        [file' \in Config /\ file' # file =>
           Runs(file') /\ {configuration, sink, mapper, subscribed} = {file'}]_vars
  <2> SUFFICES ASSUME TypeInv, ConfigInv, Next, file' \in Config, file' # file
               PROVE  Runs(file') /\ {configuration, sink, mapper, subscribed} = {file'}
    OBVIOUS
  <2>1. WriteFile /\ file' = admin.config
    BY DEF Next, PostConfiguration, ApplyIns, ApplyOuts, ApplyStatements, AdoptConfiguration,
           SetMapper, SetSubscriptions, OpenFile, WriteFile, RestoreEngine, RestoreMapper,
           RestoreSubscriptions, DeleteRequest, ResetEngine, DeleteFile, Restart
  <2>. QED
    BY <2>1 DEF WriteFile, At, ConfigInv, AppliedSoFar
<1>. QED
  BY <1>1, Invariance, PTL DEF Spec, PersistedOnceApplied

---------------------------------------------------------------------------
(* The subscriptions to the providers of a configuration:                  *)
(* SubscriptionManager.                                                    *)

(* The variables of the two Java classes, their locals and the requests.   *)
Locals == adminThread \in AdminThread /\ task \in Task /\ due \in BOOLEAN
Objects ==
    /\ providers \in [Setting -> SUBSET Source]
    /\ record \in [Setting -> [Source -> Record]]
    /\ {current, set} \subseteq Setting
    /\ valid \in [Setting -> SUBSET IdOrNull]
Messages ==
    /\ sent \subseteq Subscribing \cup Unsubscribing
    /\ answers \subseteq Subscribing
    /\ live \in [Source -> SUBSET Id]
    /\ mishaps \in 0..MaxMishaps

LEMMA SubscriptionTypes == SubscriptionTypeOK <=> Locals /\ Objects /\ Messages
BY DEF SubscriptionTypeOK, Locals, Objects, Messages

(* The fields of a call's locals, and of the records and requests.         *)
LEMMA LocalFields ==
  ASSUME Locals
  PROVE  /\ adminThread.at \in {"idle", "migrate", "replaceTypes"}
         /\ adminThread.config \in Setting /\ adminThread.made \in Setting
         /\ adminThread.todo \in SUBSET Source
         /\ task.at \in {"idle", "read", "visit"}
         /\ task.set \in Setting /\ task.config \in Setting /\ task.todo \in SUBSET Source
BY DEF Locals, AdminThread, Task

LEMMA NoRecordTyped == NoRecord \in Record
BY DEF NoRecord, Record, IdOrNull, Date

LEMMA UnsubscribeTyped ==
  ASSUME NEW s \in Source, NEW id \in Id
  PROVE  Unsubscribe(s, id) \in Unsubscribing
BY DEF Unsubscribe, Unsubscribing

LEMMA RecordStored ==
  ASSUME Objects, NEW n \in Setting, NEW s \in Source, NEW r \in Record
  PROVE  [record EXCEPT ![n][s] = r] \in [Setting -> [Source -> Record]]
<1>1. record[n] \in [Source -> Record]
  BY DEF Objects
<1>2. [record[n] EXCEPT ![s] = r] \in [Source -> Record]
  BY <1>1
<1>. QED
  BY <1>2 DEF Objects

LEMMA RecordFields ==
  ASSUME Objects, NEW n \in Setting, NEW s \in Source
  PROVE  /\ record[n][s] \in Record
         /\ record[n][s].id \in IdOrNull
<1>1. record[n][s] \in Record
  BY DEF Objects
<1>. QED
  BY <1>1 DEF Record

(* An admin thread sets a configuration.                                   *)
LEMMA SetStep ==
  ASSUME SubscriptionTypeOK, SetNewConfiguration \/ RestoreConfiguration
  PROVE  SubscriptionTypeOK'
<1>. USE SubscriptionTypes
<1>1. /\ adminThread.config \in Setting /\ adminThread.made \in Setting
      /\ providers \in [Setting -> SUBSET Source] /\ current \in Setting
  BY LocalFields DEF Objects
<1>2. PICK config, sources : /\ SetConfiguration(config, sources) /\ sources \in SUBSET Source
                             /\ config \in {adminThread.made + 1, current}
  BY <1>1 DEF SetNewConfiguration, RestoreConfiguration
<1>3. adminThread.made < MaxSettings
  BY <1>2 DEF SetConfiguration
<1>4. adminThread.made + 1 \in Setting /\ config \in Setting
  BY <1>1, <1>2, <1>3, SubscriptionAssumption DEF Setting
<1>5. adminThread' \in AdminThread
  <2>1. adminThread' = [at |-> "migrate", config |-> config, made |-> adminThread.made + 1,
                    todo |-> providers[current]]
    BY <1>2 DEF SetConfiguration
  <2>. QED
    BY <1>1, <1>4, <2>1 DEF AdminThread
<1>6. providers' \in [Setting -> SUBSET Source]
  BY <1>1, <1>2, <1>4 DEF SetConfiguration
<1>7. Locals' /\ Objects' /\ Messages'
  BY <1>2, <1>5, <1>6 DEF SetConfiguration, Locals, Objects, Messages
<1>. QED
  BY <1>7, SubscriptionTypes, PTL

(* It takes a provider's subscription over, or ends it.                    *)
LEMMA MigrateStep ==
  ASSUME SubscriptionTypeOK, NEW s \in Source, MigrateProvider(s)
  PROVE  SubscriptionTypeOK'
<1>. USE SubscriptionTypes
<1>. DEFINE old == record[current][s]
<1>1. /\ adminThread.config \in Setting /\ adminThread.made \in Setting /\ adminThread.todo \in SUBSET Source
      /\ current \in Setting /\ set \in Setting
      /\ old \in Record /\ old.id \in IdOrNull
  BY LocalFields, RecordFields DEF Objects
<1>2. /\ record' \in [Setting -> [Source -> Record]]
      /\ valid' \in [Setting -> SUBSET IdOrNull]
      /\ sent' \subseteq Subscribing \cup Unsubscribing
  <2>1. CASE KeepProvider(s)
    <3>1. /\ record' = [record EXCEPT ![adminThread.config][s] = old]
          /\ valid' = [valid EXCEPT ![adminThread.made] = @ \cup {old.id}] /\ sent' = sent
      BY <2>1 DEF KeepProvider
    <3>. HIDE DEF old
    <3>. QED
      BY <1>1, <3>1, RecordStored DEF Objects, Messages
  <2>2. CASE DropProvider(s) /\ old.id # Null
    <3>1. /\ valid' = [valid EXCEPT ![set] = @ \ {old.id}]
          /\ sent' = sent \cup {Unsubscribe(s, old.id)}
          /\ record' = [record EXCEPT ![current][s] = NoRecord]
      BY <2>2 DEF DropProvider, Subscribed
    <3>2. old.id \in Id
      BY <1>1, <2>2 DEF IdOrNull
    <3>. HIDE DEF old
    <3>. QED
      BY <1>1, <3>1, <3>2, RecordStored, NoRecordTyped, UnsubscribeTyped DEF Objects, Messages
  <2>3. CASE DropProvider(s) /\ old.id = Null
    <3>1. record' = record /\ valid' = valid /\ sent' = sent
      BY <2>3 DEF DropProvider, Subscribed
    <3>. QED
      BY <3>1 DEF Objects, Messages
  <2>. QED
    BY <2>1, <2>2, <2>3 DEF MigrateProvider
<1>3. adminThread' \in AdminThread
  <2>1. adminThread' = [adminThread EXCEPT !.todo = @ \ {s}]
    BY DEF MigrateProvider
  <2>. QED
    BY <2>1 DEF Locals, AdminThread
<1>. HIDE DEF old
<1>4. Locals' /\ Objects' /\ Messages'
  BY <1>2, <1>3 DEF MigrateProvider, Locals, Objects, Messages
<1>. QED
  BY <1>4, SubscriptionTypes, PTL

(* The sets are replaced.                                                  *)
LEMMA ReplaceStep ==
  ASSUME SubscriptionTypeOK, ReplaceSet \/ ReplaceTypes
  PROVE  SubscriptionTypeOK'
<1>. USE SubscriptionTypes
<1>1. adminThread.config \in Setting /\ adminThread.made \in Setting
  BY LocalFields
<1>2. CASE ReplaceSet
  <2>1. adminThread' = [adminThread EXCEPT !.at = "replaceTypes"]
    BY <1>2 DEF ReplaceSet
  <2>2. adminThread' \in AdminThread
    BY <2>1 DEF Locals, AdminThread
  <2>3. valid' \in [Setting -> SUBSET IdOrNull] /\ set' \in Setting
    BY <1>1, <1>2 DEF ReplaceSet, Objects
  <2>4. Locals' /\ Objects' /\ Messages'
    BY <1>2, <2>2, <2>3 DEF ReplaceSet, Locals, Objects, Messages
  <2>. QED
    BY <2>4, SubscriptionTypes, PTL
<1>3. CASE ReplaceTypes
  <2>1. adminThread' = [adminThread EXCEPT !.at = "idle", !.config = 0]
    BY <1>3 DEF ReplaceTypes
  <2>2. 0 \in Setting
    BY SubscriptionAssumption DEF Setting
  <2>3. adminThread' \in AdminThread
    BY <2>1, <2>2 DEF Locals, AdminThread
  <2>. DEFINE garbage == {current} \ {adminThread.config, task.config}
              none == [s \in Source |-> NoRecord]
  <2>4. /\ record' = [n \in Setting |-> IF n \in garbage THEN none ELSE record[n]]
        /\ providers' = [n \in Setting |-> IF n \in garbage THEN {} ELSE providers[n]]
        /\ current' = adminThread.config /\ set' = set /\ valid' = valid
    BY <1>3 DEF ReplaceTypes
  <2>5. none \in [Source -> Record]
    BY NoRecordTyped
  <2>6. Objects'
    <3>. HIDE DEF garbage, none
    <3>. QED
      BY <1>1, <2>4, <2>5 DEF Objects
  <2>7. Locals' /\ Messages'
    BY <1>3, <2>3 DEF ReplaceTypes, Locals, Messages
  <2>. QED
    BY <2>6, <2>7, SubscriptionTypes, PTL
<1>. QED
  BY <1>2, <1>3

(* The periodic task visits a provider.                                    *)
LEMMA VisitStep ==
  ASSUME SubscriptionTypeOK, NEW s \in Source, TaskVisits(s)
  PROVE  SubscriptionTypeOK'
<1>. USE SubscriptionTypes
<1>. DEFINE r == record[task.config][s]
            i == CHOOSE i \in Fresh : TRUE
            m == [kind |-> "subscribe", id |-> i, source |-> s,
                  config |-> task.config, set |-> task.set]
<1>1. /\ task.set \in Setting /\ task.config \in Setting /\ task.todo \in SUBSET Source
      /\ task' = [task EXCEPT !.todo = @ \ {s}]
  BY LocalFields DEF TaskVisits
<1>2. task' \in Task
  BY <1>1 DEF Locals, Task
<1>3. sent' = sent \/ (Fresh # {} /\ sent' = sent \cup {m})
  BY DEF TaskVisits
<1>4. Fresh # {} => m \in Subscribing
  <2>1. Fresh # {} => i \in Id
    BY DEF Fresh
  <2>. HIDE DEF i
  <2>. QED
    BY <1>1, <2>1 DEF Subscribing
<1>5. \/ valid' = valid /\ record' = record
      \/ /\ valid' = [valid EXCEPT ![task.set] = @ \ {r.id}]
         /\ record' = [record EXCEPT ![task.config][s] = NoRecord]
  BY DEF TaskVisits
<1>. HIDE DEF r, m
<1>6. sent' \subseteq Subscribing \cup Unsubscribing
  BY <1>3, <1>4 DEF Messages
<1>7. /\ record' \in [Setting -> [Source -> Record]]
      /\ valid' \in [Setting -> SUBSET IdOrNull]
  <2>1. [record EXCEPT ![task.config][s] = NoRecord] \in [Setting -> [Source -> Record]]
    BY <1>1, RecordStored, NoRecordTyped
  <2>2. [valid EXCEPT ![task.set] = @ \ {r.id}] \in [Setting -> SUBSET IdOrNull]
    BY <1>1 DEF Objects
  <2>. QED
    BY <1>5, <2>1, <2>2 DEF Objects
<1>8. Locals' /\ Objects' /\ Messages'
  BY <1>2, <1>6, <1>7 DEF TaskVisits, Locals, Objects, Messages
<1>. QED
  BY <1>8, SubscriptionTypes, PTL

(* The rest of its run.                                                    *)
LEMMA TaskStep ==
  ASSUME SubscriptionTypeOK, TaskTakesSet \/ TaskReadsTypes \/ TaskEnds
  PROVE  SubscriptionTypeOK'
<1>. USE SubscriptionTypes
<1>1. 0 \in Setting
  BY SubscriptionAssumption DEF Setting
<1>2. \/ task' = [task EXCEPT !.at = "read", !.set = set]
      \/ task' = [task EXCEPT !.at = "visit", !.config = current, !.todo = providers[current]]
      \/ task' = [at |-> "idle", set |-> 0, config |-> 0, todo |-> {}]
  BY DEF TaskTakesSet, TaskReadsTypes, TaskEnds, AfterRun
<1>3. set \in Setting /\ current \in Setting /\ providers[current] \in SUBSET Source
  BY DEF Objects
<1>4. task' \in Task
  <2>1. [task EXCEPT !.at = "read", !.set = set] \in Task
    BY <1>3 DEF Locals, Task
  <2>2. [task EXCEPT !.at = "visit", !.config = current, !.todo = providers[current]] \in Task
    BY <1>3 DEF Locals, Task
  <2>3. [at |-> "idle", set |-> 0, config |-> 0, todo |-> {}] \in Task
    BY <1>1 DEF Task
  <2>. QED
    BY <1>2, <2>1, <2>2, <2>3
<1>5. due' \in BOOLEAN /\ adminThread' = adminThread
  BY DEF TaskTakesSet, TaskReadsTypes, TaskEnds, Locals
<1>6. Objects' /\ Messages'
  BY DEF TaskTakesSet, TaskReadsTypes, TaskEnds, Objects, Messages
<1>7. Locals'
  BY <1>4, <1>5 DEF Locals
<1>. QED
  BY <1>6, <1>7, SubscriptionTypes, PTL

(* An answer is recorded.                                                  *)
LEMMA SubscribedStep ==
  ASSUME SubscriptionTypeOK, NEW a \in answers, OnSubscribed(a)
  PROVE  SubscriptionTypeOK'
<1>. USE SubscriptionTypes
<1>. DEFINE r == [id |-> a.id, date |-> "fresh"]
<1>1. a.id \in Id /\ a.source \in Source /\ a.config \in Setting /\ a.set \in Setting
  BY DEF Messages, Subscribing
<1>2. a.id \in IdOrNull /\ r \in Record
  BY <1>1 DEF Record, IdOrNull, Date
<1>3. /\ record' = record \/ record' = [record EXCEPT ![a.config][a.source] = r]
      /\ valid' = valid \/ valid' = [valid EXCEPT ![a.set] = @ \cup {a.id}]
  BY DEF OnSubscribed
<1>. HIDE DEF r
<1>4. /\ record' \in [Setting -> [Source -> Record]]
      /\ valid' \in [Setting -> SUBSET IdOrNull]
  <2>1. [record EXCEPT ![a.config][a.source] = r] \in [Setting -> [Source -> Record]]
    BY <1>1, <1>2, RecordStored
  <2>2. [valid EXCEPT ![a.set] = @ \cup {a.id}] \in [Setting -> SUBSET IdOrNull]
    BY <1>1, <1>2 DEF Objects
  <2>. QED
    BY <1>3, <2>1, <2>2 DEF Objects
<1>5. Locals' /\ Objects' /\ Messages'
  BY <1>4 DEF OnSubscribed, Locals, Objects, Messages
<1>. QED
  BY <1>5, SubscriptionTypes, PTL

(* A provider takes a request, or it fails.                                *)
LEMMA ProviderStep ==
  ASSUME SubscriptionTypeOK, NEW m \in sent, Accept(m) \/ Fail(m)
  PROVE  SubscriptionTypeOK'
<1>. USE SubscriptionTypes
<1>1. /\ m.id \in Id /\ m.source \in Source
      /\ (m.kind = "subscribe" => m \in Subscribing)
  BY DEF Messages, Subscribing, Unsubscribing
<1>2. sent' = sent \ {m} /\ answers' \in {answers, answers \cup {m}}
      /\ (m.kind # "subscribe" => answers' = answers)
  BY DEF Accept, Fail
<1>3. live' \in {live, [live EXCEPT ![m.source] = @ \cup {m.id}], [live EXCEPT ![m.source] = @ \ {m.id}]}
  BY DEF Accept, Fail
<1>4. live' \in [Source -> SUBSET Id]
  BY <1>1, <1>3 DEF Messages
<1>5. answers' \subseteq Subscribing
  BY <1>1, <1>2 DEF Messages
<1>6. mishaps' \in 0..MaxMishaps
  BY SubscriptionAssumption DEF Accept, Fail, Messages
<1>7. Messages'
  BY <1>2, <1>4, <1>5, <1>6 DEF Messages
<1>8. Locals' /\ Objects'
  BY DEF Accept, Fail, cep, Locals, Objects
<1>. QED
  BY <1>7, <1>8, SubscriptionTypes, PTL

(* Time passes, or a notification is refused.                              *)
LEMMA BesideStep ==
  ASSUME SubscriptionTypeOK, NEW s \in Source,
         \/ Deadline(current, s) \/ Deadline(task.config, s)
         \/ \E id \in Id : RefuseNotification(s, id) \/ Expire(s, id)
  PROVE  SubscriptionTypeOK'
<1>. USE SubscriptionTypes
<1>1. ASSUME NEW n \in Setting, Deadline(n, s) PROVE SubscriptionTypeOK'
  <2>. DEFINE r == [record[n][s] EXCEPT !.date = "passed"]
  <2>1. record[n][s] \in Record
    BY RecordFields
  <2>2. r \in Record
    BY <2>1 DEF Record, Date
  <2>3. record' = [record EXCEPT ![n][s] = r]
    BY <1>1 DEF Deadline
  <2>. HIDE DEF r
  <2>4. record' \in [Setting -> [Source -> Record]]
    BY <2>2, <2>3, RecordStored
  <2>5. Locals' /\ Objects' /\ Messages'
    BY <1>1, <2>4 DEF Deadline, Locals, Objects, Messages
  <2>. QED
    BY <2>5, SubscriptionTypes, PTL
<1>2. ASSUME NEW id \in Id, RefuseNotification(s, id) PROVE SubscriptionTypeOK'
  <2>1. /\ sent' = sent \cup {Unsubscribe(s, id)} /\ answers' = answers /\ live' = live
        /\ mishaps' = mishaps \/ (mishaps < MaxMishaps /\ mishaps' = mishaps + 1)
    BY <1>2 DEF RefuseNotification
  <2>2. sent' \subseteq Subscribing \cup Unsubscribing
    BY <2>1, UnsubscribeTyped DEF Messages
  <2>3. Messages'
    BY <2>1, <2>2, SubscriptionAssumption DEF Messages
  <2>4. Locals' /\ Objects'
    BY <1>2 DEF RefuseNotification, cep, Locals, Objects
  <2>. QED
    BY <2>3, <2>4, SubscriptionTypes, PTL
<1>3. ASSUME NEW id \in Id, Expire(s, id) PROVE SubscriptionTypeOK'
  <2>1. Locals' /\ Objects' /\ Messages'
    BY <1>3 DEF Expire, cep, Locals, Objects, Messages
  <2>. QED
    BY <2>1, SubscriptionTypes, PTL
<1>4. current \in Setting /\ task.config \in Setting
  BY LocalFields DEF Objects
<1>. QED
  BY <1>1, <1>2, <1>3, <1>4

LEMMA InitSubscriptionTypes ==
  ASSUME SubscriptionInit
  PROVE  SubscriptionTypeOK
<1>1. 0 \in Setting /\ 0 \in 0..MaxMishaps
  BY SubscriptionAssumption DEF Setting
<1>2. Locals
  BY <1>1 DEF SubscriptionInit, Locals, AdminThread, Task
<1>3. Objects
  BY <1>1, NoRecordTyped DEF SubscriptionInit, Objects
<1>4. Messages
  BY <1>1 DEF SubscriptionInit, Messages
<1>. QED
  BY <1>2, <1>3, <1>4, SubscriptionTypes

(* Whatever configurations are set, answered and lost: the subscriptions'  *)
(* ids, dates and requests keep their kinds, and a Subscriptions or        *)
(* Provider object in use is one that a call made.                         *)
THEOREM SubscriptionTypeCorrect ==
  SubscriptionSpec => []SubscriptionTypeOK
<1>1. SubscriptionInit => SubscriptionTypeOK
  BY InitSubscriptionTypes
<1>2. SubscriptionTypeOK /\ [SubscriptionNext]_subscriptionVars => SubscriptionTypeOK'
  <2>. SUFFICES ASSUME SubscriptionTypeOK, [SubscriptionNext]_subscriptionVars PROVE SubscriptionTypeOK'
    OBVIOUS
  <2>1. CASE SetNewConfiguration \/ RestoreConfiguration
    BY <2>1, SetStep
  <2>2. CASE Configure
    BY <2>2, MigrateStep, ReplaceStep DEF Configure
  <2>3. CASE PeriodicTask
    BY <2>3, VisitStep, TaskStep DEF PeriodicTask
  <2>4. CASE Callbacks
    BY <2>4, SubscribedStep DEF Callbacks
  <2>5. CASE Providers
    BY <2>5, ProviderStep DEF Providers
  <2>6. CASE \E s \in Source :
               \/ Deadline(current, s) \/ Deadline(task.config, s)
               \/ \E id \in Id : RefuseNotification(s, id) \/ Expire(s, id)
    BY <2>6, BesideStep
  <2>7. CASE UNCHANGED subscriptionVars
    BY <2>7 DEF subscriptionVars, SubscriptionTypeOK
  <2>. QED
    BY <2>1, <2>2, <2>3, <2>4, <2>5, <2>6, <2>7 DEF SubscriptionNext
<1>. QED
  BY <1>1, <1>2, PTL DEF SubscriptionSpec
=============================================================================
