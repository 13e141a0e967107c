-------------------------- MODULE CepConfiguration --------------------------
(***************************************************************************)
(* How the Cepheus CEP takes, replaces, drops and reloads its              *)
(* configuration: AdminController over EsperEventProcessor, EventMapper,   *)
(* EventSinkListener, SubscriptionManager and JsonPersistence, and Init at *)
(* startup.                                                                *)
(*                                                                         *)
(* The admin methods are synchronized, so one runs at a time.  Each step   *)
(* of a method is an action: a step may throw, and the process may be      *)
(* killed between any two.  The Esper engine is its event types, each a    *)
(* name with a definition, and its statements.                             *)
(***************************************************************************)
EXTENDS Naturals, Sequences, Functions

CONSTANTS
  Config,        \* configuration documents
  EventType,     \* event types: a name and a definition
  Statement,     \* EPL statements
  Name,          \* names of event types
  NameOf,        \* the name of each event type
  Ins, Outs,     \* the incoming and outgoing event types of a configuration
  Statements,    \* its statements, in the order of the document
  Uses,          \* names of the event types a statement mentions
  Needs,         \* statements declaring variables it mentions, transitively
  BadPath,       \* configurations with a jsonpath that does not compile
  None,          \* Java's null
  Partial        \* the content of a file that was not written to its end

ASSUME ConstantsAssumption ==
  /\ NameOf \in [EventType -> Name]
  /\ Ins \in [Config -> SUBSET EventType] /\ Outs \in [Config -> SUBSET EventType]
  /\ Statements \in [Config -> Seq(Statement)]
  /\ Uses \in [Statement -> SUBSET Name]
  /\ Needs \in [Statement -> SUBSET Statement]
  /\ BadPath \subseteq Config
  /\ {None, Partial} \cap Config = {} /\ None # Partial

VARIABLES
  types,         \* event types of the Esper engine
  statements,    \* its statements
  configuration, \* EsperEventProcessor.configuration, which GET answers
  sink,          \* EventSinkListener.configuration
  mapper,        \* the configuration EventMapper.jsonpaths was compiled from
  subscribed,    \* the one SubscriptionManager subscribes for
  file,          \* the persisted configuration
  admin,         \* the admin method (or the startup) that runs, and its locals; found,
                 \* the statements that ran when a POST began, is read by properties only
  answer         \* how the last one ended

vars == <<types, statements, configuration, sink, mapper, subscribed, file, admin, answer>>
engine == <<types, statements>>

Stage == {"idle", "ins", "outs", "statements", "adopt", "mapper", "subscribe", "save", "write",
          "restore", "restoreMapper", "restoreSubscriptions", "reset", "delete"}
Operation == {"post", "delete", "start"}
ConfigOrNone == Config \cup {None}

Init ==
  /\ types = {} /\ statements = {}
  /\ configuration = None /\ sink = None /\ mapper = None /\ subscribed = None
  /\ file = None
  /\ admin = [op |-> "start", config |-> None, previous |-> None, found |-> {}, at |-> "idle"]
  /\ answer = "none"

At(stage) == admin.at = stage
Goto(stage) == admin' = [admin EXCEPT !.at = stage]
Starting == admin.op = "start"

AnswerFile(result) == Goto("idle") /\ answer' = file
Answer(result) == Goto("idle") /\ answer' = result

NamesOf(S) == {NameOf[e] : e \in S}
Clash(S) == \E e, f \in S : e # f /\ NameOf[e] = NameOf[f]

----------------------------------------------------------------------------
\* ConfigurationException out of a step: a POST restores what it found, if
\* anything; the startup logs and goes on.
ThrowWithoutRestore == Answer(IF Starting THEN "none" ELSE "rejected")
Throw ==
  IF ~Starting /\ admin.previous # None
    THEN Goto("restore") /\ UNCHANGED answer
    ELSE Answer(IF Starting THEN "none" ELSE "rejected")

\* POST /v1/admin/config.
PostConfiguration(c) ==
  /\ At("idle")
  /\ admin' = [op |-> "post", config |-> c, previous |-> configuration, found |-> statements,
               at |-> "ins"]
  /\ UNCHANGED <<engine, configuration, sink, mapper, subscribed, file, answer>>

\* updateEventTypes: statements that use a type to remove go with it, types go
\* by name, and Esper refuses a second definition of a name; types added
\* before the refused one stay.
StatementsWithout(names) == {s \in statements : Uses[s] \cap names = {}}

UpdateEventTypes(old, new, next) ==
  LET gone  == NamesOf(old \ new)
      left  == {e \in types : NameOf[e] \notin gone}
      added == new \ old
  IN
  /\ statements' = StatementsWithout(gone)
  /\ \/ /\ ~Clash(left \cup added)
        /\ types' = left \cup added
        /\ Goto(next)
        /\ UNCHANGED answer
     \/ /\ Clash(left \cup added)
        /\ \E S \in SUBSET added : ~Clash(left \cup S) /\ types' = left \cup S
        /\ Throw

Of(part, c) == IF c = None THEN {} ELSE part[c]

ApplyIns ==
  /\ At("ins")
  /\ UpdateEventTypes(Of(Ins, configuration), Ins[admin.config], "outs")
  /\ UNCHANGED <<configuration, sink, mapper, subscribed, file>>

ApplyOuts ==
  /\ At("outs")
  /\ UpdateEventTypes(Of(Outs, configuration), Outs[admin.config], "statements")
  /\ UNCHANGED <<configuration, sink, mapper, subscribed, file>>

\* updateStatements: those not wanted go, with all that mention a variable one
\* of them declares; then the missing ones are compiled in the order of the
\* document, and the first that does not compile ends it.
Kept(present, wanted) == {s \in present \cap wanted : Needs[s] \subseteq wanted}

RunningBefore(list, i, kept) == kept \cup {list[j] : j \in 1..(i - 1)}

Compiles(list, i, kept, known) ==
  \/ list[i] \in kept
  \/ /\ Uses[list[i]] \subseteq NamesOf(known)
     /\ Needs[list[i]] \subseteq RunningBefore(list, i, kept)

AllCompile(list, kept, known) == \A i \in DOMAIN list : Compiles(list, i, kept, known)

FirstRefused(list, i, kept, known) ==
  /\ ~Compiles(list, i, kept, known)
  /\ \A j \in 1..(i - 1) : Compiles(list, j, kept, known)

ApplyStatements ==
  LET list == Statements[admin.config]
      kept == Kept(statements, Range(list))
  IN
  /\ At("statements")
  /\ \/ /\ AllCompile(list, kept, types)
        /\ statements' = Range(list)
        /\ Goto("adopt")
        /\ UNCHANGED answer
     \/ \E i \in DOMAIN list :
          /\ FirstRefused(list, i, kept, types)
          /\ statements' = RunningBefore(list, i, kept)
          /\ Throw
  /\ UNCHANGED <<types, configuration, sink, mapper, subscribed, file>>

\* The end of EsperEventProcessor.setConfiguration.
AdoptByProcessorOnly(c) == configuration' = c /\ UNCHANGED sink
Adopt(c) == configuration' = c /\ sink' = c

\* A POST goes on with the mapper; the startup has done that first.
SaveAfterAdopt == "save"
SkipMapperAfterAdopt == "subscribe"
AfterAdopt == IF Starting THEN "subscribe" ELSE "mapper"

AdoptConfiguration ==
  /\ At("adopt")
  /\ Adopt(admin.config)
  /\ Goto(AfterAdopt)
  /\ UNCHANGED <<engine, mapper, subscribed, file, answer>>

\* EventMapper.setConfiguration keeps the old paths when one does not compile.
SetMapper ==
  /\ At("mapper")
  /\ \/ /\ admin.config \notin BadPath
        /\ mapper' = admin.config
        /\ Goto(IF Starting THEN "ins" ELSE "subscribe")
        /\ UNCHANGED answer
     \/ /\ admin.config \in BadPath
        /\ Throw
        /\ UNCHANGED mapper
  /\ UNCHANGED <<engine, configuration, sink, subscribed, file>>

SetSubscriptions ==
  /\ At("subscribe")
  /\ subscribed' = admin.config
  /\ IF Starting THEN Answer("none") ELSE Goto("save") /\ UNCHANGED answer
  /\ UNCHANGED <<engine, configuration, sink, mapper, file>>

\* saveConfiguration empties the file, then writes it; an IOException before
\* or after the file was emptied is not caught by the POST, which restores
\* nothing.
OpenFile ==
  /\ At("save")
  /\ \/ file' = Partial /\ Goto("write") /\ UNCHANGED answer
     \/ Answer("failed") /\ UNCHANGED file
  /\ UNCHANGED <<engine, configuration, sink, mapper, subscribed>>

WriteFile ==
  /\ At("write")
  /\ \/ file' = admin.config /\ Answer("created")
     \/ Answer("failed") /\ UNCHANGED file
  /\ UNCHANGED <<engine, configuration, sink, mapper, subscribed>>

----------------------------------------------------------------------------
\* The catch block of the POST

\* restoreConfiguration wipes the engine and applies the previous
\* configuration to it, under the engine's lock.  It sets neither the
\* configuration nor the sink, unless it fails.
RestoreEngine ==
  LET p    == admin.previous
      all  == Ins[p] \cup Outs[p]
      list == Statements[p]
  IN
  /\ At("restore")
  /\ \/ /\ ~Clash(all) /\ AllCompile(list, {}, all)
        /\ types' = all /\ statements' = Range(list)
        /\ UNCHANGED configuration
     \/ /\ ~Clash(all) /\ types' = all
        /\ \E i \in DOMAIN list :
             FirstRefused(list, i, {}, all) /\ statements' = RunningBefore(list, i, {})
        /\ configuration' = None
     \/ /\ Clash(all) /\ statements' = {}
        /\ \E S \in SUBSET all : ~Clash(S) /\ types' = S
        /\ configuration' = None
  /\ Goto("restoreMapper")
  /\ UNCHANGED <<sink, mapper, subscribed, file, answer>>

\* A second exception leaves the catch block.
RestoreMapper ==
  /\ At("restoreMapper")
  /\ \/ /\ admin.previous \notin BadPath
        /\ mapper' = admin.previous
        /\ Goto("restoreSubscriptions")
        /\ UNCHANGED answer
     \/ /\ admin.previous \in BadPath
        /\ Answer("rejected")
        /\ UNCHANGED mapper
  /\ UNCHANGED <<engine, configuration, sink, subscribed, file>>

RestoreSubscriptions ==
  /\ At("restoreSubscriptions")
  /\ subscribed' = admin.previous
  /\ Answer("rejected")
  /\ UNCHANGED <<engine, configuration, sink, mapper, file>>

----------------------------------------------------------------------------
\* DELETE /v1/admin/config: the engine is reset and the file deleted; the
\* mapper, the sink and the subscriptions are left as they are.

DeleteRequest ==
  /\ At("idle")
  /\ admin' = [op |-> "delete", config |-> None, previous |-> None, found |-> {}, at |-> "reset"]
  /\ UNCHANGED <<engine, configuration, sink, mapper, subscribed, file, answer>>

ResetEngine ==
  /\ At("reset")
  /\ types' = {} /\ statements' = {}
  /\ configuration' = None
  /\ Goto("delete")
  /\ UNCHANGED <<sink, mapper, subscribed, file, answer>>

DeleteFile ==
  /\ At("delete")
  /\ file' = None
  /\ Answer("deleted")
  /\ UNCHANGED <<engine, configuration, sink, mapper, subscribed>>

\* The process dies, at any point, and starts again: Init.java loads the file
\* if there is one that can be read.
Restart ==
  /\ types' = {} /\ statements' = {}
  /\ configuration' = None /\ sink' = None /\ mapper' = None /\ subscribed' = None
  /\ admin' = IF file \in Config
                THEN [op |-> "start", config |-> file, previous |-> None, found |-> {},
                      at |-> "mapper"]
                ELSE [op |-> "start", config |-> None, previous |-> None, found |-> {},
                      at |-> "idle"]
  /\ answer' = "none"
  /\ UNCHANGED file

----------------------------------------------------------------------------

Next ==
  \/ \E c \in Config : PostConfiguration(c)
  \/ ApplyIns \/ ApplyOuts \/ ApplyStatements \/ AdoptConfiguration
  \/ SetMapper \/ SetSubscriptions \/ OpenFile \/ WriteFile
  \/ RestoreEngine \/ RestoreMapper \/ RestoreSubscriptions
  \/ DeleteRequest \/ ResetEngine \/ DeleteFile
  \/ Restart

Spec == Init /\ [][Next]_vars

----------------------------------------------------------------------------
\* Properties

\* Every variable holds values of its kind.
TypeOK ==
  /\ types \subseteq EventType
  /\ statements \subseteq Statement
  /\ {configuration, sink, mapper, subscribed} \subseteq ConfigOrNone
  /\ file \in ConfigOrNone \cup {Partial}
  /\ admin \in [op : Operation, config : ConfigOrNone, previous : ConfigOrNone,
                found : SUBSET Statement, at : Stage]
  /\ answer \in {"none", "created", "rejected", "failed", "deleted"}

Runs(c) ==
  statements = Range(Statements[c]) /\ \A s \in statements : Uses[s] \subseteq NamesOf(types)

\* A POST answered 201 Created is in force in every part, whatever was refused,
\* half restored or half written before: the engine runs its statements over
\* their event types, and processor, sink, mapper, subscriptions and file all
\* have it.
CreatedIsInForce ==
  At("idle") /\ answer = "created" =>
    /\ Runs(admin.config)
    /\ {configuration, sink, mapper, subscribed, file} = {admin.config}

\* A POST that is refused, at whichever step, leaves the engine running exactly
\* the statements it ran when the POST began, or restoring failed and GET says
\* that there is no configuration.  This is for a POST over a configuration that
\* was in force; over one that the mapper had refused, PreviousIsRestored below.
RejectedRestoresEngine ==
  At("idle") /\ answer = "rejected" /\ admin.previous \in Config \ BadPath =>
    \/ statements = admin.found /\ Runs(admin.previous)
    \/ configuration = None

\* A configuration is persisted once it is in force, never before ("Once the
\* new configuration has been successfully applied to the CEP, the
\* configuration is persisted on disk", doc/cep/index.md 47).
PersistedOnceApplied ==
  [][file' \in Config /\ file' # file =>
       Runs(file') /\ {configuration, sink, mapper, subscribed} = {file'}]_vars

\* Its event types have one definition each, and each of its statements uses
\* what it declares, variables by a statement earlier in the document.
SelfContained(c) ==
  LET all == Ins[c] \cup Outs[c] IN ~Clash(all) /\ AllCompile(Statements[c], {}, all)

\* After a restart the last persisted configuration is in force again, if it
\* is self contained ("it will automatically load the last configuration on
\* startup", doc/cep/index.md 48).
RestartReloads ==
  At("idle") /\ Starting /\ file \in Config /\ SelfContained(file) =>
    Runs(file) /\ {configuration, sink, mapper, subscribed} = {file}

\* As the document says it, of every configuration that was persisted.  One
\* whose statements compiled only because of what the engine had from the
\* configurations before it is accepted and saved, and refused by the startup.
PersistedAlwaysReloads ==
  At("idle") /\ Starting /\ file \in Config => Runs(file)

\* "in case of configuration error try to restore the previous configuration if
\* any" (AdminController.java 87-88): after a refused POST the engine runs what
\* it ran before, or there is no configuration.  After a POST that the mapper
\* refuses, the processor's configuration stays the refused one, and the next
\* refusal restores that.
PreviousIsRestored ==
  At("idle") /\ answer = "rejected" /\ admin.previous # None =>
    statements = admin.found \/ configuration = None

\* Of the same comment: after a refused POST, GET answers the configuration that
\* was in force before, or none if restoring it failed.
RejectedKeepsConfiguration ==
  At("idle") /\ answer = "rejected" /\ admin.previous # None =>
    configuration \in {admin.previous, None}
=============================================================================
