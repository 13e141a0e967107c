------------------------- MODULE ContextServerProofs -------------------------
(***************************************************************************)
(* Proofs about ContextServer and the calls of NgsiService it makes, for   *)
(* any requests, handlers, devices and answers: their types; that with     *)
(* authentication enabled only calls with a trust reach the broker; that   *)
(* an update answered 200 has put PENDING at the broker for each of its    *)
(* commands; and that the broker is told PENDING only for commands that    *)
(* were handed out.                                                        *)
(*                                                                         *)
(* A plan is made by flattening the actions of the elements, so the first  *)
(* part says what FlattenSeq and SetToSeq compute.                         *)
(*                                                                         *)
(* The last part is about the library that starts and stops this server:   *)
(* Lifecycle and the Statistics it extends.                                *)
(***************************************************************************)
EXTENDS ContextServer, Lifecycle, Integers, FiniteSetTheorems, SequenceTheorems,
        WellFoundedInduction, TLAPS

---------------------------------------------------------------------------
(* What the operators on sequences compute.                                *)

LEMMA LeastNat ==
  ASSUME NEW T \in SUBSET Nat, T # {}
  PROVE  \E x \in T : \A y \in T : x <= y
<1> DEFINE R == {ss \in Nat \X Nat : ss[1] < ss[2]}
<1>1. IsWellFoundedOn(R, Nat)
  BY NatLessThanWellFounded DEF OpToRel
<1>2. PICK x \in T : \A y \in T : ~ (<<y, x>> \in R)
  <2> HIDE DEF R
  <2> QED
    BY <1>1, WFMin, Zenon
<1>3. ASSUME NEW y \in T PROVE x <= y
  <2>1. ~ (y < x)
    BY <1>2
  <2> QED
    BY <2>1
<1> QED
  BY <1>3

(* A set of numbers that holds 1 and is closed under + 1 up to n holds n.  *)
LEMMA Reaches ==
  ASSUME NEW n \in Nat \ {0}, NEW T, 1 \in T,
         \A m \in 1 .. (n - 1) : m \in T => m + 1 \in T
  PROVE  n \in T
<1> SUFFICES ASSUME n \notin T PROVE FALSE
  OBVIOUS
<1> DEFINE Missed == {m \in 1 .. n : m \notin T}
<1>1. Missed \in SUBSET Nat /\ Missed # {}
  OBVIOUS
<1>2. PICK m \in Missed : \A k \in Missed : m <= k
  BY <1>1, LeastNat
<1>3. m # 1 /\ m - 1 \in 1 .. (n - 1) /\ m - 1 \notin Missed
  BY <1>2
<1>4. m - 1 \in T /\ (m - 1) + 1 = m
  BY <1>3
<1> QED
  BY <1>2, <1>3, <1>4

(* t is found in F after the first o elements.                             *)
Placed(F, o, t) == o + Len(t) <= Len(F) /\ \A k \in 1 .. Len(t) : F[o + k] = t[k]

(* F is made of the first m sequences of s: each is found in it, and       *)
(* whatever is found in it belongs to one of them.                         *)
MadeOf(F, s, m) ==
    /\ \A i \in 1 .. m : \E o \in Nat : Placed(F, o, s[i])
    /\ \A p \in 1 .. Len(F) : \E i \in 1 .. m, o \in Nat :
         Placed(F, o, s[i]) /\ p - o \in 1 .. Len(s[i])

LEMMA PlacedAppend ==
  ASSUME NEW A, NEW F \in Seq(A), NEW t \in Seq(A), NEW u \in Seq(A), NEW o \in Nat
  PROVE  /\ Placed(F, o, t) => Placed(F \o u, o, t)
         /\ Placed(F \o u, Len(F), u)
<1>1. /\ F \o u \in Seq(A) /\ Len(F \o u) = Len(F) + Len(u)
      /\ \A k \in 1 .. Len(F) : (F \o u)[k] = F[k]
      /\ \A k \in 1 .. Len(u) : (F \o u)[Len(F) + k] = u[k]
  BY ConcatProperties
<1>2. Len(F) \in Nat /\ Len(t) \in Nat /\ Len(u) \in Nat
  OBVIOUS
<1> QED
  BY <1>1, <1>2 DEF Placed

LEMMA MadeOfAppend ==
  ASSUME NEW A, NEW n \in Nat \ {0}, NEW s \in [1 .. n -> Seq(A)], NEW m \in 1 .. (n - 1),
         NEW F \in Seq(A), MadeOf(F, s, m)
  PROVE  F \o s[m + 1] \in Seq(A) /\ MadeOf(F \o s[m + 1], s, m + 1)
<1> DEFINE u == s[m + 1]
           G == F \o u
<1>1. u \in Seq(A) /\ m + 1 \in 1 .. n /\ \A i \in 1 .. m : s[i] \in Seq(A)
  OBVIOUS
<1>2. G \in Seq(A) /\ Len(G) = Len(F) + Len(u) /\ Len(F) \in Nat /\ Len(u) \in Nat
  BY <1>1, ConcatProperties
<1>3. Placed(G, Len(F), u)
  BY <1>1, PlacedAppend
<1>4. \A i \in 1 .. m, o \in Nat : Placed(F, o, s[i]) => Placed(G, o, s[i])
  BY <1>1, PlacedAppend
<1> HIDE DEF G, u
<1>5. \A i \in 1 .. (m + 1) : \E o \in Nat : Placed(G, o, s[i])
  <2> SUFFICES ASSUME NEW i \in 1 .. (m + 1) PROVE \E o \in Nat : Placed(G, o, s[i])
    OBVIOUS
  <2>1. CASE i = m + 1
    BY <2>1, <1>2, <1>3 DEF u
  <2>2. CASE i \in 1 .. m
    BY <2>2, <1>4 DEF MadeOf
  <2> QED
    BY <2>1, <2>2
<1>6. ASSUME NEW p \in 1 .. Len(G)
      PROVE  \E i \in 1 .. (m + 1), o \in Nat : Placed(G, o, s[i]) /\ p - o \in 1 .. Len(s[i])
  <2>1. CASE p <= Len(F)
    <3>1. PICK i \in 1 .. m, o \in Nat : Placed(F, o, s[i]) /\ p - o \in 1 .. Len(s[i])
      BY <2>1, <1>2 DEF MadeOf
    <3>2. i \in 1 .. (m + 1) /\ Placed(G, o, s[i])
      BY <3>1, <1>4
    <3> QED
      BY <3>1, <3>2
  <2>2. CASE p > Len(F)
    <3>1. p - Len(F) \in 1 .. Len(u) /\ Placed(G, Len(F), s[m + 1]) /\ m + 1 \in 1 .. (m + 1)
      BY <2>2, <1>2, <1>3 DEF u
    <3> QED
      BY <3>1, <1>2 DEF u
  <2> QED
    BY <2>1, <2>2, <1>2
<1> QED
  BY <1>2, <1>5, <1>6 DEF MadeOf, G, u

Flattens(f, s, n) == f = [i \in 1 .. n |-> IF i = 1 THEN s[i] ELSE f[i - 1] \o s[i]]

LEMMA FlattenExists ==
  ASSUME NEW s, NEW n \in Nat \ {0}
  PROVE  \E f : Flattens(f, s, n)
<1> DEFINE T == {m \in Nat : \E f : Flattens(f, s, m)}
<1>1. 1 \in T
  <2>1. Flattens([i \in 1 .. 1 |-> s[i]], s, 1)
    BY DEF Flattens
  <2> QED
    BY <2>1
<1>2. ASSUME NEW m \in 1 .. (n - 1), m \in T PROVE m + 1 \in T
  <2>1. PICK f : Flattens(f, s, m)
    BY <1>2
  <2> DEFINE g == [i \in 1 .. (m + 1) |-> IF i <= m THEN f[i] ELSE f[m] \o s[i]]
  <2>2. ASSUME NEW i \in 1 .. (m + 1)
        PROVE  g[i] = IF i = 1 THEN s[i] ELSE g[i - 1] \o s[i]
    <3>1. CASE i = m + 1
      BY <3>1
    <3>2. CASE i \in 1 .. m
      <4>1. f[i] = IF i = 1 THEN s[i] ELSE f[i - 1] \o s[i]
        BY <2>1, <3>2 DEF Flattens
      <4> QED
        BY <3>2, <4>1
    <3> QED
      BY <3>1, <3>2
  <2> DEFINE h == [i \in 1 .. (m + 1) |-> IF i = 1 THEN s[i] ELSE g[i - 1] \o s[i]]
  <2>3. g = h
    <3>1. DOMAIN g = 1 .. (m + 1) /\ DOMAIN h = 1 .. (m + 1)
      OBVIOUS
    <3>2. \A i \in 1 .. (m + 1) : g[i] = h[i]
      BY <2>2
    <3>3. g = [i \in 1 .. (m + 1) |-> g[i]] /\ h = [i \in 1 .. (m + 1) |-> h[i]]
      BY <3>1
    <3> HIDE DEF g, h
    <3> QED
      BY <3>2, <3>3
  <2>4. Flattens(g, s, m + 1)
    BY <2>3 DEF Flattens
  <2> HIDE DEF g
  <2> QED
    BY <2>4
<1> HIDE DEF T
<1>3. n \in T
  BY <1>1, <1>2, Reaches
<1> QED
  BY <1>3 DEF T

(* FlattenSeq puts the sequences one after the other.                      *)
LEMMA FlattenMadeOf ==
  ASSUME NEW A, NEW n \in Nat \ {0}, NEW s \in [1 .. n -> Seq(A)]
  PROVE  FlattenSeq(s) \in Seq(A) /\ MadeOf(FlattenSeq(s), s, n)
<1> DEFINE f == CHOOSE g : Flattens(g, s, n)
<1>1. Len(s) = n
  OBVIOUS
<1>2. Flattens(f, s, n)
  BY FlattenExists
<1>3. FlattenSeq(s) = f[n]
  BY <1>1 DEF FlattenSeq, Flattens
<1> HIDE DEF f
<1> DEFINE T == {m \in 1 .. n : f[m] \in Seq(A) /\ MadeOf(f[m], s, m)}
<1>4. 1 \in T
  <2>1. f[1] = s[1] /\ s[1] \in Seq(A)
    BY <1>2 DEF Flattens
  <2>2. Placed(s[1], 0, s[1])
    BY <2>1 DEF Placed
  <2>3. MadeOf(s[1], s, 1)
    BY <2>1, <2>2 DEF MadeOf
  <2> QED
    BY <2>1, <2>3
<1>5. ASSUME NEW m \in 1 .. (n - 1), m \in T PROVE m + 1 \in T
  <2>1. m + 1 \in 1 .. n /\ m + 1 # 1 /\ (m + 1) - 1 = m
    OBVIOUS
  <2>2. f[m + 1] = IF m + 1 = 1 THEN s[m + 1] ELSE f[(m + 1) - 1] \o s[m + 1]
    BY <1>2, <2>1 DEF Flattens
  <2>3. f[m + 1] = f[m] \o s[m + 1]
    BY <2>1, <2>2
  <2>4. f[m] \in Seq(A) /\ MadeOf(f[m], s, m)
    BY <1>5
  <2>5. f[m] \o s[m + 1] \in Seq(A) /\ MadeOf(f[m] \o s[m + 1], s, m + 1)
    BY <2>4, MadeOfAppend
  <2> QED
    BY <2>1, <2>3, <2>5
<1> HIDE DEF T
<1>6. n \in T
  BY <1>4, <1>5, Reaches
<1> QED
  BY <1>3, <1>6 DEF T

(* SetToSeq lists a finite set.                                            *)
LEMMA SetToSeqLists ==
  ASSUME NEW S, IsFiniteSet(S)
  PROVE  /\ SetToSeq(S) \in Seq(S)
         /\ \A x \in S : \E k \in 1 .. Len(SetToSeq(S)) : SetToSeq(S)[k] = x
<1> DEFINE n == Cardinality(S)
<1>1. n \in Nat /\ ExistsBijection(1 .. n, S)
  BY FS_CardinalityType
<1>2. \E f \in [1 .. n -> S] : IsInjective(f)
  BY <1>1 DEF ExistsBijection, Bijection, Injection
<1>3. SetToSeq(S) \in [1 .. n -> S] /\ IsInjective(SetToSeq(S))
  BY <1>2 DEF SetToSeq
<1>4. SetToSeq(S) \in Injection(1 .. n, S)
  BY <1>3 DEF Injection
<1>5. IsFiniteSet(1 .. n) /\ Cardinality(1 .. n) = n
  BY <1>1, FS_Interval
<1>6. SetToSeq(S) \in Surjection(1 .. n, S)
  BY <1>4, <1>5, FS_Injection
<1>7. SetToSeq(S) \in Seq(S) /\ Len(SetToSeq(S)) = n
  BY <1>1, <1>3
<1> QED
  BY <1>6, <1>7 DEF Surjection

---------------------------------------------------------------------------
(* The calls.                                                              *)

(* A call that has not been sent is not at the broker.                     *)
Unsent ==
    \A c \in Call : Phase(c) \in {"idle", "lookup", "token"} =>
        c \notin wire /\ status[c[3]][c[4]] # c

(* With authentication, a call that goes on has found a trust.             *)
Trusted ==
    authentication => \A c \in Call :
        \/ Phase(c) \in {"token", "sent", "accepted", "refused"}
        \/ c \in wire
        \/ status[c[3]][c[4]] = c
        => HasTrust(c)

CallsInv == Unsent /\ Trusted

---------------------------------------------------------------------------
(* The requests.                                                           *)

PendingAction(i, x) == [do |-> "pending", element |-> i, command |-> x]
Named(r, i) == DeviceCommands[Element(r, i).id] \intersect ToSet(Element(r, i).names)

(* What has a request's phase to do with its kind and its plan.            *)
Fits(q) ==
    /\ q.phase = "idle" => q = Idle
    /\ q.phase # "idle" => q.kind # "none"
    /\ q.kind # "notify" => q.parts = <<>>
    /\ q.phase \in {"lookedUp", "running"} => q.kind \in {"update", "query"}
    /\ q.phase \in {"lookedUp", "running", "ok"} /\ q.kind = "update" =>
         \A i \in DOMAIN q.body : Registered(q.body[i].id)
    /\ q.phase = "lookedUp" => q.plan = <<>>
    /\ q.at <= Len(q.plan)

(* The plan of an update: PENDING for the named commands only, each after  *)
(* its command handler if there is one, ...                                *)
PlanSound(r) ==
    \A k \in DOMAIN requests[r].plan : LET a == requests[r].plan[k] IN
        a.do = "pending" =>
            /\ requests[r].kind = "update"
            /\ a.element \in DOMAIN requests[r].body
            /\ a.command \in Named(r, a.element)
            /\ \/ \E j \in 1 .. k : requests[r].plan[j] = HandlerAction("command", a.element)
               \/ \A j \in DOMAIN requests[r].plan : requests[r].plan[j].do # "command"

(* ... and for all of them.                                                *)
PlanComplete(r) ==
    requests[r].kind = "update" /\ requests[r].phase \in {"running", "ok"} =>
        \A i \in DOMAIN requests[r].body : \A x \in Named(r, i) :
            \E k \in DOMAIN requests[r].plan : requests[r].plan[k] = PendingAction(i, x)

PendingAt(r, k) == requests[r].plan[k].do = "pending"
CallAt(r, k) == PendingCall(r, requests[r].plan[k])

(* What lies behind a running request is at the broker; all of it, once    *)
(* the request has been answered 200.                                      *)
BehindIsDone(r) ==
    /\ Running(r) => \A k \in DOMAIN requests[r].plan :
         k < requests[r].at /\ PendingAt(r, k) => Phase(CallAt(r, k)) = "ok"
    /\ requests[r].phase = "ok" => \A k \in DOMAIN requests[r].plan :
         PendingAt(r, k) => Phase(CallAt(r, k)) = "ok"

(* A PENDING call was made by a step of the plan, and is awaited by the    *)
(* current one until it is settled.                                        *)
MadeByPlan(c) ==
    ~ IsResult(c) =>
        /\ Phase(c) # "idle" => \E k \in DOMAIN requests[c[2]].plan :
             k <= requests[c[2]].at /\ PendingAt(c[2], k) /\ c = CallAt(c[2], k)
        /\ Phase(c) \notin {"idle"} \union Settled => PendingDue(c)

RequestsInv ==
    /\ \A r \in Requests :
         Fits(requests[r]) /\ PlanSound(r) /\ PlanComplete(r) /\ BehindIsDone(r)
    /\ \A c \in Call : MadeByPlan(c)

---------------------------------------------------------------------------
(* What a plan is made of.                                                 *)

(* The actions of one element, and a request that has any.                 *)
ActionsOf(r, i) ==
    IF requests[r].kind = "update" THEN UpdateActions(r, i) ELSE <<HandlerAction("query", i)>>
Planned(r) ==
    /\ requests[r].kind \in {"update", "query"}
    /\ requests[r].kind = "update" =>
         \A i \in DOMAIN requests[r].body : Registered(requests[r].body[i].id)

LEMMA BodyIsASequence ==
  ASSUME TypeOK, NEW r \in Requests, Planned(r)
  PROVE  /\ Len(requests[r].body) \in Nat
         /\ DOMAIN requests[r].body = 1 .. Len(requests[r].body)
         /\ \A i \in DOMAIN requests[r].body :
              /\ i \in Nat
              /\ IsFiniteSet(ToSet(Element(r, i).names))
<1>1. requests[r].body \in Bodies[r][requests[r].kind] /\ requests[r].kind \in Kinds
  BY DEF TypeOK, Planned, Kinds
<1>2. /\ requests[r].body \in Seq(ToSet(requests[r].body))
      /\ \A i \in DOMAIN requests[r].body :
           requests[r].body[i].names \in Seq(ToSet(requests[r].body[i].names))
  BY <1>1, ContextAssumption
<1>3. ASSUME NEW i \in DOMAIN requests[r].body
      PROVE  IsFiniteSet(ToSet(Element(r, i).names))
  <2> DEFINE names == Element(r, i).names
             S == ToSet(names)
  <2>1. names \in Seq(S)
    BY <1>2 DEF Element
  <2>2. names \in [1 .. Len(names) -> S] /\ Len(names) \in Nat /\ DOMAIN names = 1 .. Len(names)
    BY <2>1, LenProperties
  <2>3. \A x \in S : \E k \in 1 .. Len(names) : names[k] = x
    BY <2>2 DEF ToSet
  <2> HIDE DEF S
  <2>4. names \in Surjection(1 .. Len(names), S)
    BY <2>2, <2>3 DEF Surjection
  <2>5. IsFiniteSet(1 .. Len(names))
    BY <2>2, FS_Interval
  <2>6. IsFiniteSet(S)
    BY <2>4, <2>5, FS_Surjection
  <2> QED
    BY <2>6 DEF S
<1> QED
  BY <1>2, <1>3

(* The PENDING updates of an element are for the commands it names.        *)
LEMMA SideEffectsAre ==
  ASSUME TypeOK, NEW r \in Requests, Planned(r), requests[r].kind = "update",
         NEW i \in DOMAIN requests[r].body
  PROVE  /\ SideEffects(r, i) \in Seq(Actions)
         /\ \A k \in 1 .. Len(SideEffects(r, i)) :
              \E x \in Named(r, i) : SideEffects(r, i)[k] = PendingAction(i, x)
         /\ \A x \in Named(r, i) : \E k \in 1 .. Len(SideEffects(r, i)) :
              SideEffects(r, i)[k] = PendingAction(i, x)
<1> DEFINE n == SetToSeq(Named(r, i))
           s == [k \in DOMAIN n |-> PendingAction(i, n[k])]
<1>1. i \in Nat /\ IsFiniteSet(ToSet(Element(r, i).names))
  BY BodyIsASequence
<1>2. Element(r, i).id \in Devices
  BY DEF Planned, Registered, Element
<1>3. IsFiniteSet(Named(r, i))
  BY <1>1, FS_Intersection DEF Named
<1>4. Named(r, i) \subseteq Commands
  BY <1>2, NgsiAssumption DEF Named
<1>5. /\ n \in Seq(Named(r, i))
      /\ \A x \in Named(r, i) : \E k \in 1 .. Len(n) : n[k] = x
  BY <1>3, SetToSeqLists
<1>6. SideEffects(r, i) = s
  BY DEF SideEffects, Named, PendingAction
<1> HIDE DEF n
<1>7. Len(n) \in Nat /\ DOMAIN n = 1 .. Len(n) /\ \A k \in 1 .. Len(n) : n[k] \in Named(r, i)
  BY <1>5, LenProperties, ElementOfSeq
<1>8. \A x \in Named(r, i) : PendingAction(i, x) \in Actions
  BY <1>1, <1>4 DEF PendingAction, Actions
<1>9. s \in [1 .. Len(n) -> Actions]
  BY <1>7, <1>8
<1>10. s \in Seq(Actions) /\ Len(s) = Len(n) /\ \A k \in 1 .. Len(n) : s[k] = PendingAction(i, n[k])
  BY <1>7, <1>9
<1> HIDE DEF s
<1> QED
  BY <1>5, <1>6, <1>7, <1>10

(* The actions of an element: PENDING for each command it names, and the   *)
(* command handler second, before them, if there is one.                   *)
LEMMA ActionsAre ==
  ASSUME TypeOK, NEW r \in Requests, Planned(r), NEW i \in DOMAIN requests[r].body
  PROVE  LET a == ActionsOf(r, i) IN
         /\ a \in Seq(Actions)
         /\ \A k \in 1 .. Len(a) :
              /\ a[k].do = "pending" =>
                   /\ requests[r].kind = "update"
                   /\ a[k].element = i
                   /\ a[k].command \in Named(r, i)
                   /\ "command" \in handlers => 2 < k /\ a[2] = HandlerAction("command", i)
              /\ a[k].do = "command" => "command" \in handlers
         /\ requests[r].kind = "update" =>
              \A x \in Named(r, i) : \E k \in 1 .. Len(a) : a[k] = PendingAction(i, x)
<1> DEFINE a == ActionsOf(r, i)
<1>1. i \in Nat
  BY BodyIsASequence
<1>2. \A name \in {"update", "command", "query"} : HandlerAction(name, i) \in Actions
  BY <1>1 DEF HandlerAction, Actions
<1>3. CASE requests[r].kind # "update"
  <2>1. a = <<HandlerAction("query", i)>>
    BY <1>3 DEF ActionsOf
  <2>2. a \in Seq(Actions) /\ Len(a) = 1 /\ a[1] = HandlerAction("query", i)
    BY <2>1, <1>2
  <2> HIDE DEF a
  <2>3. \A k \in 1 .. Len(a) : a[k].do = "query"
    BY <2>2 DEF HandlerAction
  <2> QED
    BY <1>3, <2>2, <2>3 DEF a
<1>4. CASE requests[r].kind = "update"
  <2> DEFINE s == SideEffects(r, i)
             u == <<HandlerAction("update", i)>>
             c == <<HandlerAction("command", i)>>
  <2>1. /\ s \in Seq(Actions)
        /\ \A k \in 1 .. Len(s) : \E x \in Named(r, i) : s[k] = PendingAction(i, x)
        /\ \A x \in Named(r, i) : \E k \in 1 .. Len(s) : s[k] = PendingAction(i, x)
    BY <1>4, SideEffectsAre
  <2>2. a = u \o (IF "command" \in handlers THEN c ELSE <<>>) \o s
    BY <1>4 DEF ActionsOf, UpdateActions
  <2>3. /\ u \in Seq(Actions) /\ Len(u) = 1 /\ u[1] = HandlerAction("update", i)
        /\ c \in Seq(Actions) /\ Len(c) = 1 /\ c[1] = HandlerAction("command", i)
    BY <1>2
  <2>4. \A x : PendingAction(i, x).do = "pending" /\ PendingAction(i, x).element = i
               /\ PendingAction(i, x).command = x
    BY DEF PendingAction
  <2>5. HandlerAction("update", i).do = "update" /\ HandlerAction("command", i).do = "command"
    BY DEF HandlerAction
  <2> HIDE DEF a, s, u, c
  <2>6. Len(s) \in Nat
    BY <2>1, LenProperties
  <2>7. CASE "command" \in handlers
    <3>1. a = (u \o c) \o s
      BY <2>2, <2>7
    <3>2. /\ u \o c \in Seq(Actions) /\ Len(u \o c) = 2
          /\ (u \o c)[1] = u[1] /\ (u \o c)[2] = c[1]
      BY <2>3, ConcatProperties
    <3>3. /\ a \in Seq(Actions) /\ Len(a) = 2 + Len(s)
          /\ \A k \in 1 .. (2 + Len(s)) : a[k] = IF k <= 2 THEN (u \o c)[k] ELSE s[k - 2]
      BY <2>1, <3>1, <3>2, ConcatProperties
    <3>4. /\ a[1] = HandlerAction("update", i) /\ a[2] = HandlerAction("command", i)
          /\ \A k \in 1 .. Len(s) : a[k + 2] = s[k] /\ k + 2 \in 1 .. Len(a)
          /\ \A k \in 1 .. Len(a) : k = 1 \/ k = 2 \/ (2 < k /\ k - 2 \in 1 .. Len(s) /\ a[k] = s[k - 2])
      BY <2>3, <2>6, <3>2, <3>3
    <3>5. ASSUME NEW k \in 1 .. Len(a), a[k].do = "pending"
          PROVE  a[k].element = i /\ a[k].command \in Named(r, i) /\ 2 < k
      <4>1. k # 1 /\ k # 2
        BY <2>5, <3>4, <3>5
      <4>2. 2 < k /\ k - 2 \in 1 .. Len(s) /\ a[k] = s[k - 2]
        BY <3>4, <4>1
      <4>3. PICK x \in Named(r, i) : s[k - 2] = PendingAction(i, x)
        BY <2>1, <4>2
      <4> QED
        BY <2>4, <4>2, <4>3
    <3>6. \A x \in Named(r, i) : \E k \in 1 .. Len(a) : a[k] = PendingAction(i, x)
      BY <2>1, <3>4
    <3> QED
      BY <1>4, <2>7, <3>3, <3>4, <3>5, <3>6 DEF a
  <2>8. CASE "command" \notin handlers
    <3>1. u \o <<>> = u
      BY <2>3, ConcatEmptySeq
    <3>2. a = u \o s
      BY <2>2, <2>8, <3>1
    <3>3. /\ a \in Seq(Actions) /\ Len(a) = 1 + Len(s)
          /\ \A k \in 1 .. (1 + Len(s)) : a[k] = IF k <= 1 THEN u[k] ELSE s[k - 1]
      <4>1. s \in Seq(Actions) /\ u \in Seq(Actions) /\ Len(u) = 1
        BY <2>1, <2>3
      <4>2. /\ u \o s \in Seq(Actions) /\ Len(u \o s) = Len(u) + Len(s)
            /\ \A k \in 1 .. (Len(u) + Len(s)) :
                 (u \o s)[k] = IF k <= Len(u) THEN u[k] ELSE s[k - Len(u)]
        BY <4>1, ConcatProperties
      <4> QED
        BY <3>2, <4>1, <4>2
    <3>4. /\ a[1] = HandlerAction("update", i)
          /\ \A k \in 1 .. Len(s) : a[k + 1] = s[k] /\ k + 1 \in 1 .. Len(a)
          /\ \A k \in 1 .. Len(a) : k = 1 \/ (k - 1 \in 1 .. Len(s) /\ a[k] = s[k - 1])
      BY <2>3, <2>6, <3>3
    <3>5. ASSUME NEW k \in 1 .. Len(a)
          PROVE  /\ a[k].do = "pending" => a[k].element = i /\ a[k].command \in Named(r, i)
                 /\ a[k].do # "command"
      <4>1. CASE k = 1
        BY <2>5, <3>4, <4>1
      <4>2. CASE k # 1
        <5>1. k - 1 \in 1 .. Len(s) /\ a[k] = s[k - 1]
          BY <3>4, <4>2
        <5>2. PICK x \in Named(r, i) : s[k - 1] = PendingAction(i, x)
          BY <2>1, <5>1
        <5> QED
          BY <2>4, <5>1, <5>2
      <4> QED
        BY <4>1, <4>2
    <3>6. \A x \in Named(r, i) : \E k \in 1 .. Len(a) : a[k] = PendingAction(i, x)
      BY <2>1, <3>4
    <3> QED
      BY <1>4, <2>8, <3>3, <3>5, <3>6 DEF a
  <2> QED
    BY <2>7, <2>8
<1> QED
  BY <1>3, <1>4

(* The plan of a request.                                                  *)
PlanOf(r) == FlattenSeq([i \in DOMAIN requests[r].body |-> ActionsOf(r, i)])

LEMMA PlanIs ==
  ASSUME TypeOK, NEW r \in Requests, Planned(r)
  PROVE  /\ PlanOf(r) \in Seq(Actions)
         /\ \A k \in DOMAIN PlanOf(r) : PlanOf(r)[k].do = "pending" =>
              /\ requests[r].kind = "update"
              /\ PlanOf(r)[k].element \in DOMAIN requests[r].body
              /\ PlanOf(r)[k].command \in Named(r, PlanOf(r)[k].element)
              /\ \/ \E j \in 1 .. k : PlanOf(r)[j] = HandlerAction("command", PlanOf(r)[k].element)
                 \/ \A j \in DOMAIN PlanOf(r) : PlanOf(r)[j].do # "command"
         /\ requests[r].kind = "update" =>
              \A i \in DOMAIN requests[r].body : \A x \in Named(r, i) :
                \E k \in DOMAIN PlanOf(r) : PlanOf(r)[k] = PendingAction(i, x)
<1> DEFINE n == Len(requests[r].body)
           s == [i \in DOMAIN requests[r].body |-> ActionsOf(r, i)]
           F == PlanOf(r)
<1>1. n \in Nat /\ DOMAIN requests[r].body = 1 .. n
  BY BodyIsASequence
<1>2. F = FlattenSeq(s) /\ s \in [1 .. n -> Seq(Actions)]
  BY <1>1, ActionsAre DEF PlanOf
<1>3. \A i \in 1 .. n : s[i] = ActionsOf(r, i)
  BY <1>1
<1>4. CASE n = 0
  <2>1. s = <<>> /\ Len(s) = 0
    BY <1>1, <1>4
  <2>2. F = <<>>
    BY <1>2, <2>1 DEF FlattenSeq
  <2> HIDE DEF F, s
  <2>3. F \in Seq(Actions) /\ DOMAIN F = {} /\ DOMAIN requests[r].body = {}
    BY <1>1, <1>4, <2>2
  <2> QED
    BY <2>3 DEF F
<1>5. CASE n # 0
  <2> HIDE DEF s, F, n
  <2>1. F \in Seq(Actions) /\ MadeOf(F, s, n)
    BY <1>1, <1>2, <1>5, FlattenMadeOf
  <2>2. Len(F) \in Nat /\ DOMAIN F = 1 .. Len(F)
    BY <2>1, LenProperties
  <2>3. ASSUME NEW k \in DOMAIN F
        PROVE  \E i \in 1 .. n, o \in Nat :
                 Placed(F, o, s[i]) /\ k - o \in 1 .. Len(s[i]) /\ F[k] = s[i][k - o]
    <3>1. PICK i \in 1 .. n, o \in Nat : Placed(F, o, s[i]) /\ k - o \in 1 .. Len(s[i])
      BY <2>1, <2>2 DEF MadeOf
    <3>2. F[o + (k - o)] = s[i][k - o] /\ o + (k - o) = k
      BY <2>2, <3>1 DEF Placed
    <3> QED
      BY <3>1, <3>2
  <2>4. ASSUME "command" \notin handlers, NEW k \in DOMAIN F PROVE F[k].do # "command"
    <3>1. PICK i \in 1 .. n, o \in Nat : k - o \in 1 .. Len(s[i]) /\ F[k] = s[i][k - o]
      BY <2>3, <2>4
    <3>2. i \in DOMAIN requests[r].body /\ s[i] = ActionsOf(r, i)
      BY <1>1, <1>3
    <3> QED
      BY <2>4, <3>1, <3>2, ActionsAre
  <2>5. ASSUME NEW k \in DOMAIN F, F[k].do = "pending"
        PROVE  /\ requests[r].kind = "update"
               /\ F[k].element \in DOMAIN requests[r].body
               /\ F[k].command \in Named(r, F[k].element)
               /\ \/ \E j \in 1 .. k : F[j] = HandlerAction("command", F[k].element)
                  \/ \A j \in DOMAIN F : F[j].do # "command"
    <3>1. PICK i \in 1 .. n, o \in Nat :
            Placed(F, o, s[i]) /\ k - o \in 1 .. Len(s[i]) /\ F[k] = s[i][k - o]
      BY <2>3
    <3>2. /\ requests[r].kind = "update" /\ F[k].element = i /\ F[k].command \in Named(r, i)
          /\ "command" \in handlers => 2 < k - o /\ s[i][2] = HandlerAction("command", i)
      BY <1>1, <1>3, <2>5, <3>1, ActionsAre
    <3>3. CASE "command" \in handlers
      <4>1. 2 \in 1 .. Len(s[i]) /\ o + 2 \in 1 .. k
        BY <1>2, <2>2, <3>1, <3>2, <3>3
      <4>2. F[o + 2] = HandlerAction("command", i)
        BY <3>1, <3>2, <3>3, <4>1 DEF Placed
      <4> QED
        BY <1>1, <3>2, <4>1, <4>2
    <3>4. CASE "command" \notin handlers
      BY <1>1, <2>4, <3>2, <3>4
    <3> QED
      BY <3>3, <3>4
  <2>6. ASSUME requests[r].kind = "update", NEW i \in DOMAIN requests[r].body, NEW x \in Named(r, i)
        PROVE  \E k \in DOMAIN F : F[k] = PendingAction(i, x)
    <3>1. PICK k \in 1 .. Len(s[i]) : s[i][k] = PendingAction(i, x)
      BY <1>1, <1>3, <2>6, ActionsAre
    <3>2. PICK o \in Nat : Placed(F, o, s[i])
      BY <1>1, <2>1 DEF MadeOf
    <3>3. Len(s[i]) \in Nat
      BY <1>1, <1>2, LenProperties
    <3>4. o + k \in 1 .. Len(F) /\ F[o + k] = s[i][k]
      BY <2>2, <3>1, <3>2, <3>3 DEF Placed
    <3> QED
      BY <2>2, <3>1, <3>4
  <2> QED
    BY <2>1, <2>5, <2>6 DEF F
<1> QED
  BY <1>4, <1>5

---------------------------------------------------------------------------
(* The steps of the calls.                                                 *)

Phases == {"idle", "lookup", "token", "sent", "accepted", "refused"} \union Settled

(* Nothing but call c moves, to phase p.                                   *)
CallGoesTo(c, p) ==
    /\ calls' = SetPhase(c, p)
    /\ calls' \in [Call -> [phase : Phases, given : BOOLEAN]]
    /\ calls'[c].phase = p
    /\ \A k \in Call : calls'[k].given = calls[k].given
    /\ \A k \in Call \ {c} : calls'[k] = calls[k]

LEMMA SetPhaseIs ==
  ASSUME NgsiTypeOK, NEW c \in Call, NEW p \in Phases, calls' = SetPhase(c, p)
  PROVE  CallGoesTo(c, p)
<1>1. calls \in [Call -> [phase : Phases, given : BOOLEAN]]
  BY DEF NgsiTypeOK, Phases
<1>2. calls' = [calls EXCEPT ![c].phase = p]
  BY DEF SetPhase
<1>3. calls' \in [Call -> [phase : Phases, given : BOOLEAN]]
  BY <1>1, <1>2
<1>4. calls'[c].phase = p /\ calls'[c].given = calls[c].given
  BY <1>1, <1>2
<1>5. \A k \in Call \ {c} : calls'[k] = calls[k]
  BY <1>1, <1>2
<1> QED
  BY <1>3, <1>4, <1>5 DEF CallGoesTo

LEMMA CallParts ==
  ASSUME NEW c \in Call
  PROVE  c[2] \in Requests /\ c[3] \in Devices /\ c[4] \in Commands
BY DEF Call

(* sendUpdateValue sends the request, or fails.                            *)
LEMMA SendEffect ==
  ASSUME NgsiTypeOK, NEW c \in Call, SendUpdateValue(c)
  PROVE  /\ \/ CallGoesTo(c, "sent") /\ wire' = wire \union {c}
            \/ CallGoesTo(c, "failed") /\ wire' = wire
         /\ measureRequests' \in Nat
<1>1. "sent" \in Phases /\ "failed" \in Phases
  BY DEF Phases, Settled
<1>2. measureRequests \in Nat
  BY DEF NgsiTypeOK
<1>3. measureRequests' \in Nat
  BY <1>2 DEF SendUpdateValue
<1>4. \/ calls' = SetPhase(c, "sent") /\ wire' = wire \union {c}
      \/ calls' = SetPhase(c, "failed") /\ wire' = wire
  BY DEF SendUpdateValue
<1> QED
  BY <1>1, <1>3, <1>4, SetPhaseIs

(* executeWithDeviceInformation, with authentication enabled, goes on only *)
(* with a trust, and then asks for a token first.                          *)
LEMMA ExecuteEffect ==
  ASSUME NgsiTypeOK, NEW c \in Call, ExecuteWithDeviceInformation(c)
  PROVE  /\ \/ ~ authentication /\ CallGoesTo(c, "sent") /\ wire' = wire \union {c}
            \/ HasTrust(c) /\ CallGoesTo(c, "token") /\ wire' = wire
            \/ \E p \in {"failed", "lost"} : CallGoesTo(c, p) /\ wire' = wire
         /\ measureRequests' \in Nat
<1>1. "token" \in Phases /\ "failed" \in Phases /\ "lost" \in Phases
  BY DEF Phases, Settled
<1>2. measureRequests \in Nat
  BY DEF NgsiTypeOK
<1>3. CASE ~ authentication
  BY <1>3, SendEffect DEF ExecuteWithDeviceInformation
<1>4. CASE authentication
  <2>1. /\ calls' = SetPhase(c, IF HasTrust(c) THEN "token"
                                ELSE IF KnowsType(c) THEN "failed" ELSE "lost")
        /\ wire' = wire /\ measureRequests' = measureRequests
    BY <1>4 DEF ExecuteWithDeviceInformation
  <2>2. CASE HasTrust(c)
    BY <1>1, <1>2, <2>1, <2>2, SetPhaseIs
  <2>3. CASE ~ HasTrust(c)
    BY <1>1, <1>2, <2>1, <2>3, SetPhaseIs
  <2> QED
    BY <2>2, <2>3
<1> QED
  BY <1>3, <1>4

(* What a step of a call does: it leaves its phase for a later one, sends  *)
(* the request or not, and from the lookup on needs a trust.               *)
LEMMA CallStepEffect ==
  ASSUME NgsiTypeOK, NEW c \in Call, CallStep(c)
  PROVE  /\ UNCHANGED <<authentication, updateMiddleware, status>>
         /\ measureRequests' \in Nat
         /\ Phase(c) \notin Settled
         /\ \E p \in {"token", "sent"} \union Settled :
              /\ CallGoesTo(c, p)
              /\ wire' = wire \/ (p = "sent" /\ wire' = wire \union {c})
              /\ p = "token" => Phase(c) \in {"idle", "lookup"}
              /\ Phase(c) \in {"idle", "lookup"} /\ p \in {"token", "sent"} =>
                   ~ authentication \/ HasTrust(c)
              /\ p = "sent" => Phase(c) \in {"idle", "lookup", "token"}
<1>1. CASE GroupFound(c)
  <2>1. Phase(c) \in {"idle", "lookup"}
    BY <1>1 DEF GroupFound
  <2>2. UNCHANGED <<authentication, updateMiddleware, status>>
    BY <1>1 DEF GroupFound
  <2>3. \/ ExecuteWithDeviceInformation(c)
        \/ /\ \E p \in {"failed", "lost"} : calls' = SetPhase(c, p)
           /\ wire' = wire /\ measureRequests' = measureRequests
    BY <1>1 DEF GroupFound, SetCommandResult
  <2>4. measureRequests \in Nat /\ "failed" \in Phases /\ "lost" \in Phases
    BY DEF NgsiTypeOK, Phases, Settled
  <2>6. \A p \in Phases : calls' = SetPhase(c, p) => CallGoesTo(c, p)
    BY SetPhaseIs
  <2>5. /\ \/ ~ authentication /\ CallGoesTo(c, "sent") /\ wire' = wire \union {c}
           \/ HasTrust(c) /\ CallGoesTo(c, "token") /\ wire' = wire
           \/ \E p \in {"failed", "lost"} : CallGoesTo(c, p) /\ wire' = wire
        /\ measureRequests' \in Nat
    <3>1. CASE ExecuteWithDeviceInformation(c)
      BY <3>1, ExecuteEffect
    <3>2. CASE \E p \in {"failed", "lost"} : calls' = SetPhase(c, p) /\ wire' = wire /\ measureRequests' = measureRequests
      BY <3>2, <2>4, <2>6
    <3> QED
      BY <2>3, <3>1, <3>2
  <2> QED
    BY <2>1, <2>2, <2>5 DEF Settled
<1>2. CASE TokenAnswered(c)
  <2>1. Phase(c) = "token" /\ UNCHANGED <<authentication, updateMiddleware, status>>
    BY <1>2 DEF TokenAnswered
  <2>2. \/ SendUpdateValue(c)
        \/ calls' = SetPhase(c, "failed") /\ wire' = wire /\ measureRequests' = measureRequests
    BY <1>2 DEF TokenAnswered
  <2>3. measureRequests \in Nat /\ "failed" \in Phases
    BY DEF NgsiTypeOK, Phases, Settled
  <2>5. \A p \in Phases : calls' = SetPhase(c, p) => CallGoesTo(c, p)
    BY SetPhaseIs
  <2>4. /\ \/ CallGoesTo(c, "sent") /\ wire' = wire \union {c}
           \/ CallGoesTo(c, "failed") /\ wire' = wire
        /\ measureRequests' \in Nat
    <3>1. CASE SendUpdateValue(c)
      BY <3>1, SendEffect
    <3>2. CASE calls' = SetPhase(c, "failed") /\ wire' = wire /\ measureRequests' = measureRequests
      BY <3>2, <2>3, <2>5
    <3> QED
      BY <2>2, <3>1, <3>2
  <2> QED
    BY <2>1, <2>4 DEF Settled
<1>3. CASE OperationHandler(c)
  <2>1. /\ Phase(c) \in {"sent", "accepted", "refused"}
        /\ UNCHANGED <<authentication, updateMiddleware, wire, status, measureRequests>>
        /\ \E p \in {"ok", "failed"} : calls' = SetPhase(c, p)
    BY <1>3 DEF OperationHandler
  <2>2. measureRequests \in Nat /\ "failed" \in Phases /\ "ok" \in Phases
    BY DEF NgsiTypeOK, Phases, Settled
  <2>4. \A p \in Phases : calls' = SetPhase(c, p) => CallGoesTo(c, p)
    BY SetPhaseIs
  <2>3. \E p \in {"ok", "failed"} : CallGoesTo(c, p)
    BY <2>1, <2>2, <2>4
  <2> QED
    BY <2>1, <2>2, <2>3 DEF Settled
<1> QED
  BY <1>1, <1>2, <1>3 DEF CallStep

(* What the broker does with a request: it writes the attribute or not,    *)
(* and whoever still waits is told so.                                     *)
LEMMA BrokerEffect ==
  ASSUME NgsiTypeOK, NEW c \in Call, BrokerUpdates(c)
  PROVE  /\ c \in wire /\ wire' = wire \ {c}
         /\ UNCHANGED <<authentication, updateMiddleware, measureRequests>>
         /\ calls' = calls \/ (Phase(c) = "sent" /\ \E p \in {"accepted", "refused"} : CallGoesTo(c, p))
         /\ status' \in [Devices -> [Commands -> Call \union {Nobody}]]
         /\ \A k \in Call \ {c} : status'[k[3]][k[4]] = k => status[k[3]][k[4]] = k
<1>1. /\ c \in wire /\ wire' = wire \ {c}
      /\ UNCHANGED <<authentication, updateMiddleware, measureRequests>>
      /\ \/ status' = [status EXCEPT ![c[3]][c[4]] = c]
         \/ status' = status
      /\ \/ calls' = calls
         \/ Phase(c) = "sent" /\ \E p \in {"accepted", "refused"} : calls' = SetPhase(c, p)
  BY DEF BrokerUpdates
<1>2. "accepted" \in Phases /\ "refused" \in Phases
  BY DEF Phases
<1>7. \A p \in Phases : calls' = SetPhase(c, p) => CallGoesTo(c, p)
  BY SetPhaseIs
<1>3. calls' = calls \/ (Phase(c) = "sent" /\ \E p \in {"accepted", "refused"} : CallGoesTo(c, p))
  BY <1>1, <1>2, <1>7
<1>4. status \in [Devices -> [Commands -> Call \union {Nobody}]] /\ c[3] \in Devices /\ c[4] \in Commands
  BY CallParts DEF NgsiTypeOK
<1>5. status' \in [Devices -> [Commands -> Call \union {Nobody}]]
  BY <1>1, <1>4
<1>6. ASSUME NEW k \in Call \ {c}, status'[k[3]][k[4]] = k PROVE status[k[3]][k[4]] = k
  <2>1. k[3] \in Devices /\ k[4] \in Commands
    BY CallParts
  <2>2. CASE status' = status
    BY <1>6, <2>2
  <2>3. CASE status' = [status EXCEPT ![c[3]][c[4]] = c]
    <3>1. CASE k[3] = c[3] /\ k[4] = c[4]
      <4>1. status'[k[3]][k[4]] = c
        BY <1>4, <2>1, <2>3, <3>1
      <4> QED
        BY <1>6, <4>1
    <3>2. CASE ~ (k[3] = c[3] /\ k[4] = c[4])
      <4>1. status'[k[3]][k[4]] = status[k[3]][k[4]]
        BY <1>4, <2>1, <2>3, <3>2
      <4> QED
        BY <1>6, <4>1
    <3> QED
      BY <3>1, <3>2
  <2> QED
    BY <1>1, <2>2, <2>3
<1> QED
  BY <1>1, <1>3, <1>5, <1>6

(* What a device's report does: its call is looked up.                     *)
LEMMA ReportEffect ==
  ASSUME NgsiTypeOK, NEW c \in Call, NEW withDevice \in BOOLEAN, ReportResult(c, withDevice)
  PROVE  /\ IsResult(c) /\ Phase(c) = "idle"
         /\ UNCHANGED <<authentication, updateMiddleware, wire, status, measureRequests,
                        handlers, requests>>
         /\ calls' \in [Call -> [phase : Phases, given : BOOLEAN]]
         /\ calls'[c].phase = "lookup"
         /\ \A k \in Call \ {c} : calls'[k] = calls[k]
<1>1. calls \in [Call -> [phase : Phases, given : BOOLEAN]]
  BY DEF NgsiTypeOK, Phases
<1>2. calls' = [calls EXCEPT ![c] = [phase |-> "lookup", given |-> withDevice]]
  BY DEF ReportResult
<1>3. [phase |-> "lookup", given |-> withDevice] \in [phase : Phases, given : BOOLEAN]
  BY DEF Phases
<1> QED
  BY <1>1, <1>2, <1>3 DEF ReportResult

---------------------------------------------------------------------------
(* The steps of the calls preserve their invariant.                        *)

LEMMA CallsStep ==
  ASSUME NgsiTypeOK, CallsInv, Next
  PROVE  CallsInv'
<1>1. CASE UNCHANGED <<authentication, calls, wire, status>>
  BY <1>1 DEF CallsInv, Unsent, Trusted, Phase, HasTrust
<1>2. ASSUME NEW c \in Call, CallStep(c) PROVE CallsInv'
  <2>1. /\ authentication' = authentication /\ status' = status
        /\ Phase(c) \notin Settled
    BY <1>2, CallStepEffect
  <2>2. PICK p \in {"token", "sent"} \union Settled :
          /\ CallGoesTo(c, p)
          /\ wire' = wire \/ (p = "sent" /\ wire' = wire \union {c})
          /\ p = "token" => Phase(c) \in {"idle", "lookup"}
          /\ Phase(c) \in {"idle", "lookup"} /\ p \in {"token", "sent"} =>
               ~ authentication \/ HasTrust(c)
          /\ p = "sent" => Phase(c) \in {"idle", "lookup", "token"}
    BY <1>2, CallStepEffect
  <2>3. /\ Phase(c)' = p
        /\ \A k \in Call : HasTrust(k)' = HasTrust(k)
        /\ \A k \in Call \ {c} : Phase(k)' = Phase(k)
    BY <2>2 DEF CallGoesTo, Phase, HasTrust
  <2>4. ASSUME NEW k \in Call, Phase(k)' \in {"idle", "lookup", "token"}
        PROVE  k \notin wire' /\ status'[k[3]][k[4]] # k
    <3>1. Phase(k) \in {"idle", "lookup", "token"} /\ (k = c => p = "token")
      BY <2>2, <2>3, <2>4 DEF Settled
    <3>2. k \notin wire /\ status[k[3]][k[4]] # k
      BY <3>1 DEF CallsInv, Unsent
    <3> QED
      BY <2>1, <2>2, <3>1, <3>2
  <2>5. ASSUME authentication', NEW k \in Call,
               \/ Phase(k)' \in {"token", "sent", "accepted", "refused"}
               \/ k \in wire'
               \/ status'[k[3]][k[4]] = k
        PROVE  HasTrust(k)'
    <3>1. CASE \/ Phase(k) \in {"token", "sent", "accepted", "refused"}
               \/ k \in wire
               \/ status[k[3]][k[4]] = k
      BY <2>1, <2>3, <2>5, <3>1 DEF CallsInv, Trusted
    <3>2. CASE ~ \/ Phase(k) \in {"token", "sent", "accepted", "refused"}
                 \/ k \in wire
                 \/ status[k[3]][k[4]] = k
      <4>1. k = c
        BY <2>1, <2>2, <2>3, <2>5, <3>2
      <4>2. Phase(c) \in {"idle", "lookup"} /\ p \in {"token", "sent"}
        BY <2>1, <2>2, <2>3, <2>5, <3>2, <4>1 DEF Settled
      <4> QED
        BY <2>1, <2>2, <2>3, <2>5, <4>1, <4>2
    <3> QED
      BY <3>1, <3>2
  <2> QED
    BY <2>4, <2>5 DEF CallsInv, Unsent, Trusted
<1>3. ASSUME NEW c \in Call, BrokerUpdates(c) PROVE CallsInv'
  <2>1. /\ authentication' = authentication
        /\ c \in wire /\ wire' = wire \ {c}
        /\ calls' = calls \/ (Phase(c) = "sent" /\ \E p \in {"accepted", "refused"} : CallGoesTo(c, p))
        /\ \A k \in Call \ {c} : status'[k[3]][k[4]] = k => status[k[3]][k[4]] = k
    BY <1>3, BrokerEffect
  <2>2. /\ Phase(c) \notin {"idle", "lookup", "token"}
        /\ authentication => HasTrust(c)
    BY <2>1 DEF CallsInv, Unsent, Trusted
  <2>3. /\ Phase(c)' = Phase(c) \/ Phase(c)' \in {"accepted", "refused"}
        /\ \A k \in Call : HasTrust(k)' = HasTrust(k)
        /\ \A k \in Call \ {c} : Phase(k)' = Phase(k)
    BY <2>1 DEF CallGoesTo, Phase, HasTrust
  <2>4. ASSUME NEW k \in Call, Phase(k)' \in {"idle", "lookup", "token"}
        PROVE  k \notin wire' /\ status'[k[3]][k[4]] # k
    BY <2>1, <2>2, <2>3, <2>4 DEF CallsInv, Unsent
  <2>5. ASSUME authentication', NEW k \in Call,
               \/ Phase(k)' \in {"token", "sent", "accepted", "refused"}
               \/ k \in wire'
               \/ status'[k[3]][k[4]] = k
        PROVE  HasTrust(k)'
    BY <2>1, <2>2, <2>3, <2>5 DEF CallsInv, Trusted
  <2> QED
    BY <2>4, <2>5 DEF CallsInv, Unsent, Trusted
<1>4. ASSUME NEW c \in Call, NEW withDevice \in BOOLEAN, ReportResult(c, withDevice)
      PROVE  CallsInv'
  <2>1. /\ UNCHANGED <<authentication, wire, status>>
        /\ Phase(c) = "idle" /\ calls'[c].phase = "lookup"
        /\ \A k \in Call \ {c} : calls'[k] = calls[k]
    BY <1>4, ReportEffect
  <2>2. c \notin wire /\ status[c[3]][c[4]] # c
    BY <2>1 DEF CallsInv, Unsent
  <2>3. Phase(c)' = "lookup" /\ \A k \in Call \ {c} : Phase(k)' = Phase(k) /\ HasTrust(k)' = HasTrust(k)
    BY <2>1 DEF Phase, HasTrust
  <2>4. Unsent'
    BY <2>1, <2>2, <2>3 DEF CallsInv, Unsent
  <2>5. ASSUME authentication', NEW k \in Call,
               \/ Phase(k)' \in {"token", "sent", "accepted", "refused"}
               \/ k \in wire'
               \/ status'[k[3]][k[4]] = k
        PROVE  HasTrust(k)'
    BY <2>1, <2>2, <2>3, <2>5 DEF CallsInv, Trusted
  <2> QED
    BY <2>4, <2>5 DEF CallsInv, Trusted
<1>5. \/ UNCHANGED <<authentication, calls, wire, status>>
      \/ \E c \in Call : CallStep(c) \/ BrokerUpdates(c)
      \/ \E c \in Call, withDevice \in BOOLEAN : ReportResult(c, withDevice)
  <2>1. CASE \/ \E h \in HandlerKinds : SetHandler(h)
             \/ ResetMiddlewares /\ UNCHANGED <<handlers, requests>>
    BY <2>1 DEF SetHandler, ResetMiddlewares, ngsiVars
  <2>2. ASSUME NEW r \in Requests, NEW kind \in Kinds, NEW body,
               \/ Refuse(r, kind, body) \/ Receive(r, kind, body) \/ Notify(r, body)
        PROVE  UNCHANGED <<authentication, calls, wire, status>>
    BY <2>2 DEF Refuse, Receive, Notify, ngsiVars
  <2>3. ASSUME NEW r \in Requests, AgentStep(r)
        PROVE  UNCHANGED <<authentication, calls, wire, status>>
    BY <2>3 DEF AgentStep, Plan, HandlerAnswers, Extract, NotificationHandled, ngsiVars
  <2>4. CASE \E c \in Call : CallMoves(c) \/ BrokerMoves(c)
    BY <2>4 DEF CallMoves, BrokerMoves
  <2> QED
    BY <2>1, <2>2, <2>3, <2>4 DEF Next
<1> QED
  BY <1>1, <1>2, <1>3, <1>4, <1>5

---------------------------------------------------------------------------
(* What the requests' invariant needs of a step.                           *)

Good(r, q) ==
    /\ q \in Request
    /\ q.kind # "none" => q.body \in Bodies[r][q.kind]
    /\ q.phase = "running" => q.at \in DOMAIN q.plan
    /\ Fits(q)

Becomes(r, q) == requests' = [requests EXCEPT ![r] = q]
SamePlan(r) ==
    /\ requests'[r].plan = requests[r].plan
    /\ requests'[r].kind = requests[r].kind
    /\ requests'[r].body = requests[r].body
OksStay == \A c \in Call : Phase(c) = "ok" => Phase(c)' = "ok"
OtherCallsStay(r) == \A c \in Call : ~ IsResult(c) /\ c[2] # r => Phase(c)' = Phase(c)

LEMMA BecomesIs ==
  ASSUME NEW r \in Requests, NEW q \in Request, requests \in [Requests -> Request], Becomes(r, q)
  PROVE  /\ requests' \in [Requests -> Request]
         /\ requests'[r] = q
         /\ \A s \in Requests \ {r} : requests'[s] = requests[s]
BY DEF Becomes

LEMMA TypeMoves ==
  ASSUME TypeOK, RequestsInv, NgsiTypeOK', handlers' \subseteq HandlerKinds,
         NEW r \in Requests, NEW q, Good(r, q), Becomes(r, q)
  PROVE  TypeOK' /\ \A s \in Requests : Fits(requests'[s])
<1>1. requests \in [Requests -> Request] /\ q \in Request
  BY DEF TypeOK, Good
<1>2. /\ requests' \in [Requests -> Request]
      /\ requests'[r] = q
      /\ \A s \in Requests \ {r} : requests'[s] = requests[s]
  BY <1>1, BecomesIs
<1>3. \A s \in Requests : Fits(requests'[s])
  BY <1>2 DEF Good, RequestsInv
<1>4. \A s \in Requests :
        /\ requests'[s].kind # "none" => requests'[s].body \in Bodies[s][requests'[s].kind]
        /\ requests'[s].phase = "running" => requests'[s].at \in DOMAIN requests'[s].plan
  <2> SUFFICES ASSUME NEW s \in Requests
               PROVE  /\ requests'[s].kind # "none" => requests'[s].body \in Bodies[s][requests'[s].kind]
                      /\ requests'[s].phase = "running" => requests'[s].at \in DOMAIN requests'[s].plan
    OBVIOUS
  <2>1. CASE s = r
    BY <1>2, <2>1 DEF Good
  <2>2. CASE s # r
    BY <1>2, <2>2 DEF TypeOK
  <2> QED
    BY <2>1, <2>2
<1> QED
  BY <1>2, <1>3, <1>4 DEF TypeOK

LEMMA CallAtIsCall ==
  ASSUME TypeOK, RequestsInv, NEW r \in Requests, requests[r].phase \in {"running", "ok"},
         NEW k \in DOMAIN requests[r].plan, PendingAt(r, k)
  PROVE  CallAt(r, k) \in Call /\ CallAt(r, k)[2] = r /\ ~ IsResult(CallAt(r, k))
<1> DEFINE a == requests[r].plan[k]
           d == Element(r, a.element).id
<1>1. /\ requests[r].kind = "update"
      /\ a.element \in DOMAIN requests[r].body
      /\ a.command \in Named(r, a.element)
  BY DEF RequestsInv, PlanSound, PendingAt
<1>2. d \in Devices
  BY <1>1 DEF RequestsInv, Fits, Registered, Element
<1>3. a.command \in Commands
  BY <1>1, <1>2, NgsiAssumption DEF Named
<1> HIDE DEF d
<1>4. CallAt(r, k) = <<"PENDING", r, d, a.command>>
  BY DEF CallAt, PendingCall, d
<1> QED
  BY <1>2, <1>3, <1>4 DEF Call, IsResult

LEMMA PlanKept ==
  ASSUME NEW r \in Requests, SamePlan(r), PlanSound(r), PlanComplete(r)
  PROVE  /\ PlanSound(r)'
         /\ \/ requests[r].phase \in {"running", "ok"}
            \/ requests'[r].phase \notin {"running", "ok"}
            => PlanComplete(r)'
<1>1. PlanSound(r)'
  BY DEF SamePlan, PlanSound, Named, Element
<1>2. requests[r].phase \in {"running", "ok"} => PlanComplete(r)'
  BY DEF SamePlan, PlanComplete, Named, Element
<1>3. requests'[r].phase \notin {"running", "ok"} => PlanComplete(r)'
  BY DEF PlanComplete
<1> QED
  BY <1>1, <1>2, <1>3

LEMMA BehindKept ==
  ASSUME TypeOK, RequestsInv, NEW r \in Requests, SamePlan(r), OksStay,
         \A k \in DOMAIN requests[r].plan :
           /\ PendingAt(r, k)
           /\ requests'[r].phase = "ok" \/ (requests'[r].phase = "running" /\ k < requests'[r].at)
           => \/ requests[r].phase = "ok"
              \/ requests[r].phase = "running" /\ k < requests[r].at
              \/ Phase(CallAt(r, k))' = "ok"
  PROVE  BehindIsDone(r)'
<1>3. \A k \in DOMAIN requests[r].plan : CallAt(r, k)' = CallAt(r, k)
  BY DEF SamePlan, CallAt, PendingCall, Element
<1>1. ASSUME NEW k \in DOMAIN requests[r].plan, PendingAt(r, k),
             \/ requests'[r].phase = "ok"
             \/ requests'[r].phase = "running" /\ k < requests'[r].at
      PROVE  Phase(CallAt(r, k))' = "ok"
  <2>1. CASE \/ requests[r].phase = "ok"
             \/ requests[r].phase = "running" /\ k < requests[r].at
    <3>1. Phase(CallAt(r, k)) = "ok"
      BY <1>1, <2>1 DEF RequestsInv, BehindIsDone, Running
    <3>2. CallAt(r, k) \in Call
      BY <1>1, <2>1, CallAtIsCall
    <3> QED
      BY <1>3, <3>1, <3>2 DEF OksStay, Phase
  <2> QED
    BY <1>1, <2>1
<1>2. /\ DOMAIN requests'[r].plan = DOMAIN requests[r].plan
      /\ \A k : PendingAt(r, k)' = PendingAt(r, k)
  BY DEF SamePlan, PendingAt
<1> QED
  BY <1>1, <1>2, <1>3 DEF BehindIsDone, Running, Phase

LEMMA MadeKept ==
  ASSUME NEW c \in Call, SamePlan(c[2]), requests'[c[2]].at >= requests[c[2]].at,
         requests'[c[2]].at \in Nat, requests[c[2]].at \in Nat,
         requests[c[2]].plan \in Seq(Actions),
         MadeByPlan(c),
         ~ IsResult(c) /\ Phase(c)' # "idle" =>
            \/ Phase(c) # "idle"
            \/ PendingDue(c) /\ requests[c[2]].at \in DOMAIN requests[c[2]].plan,
         ~ IsResult(c) /\ Phase(c)' \notin {"idle"} \union Settled => PendingDue(c)'
  PROVE  MadeByPlan(c)'
<1> DEFINE r == c[2]
<1>1. ASSUME ~ IsResult(c), Phase(c)' # "idle"
      PROVE  \E k \in DOMAIN requests[r].plan : 
               k <= requests[r].at /\ PendingAt(r, k) /\ c = CallAt(r, k)
  <2>1. CASE Phase(c) # "idle"
    BY <1>1, <2>1 DEF MadeByPlan
  <2>2. CASE PendingDue(c) /\ requests[r].at \in DOMAIN requests[r].plan
    BY <2>2 DEF PendingDue, CurrentAction, PendingAt, CallAt
  <2> QED
    BY <1>1, <2>1, <2>2
<1>2. \A k \in DOMAIN requests[r].plan :
        PendingAt(r, k)' = PendingAt(r, k) /\ CallAt(r, k)' = CallAt(r, k)
  BY DEF SamePlan, PendingAt, CallAt, PendingCall, Element
<1>3. DOMAIN requests'[r].plan = DOMAIN requests[r].plan
  BY DEF SamePlan
<1>4. ASSUME ~ IsResult(c), Phase(c)' # "idle"
      PROVE  \E k \in DOMAIN requests'[r].plan :
               k <= requests'[r].at /\ PendingAt(r, k)' /\ c = CallAt(r, k)'
  <2>1. PICK k \in DOMAIN requests[r].plan :
          k <= requests[r].at /\ PendingAt(r, k) /\ c = CallAt(r, k)
    BY <1>1, <1>4
  <2>2. k <= requests'[r].at
    BY <2>1
  <2> QED
    BY <1>2, <1>3, <2>1, <2>2
<1> QED
  BY <1>4 DEF MadeByPlan, IsResult

(* A step that moves request r and calls made for it alone.                *)
LEMMA RequestMoves ==
  ASSUME TypeOK, RequestsInv, TypeOK', \A s \in Requests : Fits(requests'[s]),
         NEW r \in Requests, \A s \in Requests \ {r} : requests'[s] = requests[s],
         OksStay, OtherCallsStay(r),
         PlanSound(r)', PlanComplete(r)', BehindIsDone(r)',
         \A c \in Call : c[2] = r => MadeByPlan(c)'
  PROVE  RequestsInv'
<1>1. ASSUME NEW s \in Requests \ {r}
      PROVE  PlanSound(s)' /\ PlanComplete(s)' /\ BehindIsDone(s)'
  <2>1. requests'[s] = requests[s] /\ SamePlan(s)
    BY DEF SamePlan
  <2>2. PlanSound(s) /\ PlanComplete(s)
    BY DEF RequestsInv
  <2>3. PlanSound(s)' /\ PlanComplete(s)'
    <3>1. requests[s].phase \in {"running", "ok"} \/ requests'[s].phase \notin {"running", "ok"}
      BY <2>1
    <3> QED
      BY <2>1, <2>2, <3>1, PlanKept
  <2>4. BehindIsDone(s)'
    BY <2>1, BehindKept
  <2> QED
    BY <2>3, <2>4
<1>2. ASSUME NEW c \in Call, c[2] # r PROVE MadeByPlan(c)'
  <2>1. CASE IsResult(c)
    BY <2>1 DEF MadeByPlan, IsResult
  <2>2. CASE ~ IsResult(c)
    <3>1. c[2] \in Requests /\ requests'[c[2]] = requests[c[2]] /\ Phase(c)' = Phase(c)
      BY <1>2, <2>2, CallParts DEF OtherCallsStay
    <3>2. /\ SamePlan(c[2]) /\ requests'[c[2]].at >= requests[c[2]].at
          /\ requests[c[2]].at \in Nat /\ requests'[c[2]].at \in Nat
          /\ requests[c[2]].plan \in Seq(Actions)
      BY <3>1 DEF SamePlan, TypeOK, Request
    <3>3. MadeByPlan(c)
      BY DEF RequestsInv
    <3>4. PendingDue(c) => PendingDue(c)'
      BY <3>1 DEF PendingDue, Running, CurrentAction, PendingCall, Element
    <3>5. Phase(c) \notin {"idle"} \union Settled => PendingDue(c)
      BY <2>2, <3>3 DEF MadeByPlan
    <3>6. ~ IsResult(c) /\ Phase(c)' \notin {"idle"} \union Settled => PendingDue(c)'
      BY <3>1, <3>4, <3>5
    <3> QED
      BY <3>1, <3>2, <3>3, <3>6, MadeKept
  <2> QED
    BY <2>1, <2>2
<1>3. \A s \in Requests : PlanSound(s)' /\ PlanComplete(s)' /\ BehindIsDone(s)'
  BY <1>1
<1>4. \A c \in Call : MadeByPlan(c)'
  BY <1>2
<1> QED
  BY <1>3, <1>4 DEF RequestsInv

(* A request comes in.                                                     *)
LEMMA Arrives ==
  ASSUME TypeOK, RequestsInv, NEW r \in Requests, NEW q,
         requests[r].phase = "idle", Becomes(r, q), Good(r, q),
         q.plan = <<>>, q.phase \notin {"running", "ok"},
         UNCHANGED <<ngsiVars, handlers>>
  PROVE  TypeOK' /\ RequestsInv'
<1>1. NgsiTypeOK' /\ handlers' \subseteq HandlerKinds
  BY DEF TypeOK, NgsiTypeOK, ngsiVars
<1>2. TypeOK' /\ \A s \in Requests : Fits(requests'[s])
  BY <1>1, TypeMoves
<1>3. /\ requests'[r] = q
      /\ \A s \in Requests \ {r} : requests'[s] = requests[s]
  BY BecomesIs DEF Good, TypeOK
<1>4. OksStay /\ OtherCallsStay(r) /\ \A c \in Call : Phase(c)' = Phase(c)
  BY DEF OksStay, OtherCallsStay, Phase, ngsiVars
<1>5. PlanSound(r)' /\ PlanComplete(r)' /\ BehindIsDone(r)'
  <2>1. requests'[r].plan = <<>> /\ requests'[r].phase \notin {"running", "ok"}
    BY <1>3
  <2>2. DOMAIN requests'[r].plan = {}
    BY <2>1
  <2> QED
    BY <2>1, <2>2 DEF PlanSound, PlanComplete, BehindIsDone, Running
<1>6. ASSUME NEW c \in Call, c[2] = r PROVE MadeByPlan(c)'
  <2>1. requests[r].plan = <<>>
    BY DEF RequestsInv, Fits, Idle
  <2>2. DOMAIN requests[r].plan = {}
    BY <2>1
  <2>3. ~ IsResult(c) => Phase(c) = "idle"
    BY <1>6, <2>2 DEF RequestsInv, MadeByPlan
  <2> QED
    BY <1>4, <2>3 DEF MadeByPlan, IsResult
<1> QED
  BY <1>2, <1>3, <1>4, <1>5, <1>6, RequestMoves

(* A request passes on its way out of the agent, or an element of a        *)
(* notification comes to its end.                                          *)
LEMMA PartMoves ==
  ASSUME TypeOK, RequestsInv, NEW r \in Requests, NEW i \in DOMAIN requests[r].parts,
         NEW p \in {"handling", "done", "failed"}, SetPart(r, i, p),
         UNCHANGED <<ngsiVars, handlers>>
  PROVE  TypeOK' /\ RequestsInv'
<1> DEFINE parts == [requests[r].parts EXCEPT ![i] = p]
           phase == IF p = "failed" \/ ToSet(parts) = {"done"} THEN "unrouted"
                    ELSE requests[r].phase
           q == [requests[r] EXCEPT !.parts = parts, !.phase = phase]
<1>1. requests \in [Requests -> Request] /\ requests[r] \in Request
  BY DEF TypeOK
<1>2. requests[r].kind = "notify"
  <2>1. requests[r].kind # "notify" => requests[r].parts = <<>>
    BY DEF RequestsInv, Fits
  <2>2. DOMAIN <<>> = {}
    OBVIOUS
  <2> QED
    BY <2>1, <2>2
<1>3. parts \in Seq({"todo", "handling", "done", "failed"})
  <2>1. requests[r].parts \in Seq({"todo", "handling", "done", "failed"})
    BY <1>1 DEF Request
  <2>2. i \in 1 .. Len(requests[r].parts)
    BY <2>1, LenProperties
  <2> QED
    BY <2>1, <2>2, ExceptSeq
<1>4. Becomes(r, q)
  <2>1. requests' = [requests EXCEPT ![r].parts = parts, ![r].phase = phase]
    BY <1>1 DEF SetPart
  <2> HIDE DEF parts, phase
  <2> QED
    BY <1>1, <2>1 DEF Becomes, Request
<1> HIDE DEF parts
<1>5. /\ q.kind = requests[r].kind /\ q.body = requests[r].body /\ q.plan = requests[r].plan
      /\ q.at = requests[r].at /\ q.phase = phase /\ q.parts = parts /\ q \in Request
  BY <1>1, <1>3 DEF Request, Over, Answers
<1>6. phase = requests[r].phase \/ phase = "unrouted"
  OBVIOUS
<1> HIDE DEF q, phase
<1>7. Good(r, q)
  <2>1. requests[r].phase # "idle"
    BY <1>2 DEF RequestsInv, Fits, Idle
  <2>2. Fits(q)
    BY <1>2, <1>5, <1>6, <2>1 DEF RequestsInv, Fits
  <2> QED
    BY <1>2, <1>5, <1>6, <2>2 DEF Good, TypeOK
<1>8. NgsiTypeOK' /\ handlers' \subseteq HandlerKinds
  BY DEF TypeOK, NgsiTypeOK, ngsiVars
<1>9. TypeOK' /\ \A s \in Requests : Fits(requests'[s])
  BY <1>4, <1>7, <1>8, TypeMoves
<1>10. /\ requests'[r] = q
       /\ \A s \in Requests \ {r} : requests'[s] = requests[s]
  BY <1>1, <1>4, <1>5, BecomesIs
<1>11. OksStay /\ OtherCallsStay(r) /\ \A c \in Call : Phase(c)' = Phase(c)
  BY DEF OksStay, OtherCallsStay, Phase, ngsiVars
<1>12. SamePlan(r)
  BY <1>5, <1>10 DEF SamePlan
<1>13. PlanSound(r)' /\ PlanComplete(r)' /\ BehindIsDone(r)'
  <2>1. PlanSound(r) /\ PlanComplete(r)
    BY DEF RequestsInv
  <2>2. requests'[r].phase \in {"running", "ok"} => requests[r].phase = requests'[r].phase
    BY <1>5, <1>6, <1>10
  <2>3. PlanSound(r)' /\ PlanComplete(r)'
    BY <1>12, <2>1, <2>2, PlanKept
  <2>4. requests'[r].at = requests[r].at
    BY <1>5, <1>10
  <2>5. BehindIsDone(r)'
    BY <1>11, <1>12, <2>2, <2>4, BehindKept
  <2> QED
    BY <2>3, <2>5
<1>14. ASSUME NEW c \in Call, c[2] = r PROVE MadeByPlan(c)'
  <2>1. /\ requests'[r].at = requests[r].at /\ requests[r].at \in Nat
        /\ requests[r].plan \in Seq(Actions)
    BY <1>1, <1>5, <1>10 DEF Request
  <2>2. MadeByPlan(c)
    BY DEF RequestsInv
  <2>3. ~ Running(r)
    BY <1>2 DEF RequestsInv, Fits, Running
  <2>4. ~ IsResult(c) => Phase(c)' \in {"idle"} \union Settled
    BY <1>11, <1>14, <2>2, <2>3 DEF MadeByPlan, PendingDue
  <2> QED
    BY <1>11, <1>12, <1>14, <2>1, <2>2, <2>4, MadeKept
<1> QED
  BY <1>9, <1>10, <1>11, <1>13, <1>14, RequestMoves

(* A running request goes on to its next action, or ends.                  *)
LEMMA RunningMoves ==
  ASSUME TypeOK, RequestsInv, NgsiTypeOK', handlers' = handlers,
         NEW r \in Requests, Running(r),
         OksStay, OtherCallsStay(r),
         \A c \in Call : ~ IsResult(c) /\ c[2] = r =>
            /\ Phase(c)' \in {"idle"} \union Settled
            /\ Phase(c)' # "idle" => Phase(c) # "idle" \/ PendingDue(c),
         \/ Advance(r) /\ (PendingAt(r, requests[r].at) =>
                             calls'[CallAt(r, requests[r].at)].phase = "ok")
         \/ Fail(r)
         \/ requests' = [requests EXCEPT ![r].phase = "lost"]
  PROVE  TypeOK' /\ RequestsInv'
<1> DEFINE at == requests[r].at
           plan == requests[r].plan
           q == requests'[r]
<1>1. requests \in [Requests -> Request] /\ requests[r] \in Request
  BY DEF TypeOK
<1>2. /\ at \in Nat /\ plan \in Seq(Actions) /\ Len(plan) \in Nat
      /\ DOMAIN plan = 1 .. Len(plan) /\ at \in 1 .. Len(plan)
  <2>1. at \in Nat /\ plan \in Seq(Actions)
    BY <1>1 DEF Request
  <2>2. at \in DOMAIN plan
    BY DEF TypeOK, Running
  <2> QED
    BY <2>1, <2>2, LenProperties
<1>3. /\ q \in Request /\ SamePlan(r) /\ q.parts = requests[r].parts
      /\ \A s \in Requests \ {r} : requests'[s] = requests[s]
      /\ Becomes(r, q)
      /\ \/ q.phase = "running" /\ q.at = at + 1 /\ at < Len(plan)
         \/ q.phase \in {"ok", "lost"} /\ q.at = at /\ at = Len(plan)
         \/ q.phase \in {"error", "lost"} /\ q.at = at
      /\ Advance(r) \/ q.phase \in {"error", "lost"}
  <2>1. CASE Advance(r) /\ at < Len(plan)
    <3>1. requests' = [requests EXCEPT ![r].at = at + 1]
      BY <2>1 DEF Advance
    <3>2. at + 1 \in Nat
      BY <1>2
    <3> HIDE DEF at
    <3> QED
      BY <1>1, <2>1, <3>1, <3>2 DEF SamePlan, Becomes, Request, Running
  <2>2. CASE Advance(r) /\ ~ at < Len(plan)
    <3>1. requests' = [requests EXCEPT ![r].phase = Finished(r)] /\ at = Len(plan)
      BY <1>2, <2>2 DEF Advance
    <3>2. Finished(r) \in {"ok", "lost"}
      BY DEF Finished
    <3>3. PICK p \in {"ok", "lost"} : requests' = [requests EXCEPT ![r].phase = p]
      BY <3>1, <3>2
    <3>4. q = [requests[r] EXCEPT !.phase = p] /\ \A s \in Requests \ {r} : requests'[s] = requests[s]
      BY <1>1, <3>3
    <3>5. q \in Request /\ q.phase = p /\ q.at = at /\ q.plan = plan
          /\ q.kind = requests[r].kind /\ q.body = requests[r].body /\ q.parts = requests[r].parts
      BY <1>1, <3>4 DEF Request, Over, Answers
    <3>6. Becomes(r, q)
      BY <1>1, <3>3, <3>4 DEF Becomes
    <3> QED
      BY <2>2, <3>1, <3>4, <3>5, <3>6 DEF SamePlan
  <2>3. CASE Fail(r) \/ requests' = [requests EXCEPT ![r].phase = "lost"]
    <3>1. PICK p \in {"error", "lost"} : requests' = [requests EXCEPT ![r].phase = p]
      BY <2>3 DEF Fail
    <3>2. q = [requests[r] EXCEPT !.phase = p] /\ \A s \in Requests \ {r} : requests'[s] = requests[s]
      BY <1>1, <3>1
    <3>3. q \in Request /\ q.phase = p /\ q.at = at /\ q.plan = plan
          /\ q.kind = requests[r].kind /\ q.body = requests[r].body /\ q.parts = requests[r].parts
      BY <1>1, <3>2 DEF Request, Over, Answers
    <3>4. Becomes(r, q)
      BY <1>1, <3>1, <3>2 DEF Becomes
    <3> QED
      BY <3>2, <3>3, <3>4 DEF SamePlan
  <2> QED
    BY <2>1, <2>2, <2>3
<1> HIDE DEF q
<1>4. q.plan = plan /\ q.kind = requests[r].kind /\ q.body = requests[r].body
  BY <1>3 DEF SamePlan, q
<1>5. Good(r, q)
  <2>1. /\ requests[r].kind # "none"
        /\ requests[r].kind # "notify" => requests[r].parts = <<>>
        /\ requests[r].kind \in {"update", "query"}
        /\ requests[r].kind = "update" => \A i \in DOMAIN requests[r].body : Registered(requests[r].body[i].id)
    BY DEF RequestsInv, Fits, Running
  <2>2. q.at <= Len(plan) /\ (q.phase = "running" => q.at \in DOMAIN plan)
    BY <1>2, <1>3
  <2>3. Fits(q)
    BY <1>3, <1>4, <2>1, <2>2 DEF Fits
  <2> QED
    BY <1>3, <1>4, <2>1, <2>2, <2>3 DEF Good, TypeOK
<1>6. TypeOK' /\ \A s \in Requests : Fits(requests'[s])
  <2>1. handlers' \subseteq HandlerKinds
    BY DEF TypeOK
  <2> QED
    BY <1>3, <1>5, <2>1, TypeMoves
<1>7. PlanSound(r)' /\ PlanComplete(r)'
  <2>1. PlanSound(r) /\ PlanComplete(r) /\ requests[r].phase \in {"running", "ok"}
    BY DEF RequestsInv, Running
  <2> QED
    BY <1>3, <2>1, PlanKept
<1>8. BehindIsDone(r)'
  <2>1. ASSUME NEW k \in DOMAIN plan, PendingAt(r, k),
               q.phase = "ok" \/ (q.phase = "running" /\ k < q.at)
        PROVE  \/ requests[r].phase = "running" /\ k < at
               \/ Phase(CallAt(r, k))' = "ok"
    <3>1. k < at \/ k = at
      BY <1>2, <1>3, <2>1
    <3>2. CASE k = at
      <4>1. calls'[CallAt(r, k)].phase = "ok"
        <5>1. PendingAt(r, at)
          BY <2>1, <3>2
        <5>2. \A p \in {"error", "lost"} : requests' # [requests EXCEPT ![r].phase = p]
          <6>1. \A p : requests' = [requests EXCEPT ![r].phase = p] => q.phase = p
            BY <1>1 DEF q, Request
          <6> QED
            BY <2>1, <6>1
        <5>3. ~ Fail(r) /\ requests' # [requests EXCEPT ![r].phase = "lost"]
          BY <5>2 DEF Fail
        <5> QED
          BY <5>1, <5>3, <3>2
      <4>2. CallAt(r, k)' = CallAt(r, k)
        BY <1>3 DEF SamePlan, CallAt, PendingCall, Element
      <4> QED
        BY <4>1, <4>2 DEF Phase
    <3> QED
      BY <3>1, <3>2 DEF Running
  <2> QED
    BY <1>3, <2>1, BehindKept DEF q
<1>9. ASSUME NEW c \in Call, c[2] = r PROVE MadeByPlan(c)'
  <2>1. /\ q.at >= at /\ q.at \in Nat /\ at \in Nat /\ plan \in Seq(Actions) /\ at \in DOMAIN plan
    BY <1>2, <1>3
  <2>2. MadeByPlan(c)
    BY DEF RequestsInv
  <2> QED
    BY <1>3, <1>9, <2>1, <2>2, MadeKept DEF q
<1> QED
  BY <1>3, <1>6, <1>7, <1>8, <1>9, RequestMoves

(* The agent's handler calls back.                                         *)
LEMMA HandlerAnswersStep ==
  ASSUME TypeOK, RequestsInv, NEW r \in Requests, HandlerAnswers(r)
  PROVE  TypeOK' /\ RequestsInv'
<1>1. /\ Running(r) /\ ~ PendingAt(r, requests[r].at)
      /\ Advance(r) \/ Fail(r)
      /\ UNCHANGED <<ngsiVars, handlers>>
  BY DEF HandlerAnswers, CurrentAction, PendingAt
<1>2. NgsiTypeOK'
  BY <1>1 DEF TypeOK, NgsiTypeOK, ngsiVars
<1>3. OksStay /\ OtherCallsStay(r) /\ \A c \in Call : Phase(c)' = Phase(c)
  BY <1>1 DEF OksStay, OtherCallsStay, Phase, ngsiVars
<1>4. ASSUME NEW c \in Call, ~ IsResult(c), c[2] = r
      PROVE  Phase(c) \in {"idle"} \union Settled
  BY <1>1, <1>4 DEF RequestsInv, MadeByPlan, PendingDue, CurrentAction, PendingAt
<1> QED
  BY <1>1, <1>2, <1>3, <1>4, RunningMoves

(* A step of a call, on the agent's side.                                  *)
LEMMA CallMovesStep ==
  ASSUME TypeOK, RequestsInv, NEW c \in Call, CallMoves(c)
  PROVE  TypeOK' /\ RequestsInv'
<1> DEFINE r == c[2]
<1>1. NgsiTypeOK /\ CallStep(c) /\ Continue(c) /\ handlers' = handlers
      /\ (Phase(c) = "idle" => PendingDue(c)) /\ r \in Requests
  BY CallParts DEF TypeOK, CallMoves
<1>2. /\ UNCHANGED <<authentication, updateMiddleware, status>>
      /\ measureRequests' \in Nat
      /\ Phase(c) \notin Settled
  BY <1>1, CallStepEffect
<1>3. PICK p \in {"token", "sent"} \union Settled :
        /\ CallGoesTo(c, p)
        /\ wire' = wire \/ (p = "sent" /\ wire' = wire \union {c})
  BY <1>1, CallStepEffect
<1>4. NgsiTypeOK'
  BY <1>1, <1>2, <1>3 DEF NgsiTypeOK, CallGoesTo, Phases
<1>5. Phase(c)' = p /\ calls'[c].phase = p /\ \A k \in Call \ {c} : Phase(k)' = Phase(k)
  BY <1>3 DEF CallGoesTo, Phase
<1>6. OksStay
  BY <1>2, <1>5 DEF OksStay, Settled
<1>7. ~ IsResult(c) => PendingDue(c)
  BY <1>1, <1>2 DEF RequestsInv, MadeByPlan
<1>8. OtherCallsStay(r)
  BY <1>5 DEF OtherCallsStay
<1>9. CASE IsResult(c) \/ p \notin Settled
  <2>1. requests' = requests
    BY <1>1, <1>5, <1>9 DEF Continue
  <2>2. TypeOK' /\ \A s \in Requests : Fits(requests'[s])
    BY <1>1, <1>4, <2>1 DEF TypeOK, RequestsInv
  <2>3. SamePlan(r) /\ requests'[r] = requests[r]
    BY <2>1 DEF SamePlan
  <2>4. PlanSound(r)' /\ PlanComplete(r)'
    <3>1. requests[r].phase \in {"running", "ok"} \/ requests'[r].phase \notin {"running", "ok"}
      BY <2>3
    <3> QED
      BY <1>1, <2>3, <3>1, PlanKept DEF RequestsInv
  <2>5. BehindIsDone(r)'
    BY <1>1, <1>6, <2>3, BehindKept
  <2>6. ASSUME NEW k \in Call, k[2] = r PROVE MadeByPlan(k)'
    <3>1. MadeByPlan(k)
      BY DEF RequestsInv
    <3>2. requests[r].at \in Nat /\ requests[r].plan \in Seq(Actions)
      BY <1>1 DEF TypeOK, Request
    <3>3. ~ IsResult(k) /\ Phase(k)' # "idle" =>
             \/ Phase(k) # "idle"
             \/ PendingDue(k) /\ requests[r].at \in DOMAIN requests[r].plan
      BY <1>1, <1>5, <1>7 DEF PendingDue, Running, TypeOK
    <3>4. PendingDue(k) => PendingDue(k)'
      BY <2>1 DEF PendingDue, Running, CurrentAction, PendingCall, Element
    <3>5. ~ IsResult(k) /\ Phase(k)' \notin {"idle"} \union Settled => PendingDue(k)'
      BY <1>5, <1>7, <3>1, <3>4 DEF MadeByPlan
    <3> QED
      BY <2>3, <2>6, <3>1, <3>2, <3>3, <3>5, MadeKept
  <2> QED
    BY <1>1, <1>6, <1>8, <2>2, <2>3, <2>4, <2>5, <2>6, <2>1, RequestMoves
<1>10. CASE ~ IsResult(c) /\ p \in Settled
  <2>1. Running(r) /\ PendingAt(r, requests[r].at) /\ c = CallAt(r, requests[r].at)
    BY <1>7, <1>10 DEF PendingDue, CurrentAction, PendingAt, CallAt
  <2>2. \/ p = "ok" /\ Advance(r)
        \/ Fail(r)
        \/ requests' = [requests EXCEPT ![r].phase = "lost"]
    <3>1. CASE p = "ok"
      BY <1>1, <1>5, <1>10, <3>1 DEF Continue
    <3>2. CASE p = "failed"
      BY <1>1, <1>5, <1>10, <3>2 DEF Continue
    <3>3. CASE p = "lost"
      BY <1>1, <1>5, <1>10, <3>3 DEF Continue
    <3> QED
      BY <1>10, <3>1, <3>2, <3>3 DEF Settled
  <2>3. ASSUME NEW k \in Call, ~ IsResult(k), k[2] = r
        PROVE  /\ Phase(k)' \in {"idle"} \union Settled
               /\ Phase(k)' # "idle" => Phase(k) # "idle" \/ PendingDue(k)
    <3>1. CASE k = c
      BY <1>5, <1>7, <1>10, <3>1
    <3>2. CASE k # c
      <4>1. ~ PendingDue(k)
        BY <1>7, <1>10, <2>3, <3>2 DEF PendingDue
      <4>2. Phase(k) \in {"idle"} \union Settled
        BY <2>3, <4>1 DEF RequestsInv, MadeByPlan
      <4> QED
        BY <1>5, <3>2, <4>2
    <3> QED
      BY <3>1, <3>2
  <2>4. calls'[CallAt(r, requests[r].at)].phase = p
    BY <1>5, <2>1
  <2> QED
    BY <1>1, <1>4, <1>6, <1>8, <2>1, <2>2, <2>3, <2>4, RunningMoves
<1> QED
  BY <1>9, <1>10

(* The plan is made.                                                       *)
LEMMA PlanStep ==
  ASSUME TypeOK, RequestsInv, NEW r \in Requests, Plan(r)
  PROVE  TypeOK' /\ RequestsInv'
<1> DEFINE F == PlanOf(r)
           q == requests'[r]
<1>1. requests \in [Requests -> Request] /\ requests[r] \in Request
  BY DEF TypeOK
<1>2. /\ requests[r].phase = "lookedUp" /\ UNCHANGED <<ngsiVars, handlers>>
      /\ requests' = IF F = <<>>
                     THEN [requests EXCEPT ![r].phase = Finished(r)]
                     ELSE [requests EXCEPT ![r].plan = F, ![r].at = 1, ![r].phase = "running"]
  BY DEF Plan, PlanOf, ActionsOf
<1>3. Planned(r) /\ requests[r].plan = <<>>
  BY <1>2 DEF Planned, RequestsInv, Fits
<1>4. F \in Seq(Actions)
  BY <1>3, PlanIs
<1>5. /\ Len(F) \in Nat /\ DOMAIN F = 1 .. Len(F) /\ (F # <<>> => 1 \in DOMAIN F)
  BY <1>4, LenProperties, EmptySeq
<1>6. Finished(r) \in {"ok", "lost"}
  BY DEF Finished
<1> HIDE DEF F
<1>7. /\ q \in Request /\ Becomes(r, q)
      /\ \A s \in Requests \ {r} : requests'[s] = requests[s]
      /\ q.kind = requests[r].kind /\ q.body = requests[r].body /\ q.parts = requests[r].parts
      /\ q.plan = F
      /\ \/ F = <<>> /\ q.phase \in {"ok", "lost"} /\ q.at = requests[r].at
         \/ F # <<>> /\ q.phase = "running" /\ q.at = 1
  <2>1. CASE F = <<>>
    <3>1. PICK p \in {"ok", "lost"} : requests' = [requests EXCEPT ![r].phase = p]
      BY <1>2, <1>6, <2>1
    <3>2. q = [requests[r] EXCEPT !.phase = p] /\ \A s \in Requests \ {r} : requests'[s] = requests[s]
      BY <1>1, <3>1
    <3>3. q \in Request /\ q.phase = p /\ q.at = requests[r].at /\ q.plan = requests[r].plan
          /\ q.kind = requests[r].kind /\ q.body = requests[r].body /\ q.parts = requests[r].parts
      BY <1>1, <3>2 DEF Request, Over, Answers
    <3>4. Becomes(r, q)
      BY <1>1, <3>1, <3>2 DEF Becomes
    <3> QED
      BY <1>3, <2>1, <3>2, <3>3, <3>4
  <2>2. CASE F # <<>>
    <3>1. requests' = [requests EXCEPT ![r].plan = F, ![r].at = 1, ![r].phase = "running"]
      BY <1>2, <2>2
    <3>2. /\ q = [requests[r] EXCEPT !.plan = F, !.at = 1, !.phase = "running"]
          /\ \A s \in Requests \ {r} : requests'[s] = requests[s]
      BY <1>1, <3>1
    <3>3. q \in Request /\ q.phase = "running" /\ q.at = 1 /\ q.plan = F
          /\ q.kind = requests[r].kind /\ q.body = requests[r].body /\ q.parts = requests[r].parts
      <4> DEFINE z == requests[r]
      <4>1. q = [kind |-> z.kind, phase |-> "running", body |-> z.body, plan |-> F,
                 at |-> 1, parts |-> z.parts]
        BY <1>1, <3>2 DEF Request
      <4>2. z \in Request /\ 1 \in Nat
        BY <1>1
      <4> HIDE DEF z, q
      <4>3. q \in Request
        BY <1>4, <4>1, <4>2 DEF Request
      <4> QED
        BY <4>1, <4>3 DEF z
    <3>4. Becomes(r, q)
      BY <1>1, <3>1, <3>2 DEF Becomes
    <3> QED
      BY <2>2, <3>2, <3>3, <3>4
  <2> QED
    BY <2>1, <2>2
<1> HIDE DEF q
<1>8. Good(r, q)
  <2>1. Fits(requests[r])
    BY DEF RequestsInv
  <2>2. q.at <= Len(F) /\ (q.phase = "running" => q.at \in DOMAIN F)
    BY <1>2, <1>3, <1>5, <1>7, <2>1 DEF Fits
  <2>3. Fits(q)
    BY <1>2, <1>7, <2>1, <2>2 DEF Fits
  <2> QED
    BY <1>2, <1>7, <2>1, <2>2, <2>3 DEF Good, TypeOK, Fits
<1>9. NgsiTypeOK' /\ handlers' \subseteq HandlerKinds
  BY <1>2 DEF TypeOK, NgsiTypeOK, ngsiVars
<1>10. TypeOK' /\ \A s \in Requests : Fits(requests'[s])
  BY <1>7, <1>8, <1>9, TypeMoves
<1>11. OksStay /\ OtherCallsStay(r) /\ \A c \in Call : Phase(c)' = Phase(c)
  BY <1>2 DEF OksStay, OtherCallsStay, Phase, ngsiVars
<1>12. /\ requests'[r].plan = F /\ requests'[r].kind = requests[r].kind
       /\ requests'[r].body = requests[r].body
  BY <1>7 DEF q
<1>13. \A i : Named(r, i)' = Named(r, i)
  BY <1>12 DEF Named, Element
<1>14. PlanSound(r)'
  <2>1. \A k \in DOMAIN F : F[k].do = "pending" =>
              /\ requests[r].kind = "update"
              /\ F[k].element \in DOMAIN requests[r].body
              /\ F[k].command \in Named(r, F[k].element)
              /\ \/ \E j \in 1 .. k : F[j] = HandlerAction("command", F[k].element)
                 \/ \A j \in DOMAIN F : F[j].do # "command"
    BY <1>3, PlanIs DEF F
  <2> QED
    BY <1>12, <1>13, <2>1 DEF PlanSound
<1>15. PlanComplete(r)'
  <2>1. requests[r].kind = "update" =>
          \A i \in DOMAIN requests[r].body : \A x \in Named(r, i) :
            \E k \in DOMAIN F : F[k] = PendingAction(i, x)
    BY <1>3, PlanIs DEF F
  <2> QED
    BY <1>12, <1>13, <2>1 DEF PlanComplete
<1>16. BehindIsDone(r)'
  <2>1. q.phase = "ok" => DOMAIN F = {}
    BY <1>7
  <2>2. q.phase = "running" => \A k \in DOMAIN F : ~ k < q.at
    BY <1>5, <1>7
  <2> QED
    BY <1>12, <2>1, <2>2 DEF BehindIsDone, Running, q
<1>17. ASSUME NEW c \in Call, c[2] = r PROVE MadeByPlan(c)'
  <2>1. DOMAIN requests[r].plan = {}
    BY <1>3
  <2>2. ~ IsResult(c) => Phase(c) = "idle"
    BY <1>17, <2>1 DEF RequestsInv, MadeByPlan
  <2> QED
    BY <1>11, <2>2 DEF MadeByPlan, IsResult
<1> QED
  BY <1>7, <1>10, <1>11, <1>14, <1>15, <1>16, <1>17, RequestMoves

(* The requests stay as they are, and at most a call that is awaited or is *)
(* a result moves.                                                         *)
LEMMA RequestsStay ==
  ASSUME TypeOK, RequestsInv, NgsiTypeOK', handlers' \subseteq HandlerKinds, requests' = requests,
         NEW c \in Call, \A k \in Call \ {c} : Phase(k)' = Phase(k),
         \/ IsResult(c) \/ Phase(c)' = Phase(c)
         \/ Phase(c) \notin {"idle"} \union Settled,
         Phase(c) = "ok" => Phase(c)' = "ok"
  PROVE  TypeOK' /\ RequestsInv'
<1> DEFINE r == c[2]
<1>1. r \in Requests /\ SamePlan(r)
  BY CallParts DEF SamePlan
<1>2. TypeOK' /\ \A s \in Requests : Fits(requests'[s])
  BY DEF TypeOK, RequestsInv
<1>3. OksStay /\ OtherCallsStay(r)
  BY DEF OksStay, OtherCallsStay
<1>4. PlanSound(r)' /\ PlanComplete(r)'
  <2>1. requests[r].phase \in {"running", "ok"} \/ requests'[r].phase \notin {"running", "ok"}
    OBVIOUS
  <2> QED
    BY <1>1, <2>1, PlanKept DEF RequestsInv
<1>5. BehindIsDone(r)'
  BY <1>1, <1>3, BehindKept
<1>6. ASSUME NEW k \in Call, k[2] = r PROVE MadeByPlan(k)'
  <2>1. MadeByPlan(k)
    BY DEF RequestsInv
  <2>2. requests[r].at \in Nat /\ requests[r].plan \in Seq(Actions)
    BY <1>1 DEF TypeOK, Request
  <2>3. ~ IsResult(k) /\ Phase(k)' # "idle" => Phase(k) # "idle"
    OBVIOUS
  <2>4. PendingDue(k) => PendingDue(k)'
    BY DEF PendingDue, Running, CurrentAction, PendingCall, Element
  <2>5. ~ IsResult(k) /\ Phase(k)' \notin {"idle"} \union Settled => PendingDue(k)'
    BY <2>1, <2>4 DEF MadeByPlan
  <2>6. requests'[k[2]].at >= requests[k[2]].at
    BY <1>6, <2>2
  <2> QED
    BY <1>1, <1>6, <2>1, <2>2, <2>3, <2>5, <2>6, MadeKept
<1> QED
  BY <1>1, <1>2, <1>3, <1>4, <1>5, <1>6, RequestMoves

LEMMA BrokerStep ==
  ASSUME TypeOK, RequestsInv, NEW c \in Call, BrokerMoves(c)
  PROVE  TypeOK' /\ RequestsInv'
<1>1. NgsiTypeOK /\ BrokerUpdates(c) /\ UNCHANGED <<handlers, requests>>
  BY DEF TypeOK, BrokerMoves
<1>2. /\ wire' = wire \ {c}
      /\ UNCHANGED <<authentication, updateMiddleware, measureRequests>>
      /\ calls' = calls \/ (Phase(c) = "sent" /\ \E p \in {"accepted", "refused"} : CallGoesTo(c, p))
      /\ status' \in [Devices -> [Commands -> Call \union {Nobody}]]
  BY <1>1, BrokerEffect
<1>3. NgsiTypeOK'
  BY <1>1, <1>2 DEF NgsiTypeOK, CallGoesTo, Phases
<1>4. /\ \A k \in Call \ {c} : Phase(k)' = Phase(k)
      /\ Phase(c)' = Phase(c) \/ Phase(c) = "sent"
  BY <1>2 DEF CallGoesTo, Phase
<1>5. Phase(c)' = Phase(c) \/ Phase(c) \notin {"idle"} \union Settled
  BY <1>4 DEF Settled
<1>6. handlers' \subseteq HandlerKinds /\ requests' = requests
  BY <1>1 DEF TypeOK
<1> QED
  BY <1>3, <1>4, <1>5, <1>6, RequestsStay

LEMMA ReportStep ==
  ASSUME TypeOK, RequestsInv, NEW c \in Call, NEW withDevice \in BOOLEAN,
         ReportResult(c, withDevice)
  PROVE  TypeOK' /\ RequestsInv'
<1>1. NgsiTypeOK
  BY DEF TypeOK
<1>2. /\ IsResult(c) /\ Phase(c) = "idle"
      /\ UNCHANGED <<authentication, updateMiddleware, wire, status, measureRequests,
                     handlers, requests>>
      /\ calls' \in [Call -> [phase : Phases, given : BOOLEAN]]
      /\ \A k \in Call \ {c} : calls'[k] = calls[k]
  BY <1>1, ReportEffect
<1>3. NgsiTypeOK'
  BY <1>1, <1>2 DEF NgsiTypeOK, Phases
<1>4. \A k \in Call \ {c} : Phase(k)' = Phase(k)
  BY <1>2 DEF Phase
<1>5. handlers' \subseteq HandlerKinds /\ requests' = requests
  BY <1>2 DEF TypeOK
<1> QED
  BY <1>2, <1>3, <1>4, <1>5, RequestsStay

---------------------------------------------------------------------------
(* The invariant.                                                          *)

Inv == TypeOK /\ CallsInv /\ RequestsInv

LEMMA InitInv == Init => Inv
<1> SUFFICES ASSUME Init PROVE Inv
  OBVIOUS
<1>1. /\ calls = [c \in Call |-> [phase |-> "idle", given |-> TRUE]]
      /\ wire = {} /\ requests = [r \in Requests |-> Idle]
      /\ status = [d \in Devices |-> [x \in Commands |-> Nobody]]
  BY DEF Init, NgsiInit
<1>2. TypeOK
  <2>1. NgsiTypeOK
    BY DEF Init, NgsiInit, NgsiTypeOK
  <2>2. handlers \subseteq HandlerKinds
    BY DEF Init
  <2>3. Idle \in Request
    BY DEF Idle, Request
  <2>4. \A r \in Requests : requests[r].kind = "none" /\ requests[r].phase = "idle"
    BY <1>1 DEF Idle
  <2> QED
    BY <1>1, <2>1, <2>2, <2>3, <2>4 DEF TypeOK
<1>3. CallsInv
  <2>1. \A c \in Call : Phase(c) = "idle" /\ c \notin wire
    BY <1>1 DEF Phase
  <2>2. ASSUME NEW c \in Call PROVE status[c[3]][c[4]] # c
    <3>1. status[c[3]][c[4]] = Nobody
      BY <1>1, CallParts
    <3>2. Nobody[1] = "NONE" /\ c[1] \in {"PENDING", "RESULT"}
      BY DEF Nobody, Call
    <3> QED
      BY <3>1, <3>2
  <2> QED
    BY <2>1, <2>2 DEF CallsInv, Unsent, Trusted
<1>4. RequestsInv
  <2>1. ASSUME NEW r \in Requests
        PROVE  Fits(requests[r]) /\ PlanSound(r) /\ PlanComplete(r) /\ BehindIsDone(r)
    <3>1. /\ requests[r] = Idle
          /\ Idle.phase = "idle" /\ Idle.plan = <<>> /\ Idle.at = 0 /\ Idle.kind = "none"
          /\ Idle.parts = <<>>
      BY <1>1 DEF Idle
    <3>2. Fits(Idle)
      <4>1. Len(<<>>) = 0
        OBVIOUS
      <4> QED
        BY <3>1, <4>1 DEF Fits
    <3> QED
      BY <3>1, <3>2 DEF PlanSound, PlanComplete, BehindIsDone, Running
  <2>2. \A c \in Call : MadeByPlan(c)
    BY <1>1 DEF MadeByPlan, Phase
  <2> QED
    BY <2>1, <2>2 DEF RequestsInv
<1> QED
  BY <1>2, <1>3, <1>4 DEF Inv

(* Handlers and middlewares come and go beside the requests and the calls. *)
LEMMA BesideStep ==
  ASSUME TypeOK, RequestsInv, UNCHANGED <<authentication, calls, wire, status, measureRequests, requests>>,
         updateMiddleware' \in BOOLEAN, handlers' \subseteq HandlerKinds
  PROVE  TypeOK' /\ RequestsInv'
<1>1. TypeOK'
  BY DEF TypeOK, NgsiTypeOK
<1>2. /\ \A s \in Requests : Fits(requests'[s])
      /\ \A c \in Call : Phase(c)' = Phase(c)
  BY DEF RequestsInv, Phase
<1>3. OksStay
  BY <1>2 DEF OksStay
<1>4. ASSUME NEW r \in Requests PROVE PlanSound(r)' /\ PlanComplete(r)' /\ BehindIsDone(r)'
  <2>1. SamePlan(r)
    BY DEF SamePlan
  <2>2. requests[r].phase \in {"running", "ok"} \/ requests'[r].phase \notin {"running", "ok"}
    OBVIOUS
  <2>3. PlanSound(r)' /\ PlanComplete(r)'
    BY <2>1, <2>2, PlanKept DEF RequestsInv
  <2>4. BehindIsDone(r)'
    BY <1>3, <2>1, BehindKept
  <2> QED
    BY <2>3, <2>4
<1>5. ASSUME NEW c \in Call PROVE MadeByPlan(c)'
  <2>1. MadeByPlan(c) /\ Phase(c)' = Phase(c)
    BY <1>2 DEF RequestsInv
  <2>2. PendingDue(c)' <=> PendingDue(c)
    BY DEF PendingDue, Running, CurrentAction, PendingCall, Element
  <2>3. ASSUME NEW k, PendingAt(c[2], k), c = CallAt(c[2], k)
        PROVE  PendingAt(c[2], k)' /\ c = CallAt(c[2], k)'
    BY <2>3 DEF PendingAt, CallAt, PendingCall, Element
  <2> QED
    BY <2>1, <2>2, <2>3 DEF MadeByPlan
<1> QED
  BY <1>1, <1>2, <1>4, <1>5 DEF RequestsInv

(* Bodies that come in.                                                    *)
LEMMA ArrivalStep ==
  ASSUME TypeOK, RequestsInv, NEW r \in Requests, NEW kind \in Kinds, NEW body \in Bodies[r][kind],
         Refuse(r, kind, body) \/ Receive(r, kind, body) \/ (kind = "notify" /\ Notify(r, body))
  PROVE  TypeOK' /\ RequestsInv'
<1>1. requests[r].phase = "idle" /\ UNCHANGED <<ngsiVars, handlers>>
  BY DEF Refuse, Receive, Notify
<1>2. \A q : Becomes(r, q) /\ Good(r, q) /\ q.plan = <<>> /\ q.phase \notin {"running", "ok"}
        => TypeOK' /\ RequestsInv'
  BY <1>1, Arrives
<1>3. kind \in Kinds \union {"none"} /\ kind # "none"
  BY DEF Kinds
<1>4. body \in {<<>>} \union UNION {UNION {Bodies[s][k] : k \in Kinds} : s \in Requests}
  OBVIOUS
<1>5. Len(<<>>) = 0
  OBVIOUS
<1>6. ASSUME NEW q \in Request, q.kind = kind, q.body = body, q.plan = <<>>, q.at = 0,
             q.phase \in {"error", "lookedUp", "notifying", "unrouted"},
             kind # "notify" => q.parts = <<>>,
             q.phase = "lookedUp" =>
               kind \in {"update", "query"} /\ \A i \in DOMAIN body : Registered(body[i].id),
             Becomes(r, q)
      PROVE  TypeOK' /\ RequestsInv'
  <2>1. Fits(q)
    BY <1>3, <1>5, <1>6 DEF Fits
  <2> QED
    BY <1>2, <1>6, <2>1 DEF Good
<1> DEFINE Came(phase) == [Idle EXCEPT !.kind = kind, !.body = body, !.phase = phase]
           Told(phase, parts) ==
             [Idle EXCEPT !.kind = kind, !.body = body, !.parts = parts, !.phase = phase]
<1>7. ASSUME NEW phase \in {"error", "lookedUp", "notifying", "unrouted"},
             NEW parts \in Seq({"todo", "handling", "done", "failed"})
      PROVE  /\ Came(phase) \in Request /\ Told(phase, parts) \in Request
             /\ Came(phase).kind = kind /\ Told(phase, parts).kind = kind
             /\ Came(phase).body = body /\ Told(phase, parts).body = body
             /\ Came(phase).plan = <<>> /\ Told(phase, parts).plan = <<>>
             /\ Came(phase).at = 0 /\ Told(phase, parts).at = 0
             /\ Came(phase).phase = phase /\ Told(phase, parts).phase = phase
             /\ Came(phase).parts = <<>> /\ Told(phase, parts).parts = parts
  <2>1. phase \in {"idle", "lookedUp", "running", "notifying"} \union Over
    BY DEF Over, Answers
  <2>2. /\ Idle \in Request
        /\ Idle.plan = <<>> /\ Idle.at = 0 /\ Idle.parts = <<>>
    BY DEF Idle, Request
  <2>3. Came(phase) \in Request /\ Told(phase, parts) \in Request
    BY <1>3, <1>4, <2>1, <2>2 DEF Request
  <2> QED
    BY <2>2, <2>3 DEF Request
<1>8. <<>> \in Seq({"todo", "handling", "done", "failed"})
  OBVIOUS
<1> HIDE DEF Came, Told
<1>9. CASE Refuse(r, kind, body)
  <2>1. Becomes(r, Came("error"))
    BY <1>9 DEF Refuse, Becomes, Came
  <2> QED
    BY <1>6, <1>7, <1>8, <2>1
<1>10. CASE Receive(r, kind, body)
  <2> DEFINE known == \A i \in DOMAIN body : Registered(body[i].id)
  <2>1. PICK p \in {"lookedUp", "error"} : Becomes(r, Came(p)) /\ (p = "lookedUp" => known)
    BY <1>10 DEF Receive, Becomes, Came
  <2>2. kind \in {"update", "query"}
    BY <1>10 DEF Receive
  <2> HIDE DEF known
  <2>3. /\ Came(p) \in Request
        /\ Came(p).kind = kind /\ Came(p).body = body /\ Came(p).plan = <<>>
        /\ Came(p).at = 0 /\ Came(p).phase = p /\ Came(p).parts = <<>>
    <3>1. CASE p = "lookedUp"
      BY <1>7, <1>8, <3>1
    <3>2. CASE p = "error"
      BY <1>7, <1>8, <3>2
    <3> QED
      BY <3>1, <3>2
  <2> QED
    BY <1>6, <2>1, <2>2, <2>3 DEF known
<1>11. CASE kind = "notify" /\ Notify(r, body)
  <2> DEFINE todo == [i \in DOMAIN body |-> IF body[i].code = 200 THEN "todo" ELSE "failed"]
             parts == IF "notify" \in handlers THEN todo ELSE <<>>
             phase == IF "notify" \notin handlers THEN "error"
                      ELSE IF "failed" \in ToSet(todo) \/ body = <<>> THEN "unrouted"
                      ELSE "notifying"
  <2>1. body \in Seq(ToSet(body))
    BY ContextAssumption
  <2>2. todo \in Seq({"todo", "handling", "done", "failed"})
    <3>1. Len(body) \in Nat /\ DOMAIN body = 1 .. Len(body)
      BY <2>1, LenProperties
    <3>2. todo \in [1 .. Len(body) -> {"todo", "handling", "done", "failed"}]
      BY <3>1
    <3> QED
      BY <3>1, <3>2
  <2>3. Becomes(r, Told(phase, parts))
    BY <1>11 DEF Notify, Becomes, Told
  <2>4. phase \in {"error", "notifying", "unrouted"} /\ parts \in Seq({"todo", "handling", "done", "failed"})
    BY <1>8, <2>2
  <2> HIDE DEF todo, parts, phase
  <2>5. /\ Told(phase, parts) \in Request
        /\ Told(phase, parts).kind = kind /\ Told(phase, parts).body = body
        /\ Told(phase, parts).plan = <<>> /\ Told(phase, parts).at = 0
        /\ Told(phase, parts).phase = phase
    BY <1>7, <2>4
  <2> QED
    BY <1>6, <1>11, <2>3, <2>4, <2>5
<1> QED
  BY <1>9, <1>10, <1>11

LEMMA Invariance == Spec => []Inv
<1>1. Inv /\ [Next]_vars => Inv'
  <2> SUFFICES ASSUME Inv, [Next]_vars PROVE Inv'
    OBVIOUS
  <2> USE DEF Inv
  <2>1. CASE UNCHANGED vars
    <3>1. TypeOK' /\ RequestsInv'
      BY <2>1, BesideStep DEF vars, ngsiVars, TypeOK, NgsiTypeOK
    <3>2. CallsInv'
      BY <2>1 DEF vars, ngsiVars, CallsInv, Unsent, Trusted, Phase, HasTrust
    <3> QED
      BY <3>1, <3>2
  <2>2. CASE Next
    <3>1. CallsInv'
      BY <2>2, CallsStep DEF TypeOK
    <3>2. ASSUME NEW h \in HandlerKinds, SetHandler(h) PROVE TypeOK' /\ RequestsInv'
      BY <3>2, BesideStep DEF SetHandler, ngsiVars, TypeOK, NgsiTypeOK
    <3>3. ASSUME NEW r \in Requests, AgentStep(r) PROVE TypeOK' /\ RequestsInv'
      <4>1. ASSUME NEW i \in DOMAIN requests[r].parts, Extract(r, i) \/ NotificationHandled(r, i)
            PROVE  TypeOK' /\ RequestsInv'
        <5>1. UNCHANGED <<ngsiVars, handlers>>
              /\ \E p \in {"handling", "done", "failed"} : SetPart(r, i, p)
          BY <4>1 DEF Extract, NotificationHandled
        <5> QED
          BY <5>1, PartMoves
      <4> QED
        BY <3>3, <4>1, PlanStep, HandlerAnswersStep DEF AgentStep
    <3>4. ASSUME ResetMiddlewares, UNCHANGED <<handlers, requests>> PROVE TypeOK' /\ RequestsInv'
      BY <3>4, BesideStep DEF ResetMiddlewares, TypeOK, NgsiTypeOK
    <3>5. TypeOK' /\ RequestsInv'
      BY <2>2, <3>2, <3>3, <3>4, ArrivalStep, CallMovesStep, BrokerStep, ReportStep DEF Next
    <3> QED
      BY <3>1, <3>5
  <2> QED
    BY <2>1, <2>2
<1> QED
  BY <1>1, InitInv, PTL DEF Spec

---------------------------------------------------------------------------
(* What follows.                                                           *)

(* Types: a request's plan holds actions for its own elements, its place   *)
(* in the plan exists while it runs, and at the broker an attribute has    *)
(* been written by one of the calls.                                       *)
THEOREM TypeCorrect == Spec => []TypeOK
<1>1. Inv => TypeOK
  BY DEF Inv
<1> QED
  BY <1>1, Invariance, PTL

(* With authentication enabled, only calls with a trust reach the broker   *)
(* (executeWithDeviceInformation), for any devices, groups and types.      *)
THEOREM TrustedOnly == Spec => []OnlyTrustedCalls
<1>1. Inv => OnlyTrustedCalls
  BY DEF Inv, CallsInv, Trusted, OnlyTrustedCalls
<1> QED
  BY <1>1, Invariance, PTL

(* An update answered 200 has put PENDING at the broker for each command   *)
(* of each element (handleUpdate, executeUpdateSideEffects).               *)
THEOREM OkMeansPending == Spec => []AnsweredOkMeansPending
<1>1. ASSUME Inv PROVE AnsweredOkMeansPending
  <2> SUFFICES ASSUME NEW r \in Requests, requests[r].kind = "update", requests[r].phase = "ok",
                      NEW i \in DOMAIN requests[r].body, NEW x \in Named(r, i)
               PROVE  Phase(<<"PENDING", r, Element(r, i).id, x>>) = "ok"
    BY DEF AnsweredOkMeansPending, Named
  <2>1. PICK k \in DOMAIN requests[r].plan : requests[r].plan[k] = PendingAction(i, x)
    BY <1>1 DEF Inv, RequestsInv, PlanComplete
  <2>2. PendingAt(r, k) /\ CallAt(r, k) = <<"PENDING", r, Element(r, i).id, x>>
    BY <2>1 DEF PendingAt, CallAt, PendingCall, PendingAction
  <2> QED
    BY <1>1, <2>2 DEF Inv, RequestsInv, BehindIsDone
<1> QED
  BY <1>1, Invariance, PTL

(* The broker is told PENDING only for a command that the command handler  *)
(* was given, if there is one (createActionsArray).                        *)
THEOREM PendingWasDelivered == Spec => []PendingMeansDelivered
<1>1. ASSUME Inv PROVE PendingMeansDelivered
  <2> SUFFICES ASSUME NEW c \in Call, ~ IsResult(c), c \in wire \/ status[c[3]][c[4]] = c
               PROVE  \/ Delivered(c[2], c[3], c[4])
                      \/ \A a \in ToSet(requests[c[2]].plan) : a.do # "command"
    BY DEF PendingMeansDelivered
  <2> DEFINE r == c[2]
  <2>1. r \in Requests /\ c[3] \in Devices
    BY CallParts
  <2>2. Phase(c) # "idle"
    BY <1>1 DEF Inv, CallsInv, Unsent
  <2>3. PICK k \in DOMAIN requests[r].plan : k <= requests[r].at /\ PendingAt(r, k) /\ c = CallAt(r, k)
    BY <1>1, <2>2 DEF Inv, RequestsInv, MadeByPlan
  <2> DEFINE a == requests[r].plan[k]
  <2>4. /\ requests[r].kind = "update"
        /\ a.command \in Named(r, a.element)
        /\ \/ \E j \in 1 .. k : requests[r].plan[j] = HandlerAction("command", a.element)
           \/ \A j \in DOMAIN requests[r].plan : requests[r].plan[j].do # "command"
    BY <1>1, <2>1, <2>3 DEF Inv, RequestsInv, PlanSound, PendingAt
  <2>5. c[3] = Element(r, a.element).id /\ c[4] = a.command
    BY <2>3 DEF CallAt, PendingCall
  <2>6. CASE \E j \in 1 .. k : requests[r].plan[j] = HandlerAction("command", a.element)
    <3>1. PICK j \in 1 .. k : requests[r].plan[j] = HandlerAction("command", a.element)
      BY <2>6
    <3>2. /\ requests[r].plan \in Seq(Actions) /\ requests[r].at \in Nat
      BY <1>1, <2>1 DEF Inv, TypeOK, Request
    <3>3. j \in 1 .. requests[r].at
      BY <2>3, <3>1, <3>2
    <3>4. requests[r].plan[j].do = "command" /\ requests[r].plan[j].element = a.element
      BY <3>1 DEF HandlerAction
    <3>5. a.command \in DeviceCommands[Element(r, a.element).id] \intersect ToSet(Element(r, a.element).names)
      BY <2>4 DEF Named
    <3> QED
      BY <2>4, <2>5, <3>3, <3>4, <3>5 DEF Delivered
  <2>7. CASE \A j \in DOMAIN requests[r].plan : requests[r].plan[j].do # "command"
    BY <2>7 DEF ToSet
  <2> QED
    BY <2>4, <2>6, <2>7
<1> QED
  BY <1>1, Invariance, PTL

---------------------------------------------------------------------------
(* The library around the server: Lifecycle and Statistics, as L.          *)

(* A tick performs the actions of a sequence from the left: what holds of  *)
(* the statistics before it and is kept by each action holds after it.     *)
Before == [stats |-> stats, reported |-> reported]

(* g computes what the actions at the positions in s, a set up to m, do.   *)
Performs(g, actions, m) ==
    g = [s \in SUBSET (1 .. m) |->
           IF s = {} THEN Before ELSE Perform(g[s \ {Max(s)}], actions[Max(s)])]

LEMMA LastOf ==
  ASSUME NEW m \in Nat, NEW s \in SUBSET (1 .. m), s # {}
  PROVE  /\ Max(s) \in s
         /\ m \in s => Max(s) = m
<1> DEFINE T == {m - i : i \in s}
<1>1. PICK x \in T : \A y \in T : x <= y
  <2>1. T \in SUBSET Nat
    <3>1. \A i \in s : m - i \in Nat
      OBVIOUS
    <3> QED
      BY <3>1
  <2>2. T # {}
    OBVIOUS
  <2> HIDE DEF T
  <2> QED
    BY <2>1, <2>2, LeastNat
<1>2. PICK top \in s : \A i \in s : top >= i
  <2>1. PICK i \in s : x = m - i
    BY <1>1
  <2>2. ASSUME NEW j \in s PROVE i >= j
    BY <1>1, <2>1
  <2> QED
    BY <2>2
<1>3. Max(s) \in s /\ \A i \in s : Max(s) >= i
  BY <1>2 DEF Max
<1>4. \A i \in s : i \in Nat /\ i <= m
  OBVIOUS
<1>5. ASSUME m \in s PROVE Max(s) = m
  <2>1. Max(s) \in Nat /\ Max(s) <= m /\ Max(s) >= m
    BY <1>3, <1>4, <1>5
  <2> QED
    BY <2>1
<1> QED
  BY <1>3, <1>5

LEMMA PerformsExists ==
  ASSUME NEW actions, NEW n \in Nat
  PROVE  \E g : Performs(g, actions, n)
<1> DEFINE T == {m \in Nat \ {0} : \E g : Performs(g, actions, m - 1)}
<1>1. 1 \in T
  <2> DEFINE g == [s \in SUBSET (1 .. 0) |-> Before]
  <2>1. g = [s \in SUBSET (1 .. 0) |->
               IF s = {} THEN Before ELSE Perform(g[s \ {Max(s)}], actions[Max(s)])]
    OBVIOUS
  <2>2. Performs(g, actions, 0)
    BY <2>1 DEF Performs
  <2> QED
    BY <2>2
<1>2. ASSUME NEW m \in 1 .. n, m \in T PROVE m + 1 \in T
  <2>1. PICK g : Performs(g, actions, m - 1)
    BY <1>2
  <2> DEFINE h == [s \in SUBSET (1 .. m) |->
                     IF m \in s THEN Perform(g[s \ {m}], actions[m]) ELSE g[s]]
             k == [s \in SUBSET (1 .. m) |->
                     IF s = {} THEN Before ELSE Perform(h[s \ {Max(s)}], actions[Max(s)])]
  <2>2. ASSUME NEW s \in SUBSET (1 .. m) PROVE h[s] = k[s]
    <3>1. CASE m \in s
      <4>1. Max(s) = m /\ s # {}
        BY <3>1, LastOf
      <4>2. s \ {m} \in SUBSET (1 .. m) /\ m \notin s \ {m}
        OBVIOUS
      <4>3. h[s \ {m}] = g[s \ {m}]
        BY <4>2
      <4>4. h[s] = Perform(g[s \ {m}], actions[m])
        BY <3>1
      <4> QED
        BY <4>1, <4>3, <4>4
    <3>2. CASE m \notin s
      <4>1. s \in SUBSET (1 .. (m - 1))
        BY <3>2
      <4>2. g[s] = IF s = {} THEN Before ELSE Perform(g[s \ {Max(s)}], actions[Max(s)])
        BY <2>1, <4>1 DEF Performs
      <4>3. s \ {Max(s)} \in SUBSET (1 .. m) /\ m \notin s \ {Max(s)}
        BY <3>2
      <4>4. h[s \ {Max(s)}] = g[s \ {Max(s)}]
        BY <4>3
      <4>5. h[s] = g[s]
        BY <3>2
      <4> QED
        BY <4>2, <4>4, <4>5
    <3> QED
      BY <3>1, <3>2
  <2>3. h = k
    <3>1. h = [s \in SUBSET (1 .. m) |-> h[s]] /\ k = [s \in SUBSET (1 .. m) |-> k[s]]
      OBVIOUS
    <3> HIDE DEF h, k
    <3> QED
      BY <2>2, <3>1
  <2>4. Performs(h, actions, m)
    BY <2>3 DEF Performs
  <2> HIDE DEF h
  <2>5. (m + 1) - 1 = m /\ m + 1 \in Nat \ {0}
    OBVIOUS
  <2> QED
    BY <2>4, <2>5
<1> HIDE DEF T
<1>3. n + 1 \in Nat \ {0} /\ (n + 1) - 1 = n
  OBVIOUS
<1>4. n + 1 \in T
  BY <1>1, <1>2, <1>3, Reaches
<1> QED
  BY <1>3, <1>4 DEF T

LEMMA PerformedKeeps ==
  ASSUME NEW actions, NEW n \in Nat, DOMAIN actions = 1 .. n,
         NEW Fitting, Before \in Fitting,
         \A state \in Fitting : \A i \in 1 .. n : Perform(state, actions[i]) \in Fitting
  PROVE  Performed(actions) \in Fitting
<1> DEFINE f == CHOOSE g : Performs(g, actions, n)
<1>1. Performs(f, actions, n)
  BY PerformsExists
<1>2. Performed(actions) = f[1 .. n]
  <2> DEFINE F == CHOOSE F : F = [s \in SUBSET DOMAIN actions |->
                IF s = {} THEN Before ELSE Perform(F[s \ {Max(s)}], actions[Max(s)])]
  <2>1. Performed(actions) = F[DOMAIN actions]
    BY DEF Performed, FoldLeft, MapThenFoldSet, Max, Before
  <2>2. F = f
    BY DEF Performs
  <2> QED
    BY <2>1, <2>2
<1> HIDE DEF f
<1>3. \A s \in SUBSET (1 .. n) :
        f[s] = IF s = {} THEN Before ELSE Perform(f[s \ {Max(s)}], actions[Max(s)])
  BY <1>1 DEF Performs
<1> DEFINE T == {m \in Nat : f[1 .. (m - 1)] \in Fitting}
<1>4. 1 \in T
  <2>1. 1 .. (1 - 1) = {} /\ {} \in SUBSET (1 .. n)
    OBVIOUS
  <2>2. f[{}] = Before
    BY <1>3, <2>1
  <2> QED
    BY <2>1, <2>2
<1>5. ASSUME NEW m \in 1 .. n, m \in T PROVE m + 1 \in T
  <2>1. 1 .. m \in SUBSET (1 .. n) /\ 1 .. m # {} /\ m \in 1 .. m
    <3>1. m \in 1 .. m
      OBVIOUS
    <3>2. \A i \in 1 .. m : i \in 1 .. n
      OBVIOUS
    <3> QED
      BY <3>1, <3>2
  <2>2. Max(1 .. m) = m
    <3>1. m \in Nat /\ 1 .. m \in SUBSET (1 .. m)
      OBVIOUS
    <3> QED
      BY <2>1, <3>1, LastOf
  <2>3. (1 .. m) \ {m} = 1 .. (m - 1)
    OBVIOUS
  <2>4. f[1 .. m] = Perform(f[1 .. (m - 1)], actions[m])
    BY <1>3, <2>1, <2>2, <2>3
  <2>5. f[1 .. (m - 1)] \in Fitting
    BY <1>5
  <2>6. f[1 .. m] \in Fitting
    BY <2>4, <2>5
  <2>7. (m + 1) - 1 = m
    OBVIOUS
  <2> QED
    BY <2>6, <2>7
<1> HIDE DEF T
<1>6. n + 1 \in Nat \ {0} /\ (n + 1) - 1 = n
  OBVIOUS
<1>7. n + 1 \in T
  BY <1>4, <1>5, <1>6, Reaches
<1> QED
  BY <1>2, <1>6, <1>7 DEF T

(* Types: the pairs of objects and the timer's actions are sequences, and  *)
(* a server that is being bound is that of an activation.                  *)
Statistic == [current : Nat, global : Nat]

LifecycleTypes ==
    /\ LifecycleTypeOK
    /\ stats \in Seq(Statistic)
    /\ timerActions \in Seq(Action)
    /\ stage = "binding" => northboundServer # 0

(* The library was started by an activation and not stopped yet.           *)
Started == {"binding", "registering", "active", "failed", "stuck"}

(* A started library has its handler, unless it is to die of an exception; *)
(* without a start nothing runs that could throw one.                      *)
HandlerOnStart ==
    /\ config.valid /\ ~ config.die /\ stage \in Started => errorHandlers > 0
    /\ stage = "none" \/ ~ config.valid =>
         /\ northboundServer = 0 /\ listening = {} /\ ~ timerHandler
         /\ stage \in {"none", "failed", "inactive"}

(* If the agent clears the timers, the actions of the timer are those of   *)
(* the server that listens, and work on the objects in use.                *)
ActionsOnUse ==
    ClearsTimers =>
        /\ listening = {} => timerActions = <<>>
        /\ stage \in {"registering", "active"} => listening # {}
        /\ \A k \in DOMAIN timerActions : timerActions[k].on = InUse

(* The statistics of a tick: as many pairs of objects as before it; and,   *)
(* if the actions work on the last, nothing is counted, and nothing or all *)
(* of what was pending is reported.                                        *)
Pairs == {state \in [stats : Seq(Statistic), reported : Nat] : Len(state.stats) = Len(stats)}

Told(state) ==
    LET now == state.stats[InUse] IN
    /\ now.global = stats[InUse].global
    /\ state.reported + now.current = reported + stats[InUse].current
    /\ state = Before \/ now.current = 0

LEMMA PerformTypes ==
  ASSUME LifecycleTypes, NEW state \in Pairs,
         NEW action \in Action, action.on \in 1 .. Len(stats)
  PROVE  /\ Perform(state, action) \in Pairs
         /\ action.on = InUse /\ Told(state) => Told(Perform(state, action))
<1>1. /\ state.stats \in Seq(Statistic) /\ state.reported \in Nat
      /\ Len(state.stats) = Len(stats)
  BY DEF Pairs
<1>2. Len(stats) \in Nat /\ Len(stats) > 0 /\ InUse = Len(stats)
  BY DEF LifecycleTypes, LifecycleTypeOK, StatsTypeOK, InUse
<1>3. \A g \in 1 .. Len(stats) :
        state.stats[g] \in Statistic /\ state.stats[g].current \in Nat /\ state.stats[g].global \in Nat
  <2>1. \A g \in 1 .. Len(stats) : state.stats[g] \in Statistic
    BY <1>1, ElementOfSeq
  <2>2. \A v \in Statistic : v.current \in Nat /\ v.global \in Nat
    BY DEF Statistic
  <2> QED
    BY <2>1, <2>2
<1> DEFINE reset == [state.stats EXCEPT ![InUse].current = 0]
           sum == state.reported + state.stats[action.on].current
<1>4. CASE action.does = "persist"
  BY <1>4 DEF Perform
<1>5. CASE action.does # "persist"
  <2>1. Perform(state, action) = [stats |-> reset, reported |-> sum]
    BY <1>5 DEF Perform
  <2>2. sum \in Nat
    BY <1>1, <1>3
  <2>3. reset[InUse] = [state.stats[InUse] EXCEPT !.current = 0]
    BY <1>1, <1>2
  <2>4. /\ reset[InUse] \in Statistic /\ reset[InUse].current = 0
        /\ reset[InUse].global = state.stats[InUse].global
    BY <1>2, <1>3, <2>3 DEF Statistic
  <2>5. reset \in Seq(Statistic) /\ Len(reset) = Len(stats)
    <3>1. reset = [state.stats EXCEPT ![InUse] = [state.stats[InUse] EXCEPT !.current = 0]]
      OBVIOUS
    <3>2. [state.stats[InUse] EXCEPT !.current = 0] \in Statistic
      BY <2>3, <2>4
    <3> HIDE DEF reset
    <3> QED
      BY <1>1, <1>2, <3>1, <3>2, ExceptSeq
  <2> HIDE DEF reset, sum
  <2>6. Perform(state, action) \in Pairs
    BY <2>1, <2>2, <2>5 DEF Pairs
  <2>7. ASSUME action.on = InUse, Told(state) PROVE Told(Perform(state, action))
    <3>1. sum = state.reported + state.stats[InUse].current
      BY <2>7 DEF sum
    <3>2. sum + 0 = sum
      BY <2>2
    <3>3. /\ state.stats[InUse].global = stats[InUse].global
          /\ state.reported + state.stats[InUse].current = reported + stats[InUse].current
      BY <2>7 DEF Told
    <3> QED
      BY <2>1, <2>4, <3>1, <3>2, <3>3 DEF Told
  <2> QED
    BY <2>6, <2>7
<1> QED
  BY <1>4, <1>5

(* The statistics after a tick.                                            *)
LEMMA RunsUntilIs ==
  ASSUME LifecycleTypes
  PROVE  RunsUntil \in 0 .. Len(timerActions)
<1> DEFINE persists == {k \in DOMAIN timerActions : timerActions[k].does = "persist"}
<1>1. Len(timerActions) \in Nat /\ DOMAIN timerActions = 1 .. Len(timerActions)
  BY DEF LifecycleTypes
<1>2. CASE persists # {}
  <2>1. persists \in SUBSET Nat /\ persists \subseteq 1 .. Len(timerActions)
    BY <1>1
  <2>2. \E k \in persists : \A j \in persists : k <= j
    BY <1>2, <2>1, LeastNat
  <2>3. Min(persists) \in persists
    BY <2>2 DEF Min
  <2>4. Min(persists) - 1 \in 0 .. Len(timerActions)
    BY <1>1, <2>1, <2>3
  <2> QED
    BY <1>1, <2>4 DEF RunsUntil
<1>3. CASE persists = {}
  BY <1>1, <1>3 DEF RunsUntil
<1> QED
  BY <1>2, <1>3

LEMMA TickKeeps ==
  ASSUME LifecycleTypes
  PROVE  LET after == Performed(SubSeq(timerActions, 1, RunsUntil))
         IN  /\ after \in Pairs
             /\ (\A k \in DOMAIN timerActions : timerActions[k].on = InUse) => Told(after)
<1> DEFINE n == RunsUntil
           run == SubSeq(timerActions, 1, n)
           bound == \A k \in DOMAIN timerActions : timerActions[k].on = InUse
           Fitting == {state \in Pairs : bound => Told(state)}
<1>1. n \in Nat /\ n <= Len(timerActions) /\ timerActions \in Seq(Action)
  BY RunsUntilIs DEF LifecycleTypes
<1>2. DOMAIN run = 1 .. n /\ \A i \in 1 .. n : run[i] = timerActions[i]
  BY <1>1
<1>3. \A i \in 1 .. n : /\ run[i] \in Action /\ run[i].on \in 1 .. Len(stats)
                        /\ bound => run[i].on = InUse
  <2>1. \A i \in 1 .. n : i \in DOMAIN timerActions
    BY <1>1
  <2>2. \A k \in DOMAIN timerActions : timerActions[k] \in Action /\ timerActions[k].on \in DOMAIN stats
    BY DEF LifecycleTypes, LifecycleTypeOK, StatsTypeOK
  <2>3. DOMAIN stats = 1 .. Len(stats)
    BY DEF LifecycleTypes
  <2> HIDE DEF n, run
  <2> QED
    BY <1>2, <2>1, <2>2, <2>3
<1>4. Before \in Fitting
  <2>1. Before \in Pairs
    BY DEF Before, Pairs, LifecycleTypes, LifecycleTypeOK, StatsTypeOK
  <2>2. Told(Before)
    BY DEF Told, Before
  <2> QED
    BY <2>1, <2>2
<1>5. \A state \in Fitting : \A i \in 1 .. n : Perform(state, run[i]) \in Fitting
  <2> SUFFICES ASSUME NEW state \in Fitting, NEW i \in 1 .. n
               PROVE  Perform(state, run[i]) \in Fitting
    OBVIOUS
  <2> HIDE DEF n, run, bound
  <2>1. state \in Pairs /\ (bound => Told(state))
    OBVIOUS
  <2>2. run[i] \in Action /\ run[i].on \in 1 .. Len(stats) /\ (bound => run[i].on = InUse)
    BY <1>3
  <2>3. /\ Perform(state, run[i]) \in Pairs
        /\ run[i].on = InUse /\ Told(state) => Told(Perform(state, run[i]))
    BY <2>1, <2>2, PerformTypes
  <2> QED
    BY <2>1, <2>2, <2>3
<1> HIDE DEF Fitting, run, n
<1>6. Performed(run) \in Fitting
  BY <1>1, <1>2, <1>4, <1>5, PerformedKeeps
<1> QED
  BY <1>6 DEF Fitting, run, n

---------------------------------------------------------------------------
(* The invariants hold at the start and after each step.                   *)
LifecycleInv ==
    /\ LifecycleTypes
    /\ HandlerOnStart /\ SurvivesWhileStarted
    /\ ActionsOnUse /\ (ClearsTimers => EverythingReportedOnce)

LEMMA LifecycleInvInit ==
  ASSUME LifecycleInit
  PROVE  LifecycleInv
<1>1. LifecycleTypes
  <2>1. stats = <<[current |-> 0, global |-> 0]>> /\ timerActions = <<>>
    BY DEF LifecycleInit, StatsInit, Zero
  <2>2. stats \in Seq(Statistic) /\ timerActions \in Seq(Action) /\ DOMAIN timerActions = {}
    BY <2>1 DEF Statistic
  <2>3. StatsTypeOK
    <3>1. Len(stats) = 1 /\ DOMAIN stats = {1}
      BY <2>1
    <3>2. stats[1] \in [current : Nat, global : Nat]
      BY <2>1
    <3>3. timerHandler \in BOOLEAN /\ reported \in Nat
      BY DEF LifecycleInit, StatsInit
    <3>4. \A g \in DOMAIN stats : stats[g] \in [current : Nat, global : Nat]
      BY <3>1, <3>2
    <3> QED
      BY <2>2, <3>1, <3>3, <3>4 DEF StatsTypeOK
  <2>4. /\ activations \in 0 .. MaxActivations /\ ticks \in 0 .. MaxTicks
        /\ northboundServer \in 0 .. activations /\ errorHandlers \in 0 .. activations
        /\ listening \subseteq 1 .. activations
    BY LifecycleAssumption DEF LifecycleInit
  <2>5. config \in Configs /\ stage \in Stages /\ registry \in {"none", "memory", "mongodb"}
        /\ {db, alive} \subseteq BOOLEAN
    BY DEF LifecycleInit, Stages
  <2>6. stage # "binding"
    BY DEF LifecycleInit
  <2> QED
    BY <2>2, <2>3, <2>4, <2>5, <2>6 DEF LifecycleTypeOK, LifecycleTypes
<1>2. HandlerOnStart /\ SurvivesWhileStarted
  BY DEF LifecycleInit, StatsInit, HandlerOnStart, Started, SurvivesWhileStarted
<1>3. ActionsOnUse
  BY DEF LifecycleInit, StatsInit, ActionsOnUse
<1>4. EverythingReportedOnce
  BY DEF LifecycleInit, StatsInit, Zero, EverythingReportedOnce, InUse
<1> QED
  BY <1>1, <1>2, <1>3, <1>4 DEF LifecycleInv

(* An activation.                                                          *)
LEMMA ActivateStep ==
  ASSUME LifecycleInv, alive, Activate
  PROVE  LifecycleInv'
<1> USE DEF LifecycleInv
<1>1. /\ stats' = stats /\ timerActions' = timerActions /\ timerHandler' = timerHandler
      /\ reported' = reported /\ config' = config /\ listening' = listening
      /\ ticks' = ticks /\ alive' = alive
      /\ activations' = activations + 1 /\ activations' \in 1 .. MaxActivations
      /\ stage \in {"none", "failed", "inactive", "notClosed"}
  BY LifecycleAssumption DEF Activate, statsVars, LifecycleTypes, LifecycleTypeOK
<1>2. /\ stage' \in {"binding", "failed"} /\ (stage' = "binding" => config.valid)
      /\ northboundServer' \in {northboundServer, activations'}
      /\ (stage' = "binding" => northboundServer' = activations')
      /\ registry' \in {"none", "memory", "mongodb"} /\ db' \in BOOLEAN
      /\ errorHandlers' \in {errorHandlers, errorHandlers + 1}
      /\ (config.valid /\ ~ config.die => errorHandlers' = errorHandlers + 1)
  BY DEF Activate, ConfigureDb, HandlersInstalled, RegistryChosen, LifecycleTypes, LifecycleTypeOK
<1>3. LifecycleTypes'
  <2>1. StatsTypeOK'
    BY <1>1 DEF LifecycleTypes, LifecycleTypeOK, StatsTypeOK
  <2>2. /\ northboundServer' \in 0 .. activations' /\ listening' \subseteq 1 .. activations'
        /\ errorHandlers' \in 0 .. activations' /\ activations' \in 0 .. MaxActivations
        /\ (stage' = "binding" => northboundServer' # 0)
    BY <1>1, <1>2, LifecycleAssumption DEF LifecycleTypes, LifecycleTypeOK
  <2> QED
    BY <1>1, <1>2, <2>1, <2>2 DEF LifecycleTypes, LifecycleTypeOK, Stages
<1>4. HandlerOnStart'
  <2>1. config.valid /\ ~ config.die => errorHandlers' > 0
    <3>1. errorHandlers \in Nat
      BY DEF LifecycleTypes, LifecycleTypeOK
    <3> QED
      BY <1>2, <3>1
  <2>2. ~ config.valid => /\ northboundServer' = 0 /\ listening' = {} /\ ~ timerHandler'
                          /\ stage' = "failed"
    <3>1. ~ config.valid => northboundServer' = northboundServer
      BY DEF Activate
    <3> QED
      BY <1>1, <1>2, <3>1 DEF HandlerOnStart
  <2>3. stage' # "none"
    BY <1>2
  <2> QED
    BY <1>1, <2>1, <2>2, <2>3 DEF HandlerOnStart
<1>5. SurvivesWhileStarted'
  BY <1>1, <1>2 DEF SurvivesWhileStarted
<1>6. ActionsOnUse' /\ (ClearsTimers => EverythingReportedOnce')
  BY <1>1, <1>2 DEF ActionsOnUse, EverythingReportedOnce, InUse
<1> QED
  BY <1>3, <1>4, <1>5, <1>6

(* The server listens.                                                     *)
LEMMA ListeningStep ==
  ASSUME LifecycleInv, Listening
  PROVE  LifecycleInv'
<1> USE DEF LifecycleInv
<1>1. /\ config' = config /\ registry' = registry /\ db' = db
      /\ northboundServer' = northboundServer /\ errorHandlers' = errorHandlers
      /\ activations' = activations /\ ticks' = ticks /\ alive' = alive
      /\ stage = "binding" /\ listening = {} /\ listening' = {northboundServer}
  BY DEF Listening
<1>2. stage' \in {"active", "failed", "registering"}
  <2>1. config.manager \in {"none", "incomplete", "complete"}
    BY LifecycleAssumption DEF LifecycleTypes, LifecycleTypeOK, Config
  <2> QED
    BY <2>1 DEF Listening
<1>3. config.valid
  BY <1>1 DEF HandlerOnStart
<1>4. CASE config.stats
  <2> DEFINE zero == [current |-> 0, global |-> 0]
             log == [does |-> "logStats", on |-> Len(stats')]
  <2>1. /\ stats' = Append(stats, zero) /\ reported' = 0
        /\ timerActions' = Append(timerActions, log) /\ timerHandler' = TRUE
    BY <1>4 DEF Listening, ActivateStatLogs, Loaded, Zero, WithAction
  <2>2. stats \in Seq(Statistic) /\ timerActions \in Seq(Action)
    BY DEF LifecycleTypes
  <2>3. zero \in Statistic
    BY DEF Statistic
  <2>4. /\ stats' \in Seq(Statistic) /\ Len(stats') = Len(stats) + 1
        /\ stats'[Len(stats')] = zero /\ DOMAIN stats' = 1 .. Len(stats')
    BY <2>1, <2>2, <2>3
  <2>5. Len(stats) \in Nat /\ Len(stats') \in 1 .. Len(stats')
    BY <2>2, <2>4
  <2>6. log \in Action
    BY <2>5 DEF Action
  <2>7. /\ timerActions' \in Seq(Action)
        /\ \A k \in DOMAIN timerActions' :
             timerActions'[k] = log \/ (k \in DOMAIN timerActions /\ timerActions'[k] = timerActions[k])
    BY <2>1, <2>2, <2>6
  <2>8. \A k \in DOMAIN timerActions' : timerActions'[k] \in Action /\ timerActions'[k].on \in DOMAIN stats'
    <3>1. \A k \in DOMAIN timerActions : timerActions[k] \in Action /\ timerActions[k].on \in DOMAIN stats
      BY DEF LifecycleTypes, LifecycleTypeOK, StatsTypeOK
    <3>2. DOMAIN stats \subseteq DOMAIN stats'
      BY <2>2, <2>4, <2>5
    <3>3. log.on \in DOMAIN stats'
      BY <2>4, <2>5
    <3> HIDE DEF log
    <3> QED
      BY <2>6, <2>7, <3>1, <3>2, <3>3
  <2>9. StatsTypeOK'
    <3>1. \A g \in DOMAIN stats' : stats'[g] \in [current : Nat, global : Nat]
      BY <2>4, ElementOfSeq DEF Statistic
    <3> QED
      BY <2>1, <2>4, <2>5, <2>8, <3>1 DEF StatsTypeOK
  <2>10. ClearsTimers => \A k \in DOMAIN timerActions' : timerActions'[k].on = InUse'
    <3>1. ClearsTimers => timerActions = <<>>
      BY <1>1 DEF ActionsOnUse
    <3>2. log.on = InUse'
      BY DEF InUse
    <3> HIDE DEF log
    <3> QED
      BY <2>7, <3>1, <3>2
  <2>11. EverythingReportedOnce'
    BY <2>1, <2>4 DEF EverythingReportedOnce, InUse
  <2>12. LifecycleTypeOK'
    BY <1>1, <1>2, <2>9 DEF LifecycleTypes, LifecycleTypeOK, Stages
  <2> QED
    BY <1>1, <1>2, <1>3, <2>4, <2>7, <2>10, <2>11, <2>12
       DEF LifecycleTypes, HandlerOnStart, Started, SurvivesWhileStarted, ActionsOnUse
<1>5. CASE ~ config.stats
  <2>1. /\ stats' = stats /\ reported' = reported
        /\ timerActions' = timerActions /\ timerHandler' = timerHandler
    BY <1>5 DEF Listening, ActivateStatLogs, statsVars
  <2>2. LifecycleTypes'
    BY <1>1, <1>2, <2>1 DEF LifecycleTypes, LifecycleTypeOK, StatsTypeOK, Stages
  <2>3. ActionsOnUse'
    BY <1>1, <2>1 DEF ActionsOnUse, InUse
  <2>4. ClearsTimers => EverythingReportedOnce'
    BY <2>1 DEF EverythingReportedOnce, InUse
  <2> QED
    BY <1>1, <1>2, <1>3, <2>2, <2>3, <2>4 DEF HandlerOnStart, Started, SurvivesWhileStarted
<1> QED
  BY <1>4, <1>5

(* A step that leaves the statistics alone.                                *)
LEMMA StatsAside ==
  ASSUME LifecycleInv, statsVars' = statsVars
  PROVE  /\ StatsTypeOK' /\ stats' \in Seq(Statistic) /\ timerActions' \in Seq(Action)
         /\ timerHandler' = timerHandler
         /\ ClearsTimers => EverythingReportedOnce'
         /\ (listening' = listening \/ timerActions = <<>>)
              /\ (stage' \in {"registering", "active"} => listening' # {}) => ActionsOnUse'
BY DEF LifecycleInv, LifecycleTypes, statsVars, LifecycleTypeOK, StatsTypeOK, ActionsOnUse,
       EverythingReportedOnce, InUse

(* The listen call fails, the registration is answered, or the last        *)
(* connection has ended.                                                   *)
LEMMA TurnStep ==
  ASSUME LifecycleInv, alive, ListenFails \/ HandleRegistration \/ Closed
  PROVE  LifecycleInv'
<1> USE DEF LifecycleInv
<1>1. /\ statsVars' = statsVars /\ config' = config /\ registry' = registry /\ db' = db
      /\ northboundServer' = northboundServer /\ listening' = listening
      /\ errorHandlers' = errorHandlers /\ activations' = activations /\ ticks' = ticks
  BY DEF ListenFails, HandleRegistration, Closed, statsVars
<1>2. \/ stage = "binding" /\ stage' = "stuck" /\ alive' = (errorHandlers > 0)
      \/ stage = "registering" /\ stage' \in {"active", "failed"} /\ alive' = alive
      \/ stage = "closing" /\ stage' = "inactive" /\ alive' = alive
  BY DEF ListenFails, HandleRegistration, Closed, Throw
<1>3. LifecycleTypes'
  <2>1. stage' \in Stages /\ stage' # "binding" /\ alive' \in BOOLEAN
    <3>1. (errorHandlers > 0) \in BOOLEAN /\ alive \in BOOLEAN
      BY DEF LifecycleTypes, LifecycleTypeOK
    <3>2. alive' \in BOOLEAN
      BY <1>2, <3>1
    <3> QED
      BY <1>2, <3>2 DEF Stages
  <2>2. StatsTypeOK' /\ stats' \in Seq(Statistic) /\ timerActions' \in Seq(Action)
    BY <1>1, StatsAside
  <2> QED
    BY <1>1, <2>1, <2>2 DEF LifecycleTypes, LifecycleTypeOK
<1>4. HandlerOnStart'
  BY <1>1, <1>2, StatsAside DEF HandlerOnStart, Started
<1>5. SurvivesWhileStarted'
  BY <1>1, <1>2 DEF HandlerOnStart, Started, SurvivesWhileStarted
<1>6. stage' \in {"registering", "active"} /\ ClearsTimers => listening' # {}
  BY <1>1, <1>2 DEF ActionsOnUse
<1>7. ActionsOnUse'
  BY <1>1, <1>6, StatsAside DEF ActionsOnUse
<1> QED
  BY <1>1, <1>3, <1>4, <1>5, <1>7, StatsAside

(* A deactivation.                                                         *)
LEMMA DeactivateStep ==
  ASSUME LifecycleInv, alive, Deactivate
  PROVE  LifecycleInv'
<1> USE DEF LifecycleInv
<1>1. /\ stats' = stats /\ reported' = reported /\ config' = config /\ registry' = registry
      /\ db' = db /\ northboundServer' = northboundServer /\ activations' = activations
      /\ ticks' = ticks /\ alive' = alive /\ listening' = listening \ {northboundServer}
  BY DEF Deactivate, StopServer
<1>2. /\ stage' \in {"inactive", "closing", "notClosed"}
      /\ (northboundServer = 0 => stage' = "inactive")
      /\ (stage' = "closing" => northboundServer \in listening)
  BY DEF Deactivate, StopServer
<1>3. /\ timerHandler' \in {timerHandler, FALSE}
      /\ timerActions' \in {timerActions, <<>>}
      /\ (ClearsTimers => timerActions' = <<>>)
  BY DEF Deactivate, ClearTimers
<1>4. errorHandlers' \in 0 .. activations'
  BY <1>1, LifecycleAssumption DEF Deactivate, HandlersLeft, LifecycleTypes, LifecycleTypeOK
<1>5. LifecycleTypes'
  <2>1. timerActions' \in Seq(Action) /\ timerHandler' \in BOOLEAN
    <3>1. <<>> \in Seq(Action) /\ timerActions \in Seq(Action) /\ timerHandler \in BOOLEAN
      BY DEF LifecycleTypes, LifecycleTypeOK, StatsTypeOK
    <3> QED
      BY <1>3, <3>1
  <2>2. \A k \in DOMAIN timerActions' :
          timerActions'[k] \in Action /\ timerActions'[k].on \in DOMAIN stats'
    BY <1>1, <1>3 DEF LifecycleTypes, LifecycleTypeOK, StatsTypeOK
  <2>3. StatsTypeOK'
    BY <1>1, <2>1, <2>2 DEF LifecycleTypes, LifecycleTypeOK, StatsTypeOK
  <2> QED
    BY <1>1, <1>2, <1>4, <2>1, <2>3 DEF LifecycleTypes, LifecycleTypeOK, Stages
<1>6. HandlerOnStart'
  <2>1. ASSUME ~ config.valid
        PROVE  northboundServer = 0 /\ listening' = {} /\ ~ timerHandler' /\ stage' = "inactive"
    <3>1. northboundServer = 0 /\ listening = {} /\ ~ timerHandler
      BY <2>1 DEF HandlerOnStart
    <3>2. timerHandler' = timerHandler \/ ~ timerHandler'
      BY <1>3
    <3> QED
      BY <1>1, <1>2, <3>1, <3>2
  <2> QED
    BY <1>1, <1>2, <2>1 DEF HandlerOnStart, Started
<1>7. SurvivesWhileStarted'
  BY <1>1 DEF SurvivesWhileStarted
<1>8. ActionsOnUse' /\ (ClearsTimers => EverythingReportedOnce')
  BY <1>1, <1>2, <1>3 DEF ActionsOnUse, EverythingReportedOnce, InUse
<1> QED
  BY <1>5, <1>6, <1>7, <1>8

(* A value is added to the pair in use.                                    *)
LEMMA AddEffect ==
  ASSUME LifecycleTypes, Add
  PROVE  /\ stats' \in Seq(Statistic) /\ Len(stats') = Len(stats)
         /\ stats'[Len(stats)].current = stats[Len(stats)].current + 1
         /\ stats'[Len(stats)].global = stats[Len(stats)].global + 1
         /\ reported' = reported
<1> DEFINE last == Len(stats)
           once == [stats[last] EXCEPT !.current = @ + 1]
           value == [once EXCEPT !.global = @ + 1]
           half == [stats EXCEPT ![last] = once]
<1>1. stats \in Seq(Statistic) /\ last \in 1 .. Len(stats)
  BY DEF LifecycleTypes, LifecycleTypeOK, StatsTypeOK
<1>2. stats[last] \in Statistic
  BY <1>1, ElementOfSeq
<1>3. /\ once \in Statistic /\ once.global = stats[last].global
      /\ once.current = stats[last].current + 1
  BY <1>2 DEF Statistic
<1>4. stats' = [half EXCEPT ![last] = [half[last] EXCEPT !.global = @ + 1]] /\ reported' = reported
  BY DEF Add, InUse
<1> HIDE DEF once
<1>5. /\ value \in Statistic /\ value.current = once.current
      /\ value.global = once.global + 1
  BY <1>3 DEF Statistic
<1>6. half \in Seq(Statistic) /\ Len(half) = Len(stats) /\ half[last] = once
  BY <1>1, <1>3, ExceptSeq
<1>7. stats' = [half EXCEPT ![last] = value]
  BY <1>4, <1>6
<1> HIDE DEF half, value
<1>8. stats' \in Seq(Statistic) /\ Len(stats') = Len(stats) /\ stats'[last] = value
  BY <1>1, <1>5, <1>6, <1>7, ExceptSeq
<1> QED
  BY <1>3, <1>4, <1>5, <1>8

(* A request counts a value or throws.                                     *)
LEMMA RequestStep ==
  ASSUME LifecycleInv, alive, HandleRequest
  PROVE  LifecycleInv'
<1> USE DEF LifecycleInv
<1>1. /\ config' = config /\ stage' = stage /\ registry' = registry /\ db' = db
      /\ northboundServer' = northboundServer /\ listening' = listening
      /\ errorHandlers' = errorHandlers /\ activations' = activations /\ ticks' = ticks
      /\ timerActions' = timerActions /\ timerHandler' = timerHandler
  BY DEF HandleRequest, Add, statsVars
<1>2. listening # {} \/ stage = "closing"
  BY DEF HandleRequest, Serving
<1>3. CASE Throw /\ UNCHANGED statsVars
  <2>1. alive' = (errorHandlers > 0)
    BY <1>3 DEF Throw
  <2>2. alive' \in BOOLEAN
    <3>1. (errorHandlers > 0) \in BOOLEAN
      OBVIOUS
    <3> QED
      BY <2>1, <3>1
  <2>3. LifecycleTypes'
    BY <1>1, <1>3, <2>2, StatsAside DEF LifecycleTypes, LifecycleTypeOK
  <2>4. HandlerOnStart'
    BY <1>1 DEF HandlerOnStart
  <2>5. SurvivesWhileStarted'
    <3>1. CASE stage \in Started
      <4>1. config.valid
        BY <1>2, <3>1 DEF HandlerOnStart, Started
      <4> QED
        BY <1>1, <2>1, <3>1, <4>1 DEF HandlerOnStart, SurvivesWhileStarted
    <3>2. CASE stage \notin Started
      <4>1. stage # "none"
        BY <1>2 DEF HandlerOnStart
      <4>2. stage \in {"closing", "inactive", "notClosed"}
        BY <3>2, <4>1 DEF Started, LifecycleTypes, LifecycleTypeOK, Stages
      <4> QED
        BY <1>1, <4>2 DEF SurvivesWhileStarted
    <3> QED
      BY <3>1, <3>2
  <2>6. ActionsOnUse' /\ (ClearsTimers => EverythingReportedOnce')
    <3>1. ClearsTimers => (stage' \in {"registering", "active"} => listening' # {})
      BY <1>1 DEF ActionsOnUse
    <3> QED
      BY <1>1, <1>3, <3>1, StatsAside DEF ActionsOnUse
  <2> QED
    BY <2>3, <2>4, <2>5, <2>6
<1>4. CASE Add /\ UNCHANGED alive
  <2> DEFINE last == Len(stats)
  <2>1. alive' = alive /\ reported' = reported
    BY <1>4, AddEffect
  <2>2. stats \in Seq(Statistic) /\ last \in 1 .. Len(stats) /\ reported \in Nat
    BY DEF LifecycleTypes, LifecycleTypeOK, StatsTypeOK
  <2>3. stats[last].current \in Nat /\ stats[last].global \in Nat
    <3>1. stats[last] \in Statistic
      BY <2>2, ElementOfSeq
    <3> QED
      BY <3>1 DEF Statistic
  <2>4. /\ stats' \in Seq(Statistic) /\ Len(stats') = last
        /\ stats'[last].current = stats[last].current + 1
        /\ stats'[last].global = stats[last].global + 1
    BY <1>4, AddEffect
  <2>5. DOMAIN stats' = 1 .. last /\ DOMAIN stats = 1 .. last
    BY <2>2, <2>4
  <2>6. StatsTypeOK'
    <3>1. \A g \in DOMAIN stats' : stats'[g] \in [current : Nat, global : Nat]
      BY <2>4, <2>5, ElementOfSeq DEF Statistic
    <3> QED
      BY <1>1, <2>1, <2>2, <2>4, <2>5, <3>1 DEF LifecycleTypes, LifecycleTypeOK, StatsTypeOK
  <2>7. LifecycleTypes'
    BY <1>1, <2>1, <2>4, <2>6 DEF LifecycleTypes, LifecycleTypeOK
  <2>8. HandlerOnStart' /\ SurvivesWhileStarted'
    BY <1>1, <2>1 DEF HandlerOnStart, SurvivesWhileStarted
  <2>9. ActionsOnUse'
    BY <1>1, <2>4 DEF ActionsOnUse, InUse
  <2>10. EverythingReportedOnce => EverythingReportedOnce'
    BY <2>1, <2>2, <2>3, <2>4 DEF EverythingReportedOnce, InUse, Statistic
  <2> QED
    BY <2>7, <2>8, <2>9, <2>10
<1> QED
  BY <1>3, <1>4 DEF HandleRequest

(* The agent adds an action to the timer.                                  *)
LEMMA AddPersistenceStep ==
  ASSUME LifecycleInv, alive, AddPersistence
  PROVE  LifecycleInv'
<1> USE DEF LifecycleInv
<1> DEFINE persist == [does |-> "persist", on |-> InUse]
<1>1. /\ config' = config /\ stage' = stage /\ registry' = registry /\ db' = db
      /\ northboundServer' = northboundServer /\ listening' = listening
      /\ errorHandlers' = errorHandlers /\ activations' = activations /\ ticks' = ticks
      /\ alive' = alive /\ stats' = stats /\ reported' = reported /\ timerHandler' = timerHandler
      /\ stage = "active" /\ timerActions' = Append(timerActions, persist)
  BY DEF AddPersistence
<1>2. InUse = Len(stats) /\ InUse' = InUse /\ Len(stats) \in DOMAIN stats /\ Len(stats) \in Nat
  BY <1>1 DEF InUse, LifecycleTypes, LifecycleTypeOK, StatsTypeOK
<1>3. persist \in Action /\ persist.on = InUse
  BY <1>2 DEF Action
<1> HIDE DEF persist
<1>4. /\ timerActions' \in Seq(Action)
      /\ \A k \in DOMAIN timerActions' :
           timerActions'[k] = persist \/ (k \in DOMAIN timerActions /\ timerActions'[k] = timerActions[k])
  BY <1>1, <1>3 DEF LifecycleTypes
<1>5. StatsTypeOK'
  BY <1>1, <1>2, <1>3, <1>4 DEF LifecycleTypes, LifecycleTypeOK, StatsTypeOK
<1>6. LifecycleTypes'
  BY <1>1, <1>4, <1>5 DEF LifecycleTypes, LifecycleTypeOK
<1>7. HandlerOnStart' /\ SurvivesWhileStarted'
  BY <1>1 DEF HandlerOnStart, SurvivesWhileStarted
<1>8. ActionsOnUse'
  BY <1>1, <1>2, <1>3, <1>4 DEF ActionsOnUse
<1>9. EverythingReportedOnce => EverythingReportedOnce'
  BY <1>1 DEF EverythingReportedOnce, InUse
<1> QED
  BY <1>6, <1>7, <1>8, <1>9

(* The timer ticks.                                                        *)
LEMMA TimerTicksStep ==
  ASSUME LifecycleInv, alive, TimerTicks
  PROVE  LifecycleInv'
<1> USE DEF LifecycleInv
<1> DEFINE after == Performed(SubSeq(timerActions, 1, RunsUntil))
<1>1. /\ config' = config /\ stage' = stage /\ registry' = registry /\ db' = db
      /\ northboundServer' = northboundServer /\ listening' = listening
      /\ errorHandlers' = errorHandlers /\ activations' = activations
      /\ ticks' = ticks + 1 /\ ticks < MaxTicks
      /\ timerActions' = timerActions /\ timerHandler' = timerHandler /\ timerHandler
      /\ alive' = alive \/ alive' = (errorHandlers > 0)
  BY DEF TimerTicks, Tick, Throw
<1>2. stats' = after.stats /\ reported' = after.reported
  BY DEF TimerTicks, Tick
<1>3. /\ after \in Pairs
      /\ (\A k \in DOMAIN timerActions : timerActions[k].on = InUse) => Told(after)
  BY TickKeeps
<1> HIDE DEF after
<1>4. stats' \in Seq(Statistic) /\ Len(stats') = Len(stats) /\ reported' \in Nat
  BY <1>2, <1>3 DEF Pairs
<1>5. DOMAIN stats' = DOMAIN stats /\ InUse' = InUse
  BY <1>4 DEF LifecycleTypes, InUse
<1>6. StatsTypeOK'
  <2>1. \A g \in DOMAIN stats' : stats'[g] \in [current : Nat, global : Nat]
    <3>1. DOMAIN stats' = 1 .. Len(stats')
      BY <1>4
    <3> QED
      BY <1>4, <3>1, ElementOfSeq DEF Statistic
  <2> QED
    BY <1>1, <1>4, <1>5, <2>1 DEF LifecycleTypes, LifecycleTypeOK, StatsTypeOK
<1>7. alive' \in BOOLEAN /\ ticks' \in 0 .. MaxTicks
  <2>1. (errorHandlers > 0) \in BOOLEAN /\ alive \in BOOLEAN
    BY DEF LifecycleTypes, LifecycleTypeOK
  <2>2. ticks' \in 0 .. MaxTicks
    BY <1>1, LifecycleAssumption DEF LifecycleTypes, LifecycleTypeOK
  <2> QED
    BY <1>1, <2>1, <2>2
<1>8. LifecycleTypes'
  BY <1>1, <1>4, <1>6, <1>7 DEF LifecycleTypes, LifecycleTypeOK
<1>9. HandlerOnStart'
  BY <1>1 DEF HandlerOnStart
<1>10. SurvivesWhileStarted'
  <2>1. stage # "none" /\ config.valid
    BY <1>1 DEF HandlerOnStart
  <2>2. CASE stage \in Started
    BY <1>1, <2>1, <2>2 DEF HandlerOnStart, SurvivesWhileStarted
  <2>3. CASE stage \notin Started
    <3>1. stage \in {"closing", "inactive", "notClosed"}
      BY <2>1, <2>3 DEF Started, LifecycleTypes, LifecycleTypeOK, Stages
    <3> QED
      BY <1>1, <3>1 DEF SurvivesWhileStarted
  <2> QED
    BY <2>2, <2>3
<1>11. ActionsOnUse'
  BY <1>1, <1>5 DEF ActionsOnUse
<1>12. ClearsTimers => EverythingReportedOnce'
  BY <1>2, <1>3, <1>5 DEF ActionsOnUse, Told, EverythingReportedOnce
<1> QED
  BY <1>8, <1>9, <1>10, <1>11, <1>12

LEMMA LifecycleInvariance ==
  LifecycleSpec => []LifecycleInv
<1>1. LifecycleInit => LifecycleInv
  BY LifecycleInvInit
<1>2. LifecycleInv /\ [LifecycleNext]_lifecycleVars => LifecycleInv'
  <2> SUFFICES ASSUME LifecycleInv, [LifecycleNext]_lifecycleVars
               PROVE  LifecycleInv'
    OBVIOUS
  <2>1. CASE LifecycleNext
    BY <2>1, ActivateStep, ListeningStep, TurnStep, DeactivateStep, RequestStep,
       AddPersistenceStep, TimerTicksStep DEF LifecycleNext
  <2>2. CASE UNCHANGED lifecycleVars
    BY <2>2 DEF lifecycleVars, statsVars, LifecycleInv, LifecycleTypes, LifecycleTypeOK, StatsTypeOK,
         HandlerOnStart, SurvivesWhileStarted, ActionsOnUse, EverythingReportedOnce, InUse
  <2> QED
    BY <2>1, <2>2
<1> QED
  BY <1>1, <1>2, PTL DEF LifecycleSpec

(* The types of the library's life cycle, whatever the configurations,     *)
(* the activations and the requests.                                       *)
THEOREM LifecycleTypeCorrect ==
  LifecycleSpec => []LifecycleTypeOK
<1>1. LifecycleInv => LifecycleTypeOK
  BY DEF LifecycleInv, LifecycleTypes
<1> QED
  BY <1>1, LifecycleInvariance, PTL

(* The process outlives every exception of a request, a listen call or the *)
(* timer while the library is started, unless it is configured to die.     *)
THEOREM StartedSurvives ==
  LifecycleSpec => []SurvivesWhileStarted
<1>1. LifecycleInv => SurvivesWhileStarted
  BY DEF LifecycleInv
<1> QED
  BY <1>1, LifecycleInvariance, PTL

(* If the agent clears the timers when it deactivates the library, what    *)
(* was counted since the last load has been reported once or is current,   *)
(* however often the library is started again.                             *)
THEOREM ReportedOnce ==
  ASSUME ClearsTimers
  PROVE  LifecycleSpec => []EverythingReportedOnce
<1>1. LifecycleInv => EverythingReportedOnce
  BY DEF LifecycleInv
<1> QED
  BY <1>1, LifecycleInvariance, PTL
(* The statistics implement the reports they promise.                      *)
Sums == <<stats[InUse].global, stats[InUse].current, reported>>

LEMMA TickReports ==
  ASSUME LifecycleInv, ClearsTimers, TimerTicks
  PROVE  Sums' = Sums \/ Reports!Report
<1> DEFINE after == Performed(SubSeq(timerActions, 1, RunsUntil))
<1>1. stats' = after.stats /\ reported' = after.reported
  BY DEF TimerTicks, Tick
<1>2. after \in Pairs /\ Told(after)
  BY TickKeeps DEF LifecycleInv, ActionsOnUse
<1> HIDE DEF after
<1>3. InUse' = InUse
  BY <1>1, <1>2 DEF Pairs, InUse
<1>4. CASE after = Before
  BY <1>1, <1>3, <1>4 DEF Before, Sums
<1>5. CASE after # Before
  <2>1. /\ stats'[InUse'].global = stats[InUse].global /\ stats'[InUse'].current = 0
        /\ reported' + 0 = reported + stats[InUse].current /\ reported' \in Nat
    BY <1>1, <1>2, <1>3, <1>5 DEF Told, Pairs
  <2>2. reported' = reported + stats[InUse].current
    BY <2>1
  <2> QED
    BY <2>1, <2>2 DEF Reports!Report
<1> QED
  BY <1>4, <1>5

LEMMA ListeningReports ==
  ASSUME LifecycleInv, Listening
  PROVE  Sums' = Sums \/ Reports!Load
<1>1. CASE config.stats
  <2> DEFINE zero == [current |-> 0, global |-> 0]
  <2>1. stats' = Append(stats, zero) /\ reported' = 0
    BY <1>1 DEF Listening, ActivateStatLogs, Loaded, Zero
  <2>2. stats'[Len(stats')] = zero
    BY <2>1 DEF LifecycleInv, LifecycleTypes
  <2>3. stats'[InUse'].global = 0 /\ stats'[InUse'].current = 0
    BY <2>2 DEF InUse
  <2> QED
    BY <2>1, <2>3 DEF Reports!Load, Reports!sums
<1>2. CASE ~ config.stats
  BY <1>2 DEF Listening, ActivateStatLogs, statsVars, Sums, InUse
<1> QED
  BY <1>1, <1>2

LEMMA AddReports ==
  ASSUME LifecycleInv, Add
  PROVE  Reports!Count
<1>1. /\ stats'[InUse'].global = stats[InUse].global + 1
      /\ stats'[InUse'].current = stats[InUse].current + 1
      /\ reported' = reported
  BY AddEffect DEF LifecycleInv, InUse
<1> QED
  BY <1>1 DEF Reports!Count

LEMMA ReportsStep ==
  ASSUME LifecycleInv, ClearsTimers, [LifecycleNext]_lifecycleVars
  PROVE  [Reports!Next]_Sums
<1>1. CASE TimerTicks
  BY <1>1, TickReports DEF Reports!Next
<1>2. CASE Listening
  BY <1>2, ListeningReports DEF Reports!Next
<1>3. CASE HandleRequest
  <2>1. Add \/ UNCHANGED statsVars
    BY <1>3 DEF HandleRequest
  <2>2. UNCHANGED statsVars => Sums' = Sums
    BY DEF statsVars, Sums, InUse
  <2> QED
    BY <2>1, <2>2, AddReports DEF Reports!Next
<1>4. CASE \/ Activate \/ ListenFails \/ HandleRegistration \/ Closed
           \/ Deactivate \/ AddPersistence \/ UNCHANGED lifecycleVars
  <2>1. stats' = stats /\ reported' = reported
    BY <1>4 DEF Activate, ListenFails, HandleRegistration, Closed, Deactivate,
         AddPersistence, lifecycleVars, statsVars
  <2> QED
    BY <2>1 DEF Sums, InUse
<1> QED
  BY <1>1, <1>2, <1>3, <1>4 DEF LifecycleNext

(* If the agent clears the timers, the statistics of every life of the     *)
(* library implement the abstract reports: an addition counts, a tick that *)
(* gets to logStats reports what is pending, a start loads, and every      *)
(* other step changes none of the sums.                                    *)
THEOREM ReportsImplemented ==
  ASSUME ClearsTimers
  PROVE  LifecycleSpec => ImplementsReports
<1>1. LifecycleInit => Reports!Init
  BY DEF LifecycleInit, StatsInit, Zero, InUse, Reports!Init, Reports!sums
<1>2. LifecycleInv /\ [LifecycleNext]_lifecycleVars =>
        [Reports!Next]_(Reports!sums)
  BY ReportsStep DEF Sums, Reports!sums
<1> QED
  BY <1>1, <1>2, LifecycleInvariance, PTL DEF LifecycleSpec, ImplementsReports, Reports!Spec
==============================================================================
