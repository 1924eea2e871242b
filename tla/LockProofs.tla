------------------------------ MODULE LockProofs ------------------------------
(***************************************************************************)
(* Proofs about the threads, their mutexes and their waits: PublisherLocks *)
(* for any number of inputs, and StateMachineLoop for any number of events *)
(* and timers.                                                             *)
(***************************************************************************)
EXTENDS PublisherLocks, StateMachineLoop, WellFoundedInduction, TLAPS

-----------------------------------------------------------------------------
(* The invariant of PublisherLocks.                                        *)

\* The critical sections of the callbacks for SensorData.
InnerStores == {Store("Landmark"), Store("VoiceAgent"), Store("Tui"), Store("Remote")}

\* What the answer to a SensorReadRequest adds to the requesting thread.
Answer == {TryAnswer, Publish("Controller", "SensorData"),
           Release("Controller", "_mutex"), Release("Controller", "_dataMutex")}
          \cup InnerStores

\* What the terminal does to the services that it starts and stops.
Commands ==
    {StartOf("Controller"), StartOf("Remote"), StartOf("Perception"), StartOf("Expression"),
     StopOf("Controller"), StopOf("Remote"), StopOf("Perception"), StopOf("Expression"),
     JoinOf("Controller"), JoinOf("Remote"), JoinOf("Perception"), JoinOf("Expression")}

\* The operations that can ever be in the work of a thread.
Ops(t) ==
    CASE t = "Expression" ->
           {Wait, Asleep, Serve, Pop, Store("Controller"), Release("Expression", "_mutex"),
            Publish("Expression", "StopPerceptionRequest"), Publish("Expression", "ControlData"),
            Publish("Expression", "StartPerceptionRequest"),
            StartOf("Perception"), StopOf("Perception"), JoinOf("Perception"),
            StartOf("Landmark"), StopOf("Landmark"), JoinOf("Landmark")}
      [] t = "Perception" ->
           {Publish("Perception", "RecognizedGesture"), Store("Landmark"), Store("Tui"),
            Release("Perception", "_mutex")}
      [] t = "Landmark" ->
           {Store("Landmark"), Publish("Landmark", "ControlData"), Store("Controller"),
            Release("Landmark", "_mutex")}
      [] t = "Controller" ->
           {Publish("Controller", "SensorData"), Release("Controller", "_mutex")} \cup InnerStores
      [] t = "VoiceAgent" ->
           {Publish("VoiceAgent", "SensorReadRequest"), Publish("VoiceAgent", "LLMResponse"),
            Push(1), Release("VoiceAgent", "_mutex")} \cup Answer
      [] t = "Tui" ->
           {Publish("Tui", "SensorReadRequest"), Publish("Tui", "LLMResponse"),
            Publish("Tui", "ControlData"), Store("Controller"),
            Push(1), Release("Tui", "_mutex")} \cup Answer \cup Commands
      [] t = "Remote" ->
           {Publish("Remote", "SpeakRequest"), Publish("Remote", "AIModeOnCall"),
            Publish("Remote", "AIModeOffCall"), Publish("Remote", "ControlData"),
            Push(0), Store("Controller"), SetAIMode("on"), SetAIMode("off"),
            StartOf("Expression"), StopOf("Expression"), JoinOf("Expression"),
            StartOf("Landmark"), StopOf("Landmark"), JoinOf("Landmark"), StartOf("Perception"),
            Subscribe("Perception"), Subscribe("Controller"), Unsubscribe("Perception"),
            Unsubscribe("Controller"), Release("Remote", "_mutex")}

\* How deep in the calls an operation is made: the lower, the deeper.  What a
\* thread does inside a publication comes before the release of its mutex, and
\* that before what it does when it holds nothing.
Rank(op) ==
    CASE op[1] = "join" -> 0
      [] op[1] = "store" /\ op[2] # "Controller" -> 1
      [] op[1] = "release" /\ op[2] = "Controller" /\ op[3] = "_mutex" -> 2
      [] op[1] = "publish" /\ op[2] = "Controller" -> 3
      [] op[1] = "release" /\ op[2] = "Controller" /\ op[3] # "_mutex" -> 4
      [] op[1] = "push" -> 5
      [] op[1] \in {"start", "stop"} /\ op[2] = "Expression" -> 6
      [] op[1] = "mode" -> 7
      [] op[1] = "store" /\ op[2] = "Controller" -> 8
      [] op[1] = "answer" -> 8
      [] op[1] \in {"start", "stop"} /\ op[2] # "Expression" -> 8
      [] op[1] = "release" /\ op[2] # "Controller" -> 9
      [] op[1] = "publish" /\ op[2] # "Controller" /\ op[3] = "LLMResponse" -> 10
      [] op[1] = "publish" /\ op[2] # "Controller" /\ op[3] # "LLMResponse" -> 11
      [] op[1] \in {"subscribe", "unsubscribe", "wait", "asleep"} -> 11
      [] op[1] = "pop" -> 12
      [] op[1] = "serve" -> 13

\* Operations of the ranks 1, 8 and 11 may be repeated.
MayPrecede(a, b) == Rank(a) < Rank(b) \/ (Rank(a) = Rank(b) /\ Rank(a) \in {1, 8, 11})

\* A sequence of operations of thread t, the deeper ones first.
Nested(t, w) ==
    /\ w \in Seq(Ops(t))
    /\ \A i, j \in 1 .. Len(w) : i < j => MayPrecede(w[i], w[j])

NestedWork(w) ==
    /\ DOMAIN w = Services
    /\ \A t \in Services :
          /\ Nested(t, w[t])
          /\ w[t] # <<>> => w[t][1][1] # "release"

NestingInv == NestedWork(work)

-----------------------------------------------------------------------------
(* Sequences of operations.                                                *)

USE DEF Services

\* The operations in w, and those behind the first one.
Rest(w) == {w[i] : i \in 2 .. Len(w)}

\* Every set of positions has a least one.
LEMMA LeastIndex ==
  ASSUME NEW n \in Nat, NEW S \in SUBSET (1 .. n), S # {}
  PROVE  Min(S) \in S /\ \A k \in S : Min(S) <= k
  <1>1. \E x \in S : \A y \in S : ~(<<y, x>> \in OpToRel(<, Nat))
    <2>1. S \subseteq Nat
      OBVIOUS
    <2>. QED  BY <2>1, WFMin, NatLessThanWellFounded
  <1>2. PICK x \in S : \A y \in S : ~(<<y, x>> \in OpToRel(<, Nat))
    BY <1>1
  <1>3. \A y \in S : x <= y
    <2>. SUFFICES ASSUME NEW y \in S, y < x PROVE FALSE
      OBVIOUS
    <2>1. <<y, x>> \in OpToRel(<, Nat)
      BY SMT DEF OpToRel
    <2>. QED  BY <1>2, <2>1
  <1>. QED  BY <1>3 DEF Min

\* What a settled sequence leaves out: releases, and only at its front.
LEMMA SettledSuffix ==
  ASSUME NEW S, NEW w \in Seq(S)
  PROVE  \/ Settled(w) = <<>> /\ \A i \in 1 .. Len(w) : w[i][1] = "release"
         \/ \E k \in 1 .. Len(w) :
               /\ Settled(w) = SubSeq(w, k, Len(w))
               /\ w[k][1] # "release"
               /\ \A i \in 1 .. Len(w) : i < k => w[i][1] = "release"
  <1>. DEFINE others == {i \in DOMAIN w : w[i][1] # "release"}
  <1>1. CASE others = {}
    <2>1. Settled(w) = <<>>
      BY <1>1 DEF Settled
    <2>. QED  BY <1>1, <2>1
  <1>2. CASE others # {}
    <2>1. others \in SUBSET (1 .. Len(w)) /\ Len(w) \in Nat
      OBVIOUS
    <2>2. Min(others) \in others /\ \A k \in others : Min(others) <= k
      BY <1>2, <2>1, LeastIndex
    <2>3. Settled(w) = SubSeq(w, Min(others), Len(w))
      BY <1>2 DEF Settled
    <2>4. \A i \in 1 .. Len(w) : i \in others <=> w[i][1] # "release"
      OBVIOUS
    <2>. HIDE DEF others
    <2>5. Min(others) \in 1 .. Len(w)
      BY <2>1, <2>2
    <2>6. \A i \in 1 .. Len(w) : i < Min(others) => w[i][1] = "release"
      BY <2>2, <2>4, <2>5
    <2>7. w[Min(others)][1] # "release"
      BY <2>2, <2>4, <2>5
    <2>. QED  BY <2>3, <2>5, <2>6, <2>7
  <1>. QED  BY <1>1, <1>2

\* A settled sequence is as nested as it was, begins with no release, and has
\* lost nothing else.
LEMMA SettledNested ==
  ASSUME NEW t, NEW w, Nested(t, w)
  PROVE  /\ Nested(t, Settled(w))
         /\ Settled(w) # <<>> => Settled(w)[1][1] # "release"
         /\ \A op : op[1] # "release" => (op \in ToSet(Settled(w)) <=> op \in ToSet(w))
         /\ ToSet(Settled(w)) \subseteq ToSet(w)
  <1>1. w \in Seq(Ops(t))
    BY DEF Nested
  <1>2. CASE Settled(w) = <<>> /\ \A i \in 1 .. Len(w) : w[i][1] = "release"
    BY <1>1, <1>2 DEF Nested, ToSet
  <1>3. ASSUME NEW k \in 1 .. Len(w),
               Settled(w) = SubSeq(w, k, Len(w)), w[k][1] # "release",
               \A i \in 1 .. Len(w) : i < k => w[i][1] = "release"
        PROVE  /\ Nested(t, Settled(w))
               /\ Settled(w) # <<>> => Settled(w)[1][1] # "release"
               /\ \A op : op[1] # "release" => (op \in ToSet(Settled(w)) <=> op \in ToSet(w))
               /\ ToSet(Settled(w)) \subseteq ToSet(w)
    <2>. DEFINE v == SubSeq(w, k, Len(w))
    <2>1. /\ v \in Seq(Ops(t)) /\ Len(v) = Len(w) - k + 1 /\ Len(v) \in Nat
          /\ \A i \in 1 .. Len(v) : i + k - 1 \in 1 .. Len(w) /\ v[i] = w[i + k - 1]
      BY <1>1
    <2>2. \A j \in 1 .. Len(w) : j >= k => j - k + 1 \in 1 .. Len(v) /\ v[j - k + 1] = w[j]
      BY <1>1
    <2>8. v[1] = w[k]
      BY <1>1
    <2>. HIDE DEF v
    <2>3. Nested(t, v)
      BY <2>1, <1>1 DEF Nested
    <2>4. v[1][1] # "release"
      BY <2>8, <1>3
    <2>5. ToSet(v) = {v[i] : i \in 1 .. Len(v)} /\ ToSet(w) = {w[i] : i \in 1 .. Len(w)}
      BY <2>1, <1>1 DEF ToSet
    <2>6. ToSet(v) \subseteq ToSet(w)
      BY <2>5, <2>1
    <2>7. ASSUME NEW op, op[1] # "release", op \in ToSet(w)
          PROVE  op \in ToSet(v)
      <3>1. PICK j \in 1 .. Len(w) : op = w[j]
        BY <2>5, <2>7
      <3>2. j >= k
        BY <3>1, <2>7, <1>3
      <3>. QED  BY <3>1, <3>2, <2>2, <2>5
    <2>. QED  BY <2>3, <2>4, <2>6, <2>7, <1>3 DEF v
  <1>. QED  BY <1>1, <1>2, <1>3, SettledSuffix

\* The first operation may come before all the others.
LEMMA HeadAndRest ==
  ASSUME NEW t, NEW w, Nested(t, w), w # <<>>
  PROVE  /\ w[1] = Head(w) /\ w[1] \in Ops(t)
         /\ ToSet(w) = {w[1]} \cup Rest(w)
         /\ \A b \in Rest(w) : b \in Ops(t) /\ MayPrecede(w[1], b)
  <1>1. w \in Seq(Ops(t)) /\ Len(w) \in Nat /\ Len(w) >= 1
    BY DEF Nested
  <1>2. ToSet(w) = {w[i] : i \in 1 .. Len(w)}
    BY <1>1 DEF ToSet
  <1>3. ToSet(w) = {w[1]} \cup Rest(w)
    BY <1>1, <1>2 DEF Rest
  <1>4. \A b \in Rest(w) : b \in Ops(t) /\ MayPrecede(w[1], b)
    BY <1>1 DEF Rest, Nested
  <1>. QED  BY <1>1, <1>3, <1>4

\* Operations that thread t may do in the place of one of rank r.
Replaces(t, r, ops) ==
    /\ Nested(t, ops)
    /\ \A i \in 1 .. Len(ops) : Rank(ops[i]) <= r /\ Rank(ops[i]) \in Nat

\* To replace the next operation by operations that are not less deep keeps
\* the work nested.
LEMMA ReplacedNested ==
  ASSUME NEW t, NEW w, Nested(t, w), w # <<>>, NEW ops, Replaces(t, Rank(w[1]), ops),
         \A b \in Ops(t) : Rank(b) \in Nat
  PROVE  Nested(t, ops \o Tail(w)) /\ ToSet(ops \o Tail(w)) = ToSet(ops) \cup Rest(w)
  <1>1. /\ w \in Seq(Ops(t)) /\ Len(w) \in Nat /\ Len(w) >= 1
        /\ ops \in Seq(Ops(t)) /\ Len(ops) \in Nat
    BY DEF Nested, Replaces
  <1>. DEFINE v == ops \o Tail(w)
              n == Len(ops)
  <1>2. /\ v \in Seq(Ops(t)) /\ Len(v) = n + Len(w) - 1 /\ Len(v) \in Nat
        /\ \A i \in 1 .. n : v[i] = ops[i]
        /\ \A i \in 1 .. Len(v) : i > n => i - n + 1 \in 2 .. Len(w) /\ v[i] = w[i - n + 1]
        /\ \A k \in 2 .. Len(w) : k + n - 1 \in 1 .. Len(v) /\ v[k + n - 1] = w[k]
    BY <1>1
  <1>0. n \in Nat /\ n = Len(ops)
    BY <1>1
  <1>. HIDE DEF v, n
  <1>3. ASSUME NEW i \in 1 .. Len(v), NEW j \in 1 .. Len(v), i < j
        PROVE  MayPrecede(v[i], v[j])
    <2>0. i \in Nat /\ j \in Nat /\ i >= 1
      BY <1>2
    <2>1. CASE j <= n
      <3>0. i \in 1 .. n /\ j \in 1 .. n
        BY <2>0, <2>1, <1>0, <1>3
      <3>1. v[i] = ops[i] /\ v[j] = ops[j] /\ i \in 1 .. n /\ j \in 1 .. n
        BY <3>0, <1>2
      <3>. QED  BY <1>0, <3>1, <1>3 DEF Replaces, Nested
    <2>2. CASE i > n
      <3>0. j > n /\ i - n + 1 < j - n + 1
        BY <2>0, <2>2, <1>0, <1>3
      <3>1. /\ i - n + 1 \in 2 .. Len(w) /\ v[i] = w[i - n + 1]
            /\ j - n + 1 \in 2 .. Len(w) /\ v[j] = w[j - n + 1]
        BY <3>0, <2>2, <1>2
      <3>2. \A k \in 2 .. Len(w) : k \in 1 .. Len(w)
        BY <1>1
      <3>. QED  BY <3>0, <3>1, <3>2 DEF Nested
    <2>3. CASE i <= n /\ j > n
      <3>1. v[i] = ops[i] /\ v[j] = w[j - n + 1] /\ j - n + 1 \in 2 .. Len(w) /\ i \in 1 .. n
        BY <1>0, <1>1, <1>2, <1>3, <2>3
      <3>2. MayPrecede(w[1], v[j])
        BY <1>1, <3>1 DEF Nested
      <3>3. Rank(v[i]) <= Rank(w[1]) /\ Rank(v[i]) \in Nat
        BY <1>0, <3>1 DEF Replaces
      <3>4. Rank(v[j]) \in Nat /\ Rank(w[1]) \in Nat
        BY <1>0, <1>1, <1>2
      <3>. QED  BY <3>2, <3>3, <3>4 DEF MayPrecede
    <2>. QED  BY <2>0, <2>1, <2>2, <2>3, <1>0
  <1>4. Nested(t, v)
    BY <1>2, <1>3 DEF Nested
  <1>5. ToSet(v) = {v[i] : i \in 1 .. Len(v)} /\ ToSet(ops) = {ops[i] : i \in 1 .. n}
    <2>1. DOMAIN v = 1 .. Len(v) /\ DOMAIN ops = 1 .. n
      BY <1>0, <1>1, <1>2
    <2>. QED  BY <2>1 DEF ToSet
  <1>6. ToSet(v) \subseteq ToSet(ops) \cup Rest(w)
    <2>. SUFFICES ASSUME NEW i \in 1 .. Len(v) PROVE v[i] \in ToSet(ops) \cup Rest(w)
      BY <1>5
    <2>1. CASE i <= n
      <3>1. i \in 1 .. n
        BY <2>1, <1>0, <1>2
      <3>. QED  BY <3>1, <1>2, <1>5
    <2>2. CASE i > n
      BY <2>2, <1>0, <1>1, <1>2, <1>5 DEF Rest
    <2>. QED  BY <2>1, <2>2, <1>0
  <1>7. ToSet(ops) \subseteq ToSet(v)
    <2>. SUFFICES ASSUME NEW i \in 1 .. n PROVE ops[i] \in ToSet(v)
      BY <1>5
    <2>1. i \in 1 .. Len(v) /\ v[i] = ops[i]
      BY <1>0, <1>1, <1>2
    <2>. QED  BY <2>1, <1>5
  <1>8. Rest(w) \subseteq ToSet(v)
    BY <1>0, <1>1, <1>2, <1>5 DEF Rest
  <1>. QED  BY <1>4, <1>6, <1>7, <1>8 DEF v, n

-----------------------------------------------------------------------------
(* The operations.                                                         *)

\* What each operation is ...
LEMMA Kinds ==
  /\ Publish("Expression", "StopPerceptionRequest")[1] = "publish"
  /\ Publish("Expression", "ControlData")[1] = "publish"
  /\ Publish("Expression", "StartPerceptionRequest")[1] = "publish"
  /\ Publish("Perception", "RecognizedGesture")[1] = "publish"
  /\ Publish("Landmark", "ControlData")[1] = "publish"
  /\ Publish("Controller", "SensorData")[1] = "publish"
  /\ Publish("VoiceAgent", "SensorReadRequest")[1] = "publish"
  /\ Publish("VoiceAgent", "LLMResponse")[1] = "publish"
  /\ Publish("Tui", "SensorReadRequest")[1] = "publish"
  /\ Publish("Tui", "LLMResponse")[1] = "publish"
  /\ Publish("Tui", "ControlData")[1] = "publish"
  /\ Publish("Remote", "SpeakRequest")[1] = "publish"
  /\ Publish("Remote", "AIModeOnCall")[1] = "publish"
  /\ Publish("Remote", "AIModeOffCall")[1] = "publish"
  /\ Publish("Remote", "ControlData")[1] = "publish"
  /\ Release("Expression", "_mutex")[1] = "release"
  /\ Release("Perception", "_mutex")[1] = "release"
  /\ Release("Controller", "_mutex")[1] = "release"
  /\ Release("Landmark", "_mutex")[1] = "release"
  /\ Release("VoiceAgent", "_mutex")[1] = "release" /\ Release("Tui", "_mutex")[1] = "release"
  /\ Release("Remote", "_mutex")[1] = "release"
  /\ Release("Controller", "_dataMutex")[1] = "release" /\ Store("Landmark")[1] = "store"
  /\ Store("VoiceAgent")[1] = "store" /\ Store("Tui")[1] = "store"
  /\ Store("Remote")[1] = "store" /\ Store("Controller")[1] = "store" /\ Push(0)[1] = "push"
  /\ Push(1)[1] = "push" /\ TryAnswer[1] = "answer" /\ StartOf("Expression")[1] = "start"
  /\ StopOf("Expression")[1] = "stop" /\ JoinOf("Expression")[1] = "join"
  /\ StartOf("Perception")[1] = "start" /\ StopOf("Perception")[1] = "stop"
  /\ JoinOf("Perception")[1] = "join" /\ StartOf("Landmark")[1] = "start"
  /\ StopOf("Landmark")[1] = "stop" /\ JoinOf("Landmark")[1] = "join"
  /\ StartOf("Controller")[1] = "start" /\ StopOf("Controller")[1] = "stop"
  /\ JoinOf("Controller")[1] = "join" /\ StartOf("Remote")[1] = "start"
  /\ StopOf("Remote")[1] = "stop" /\ JoinOf("Remote")[1] = "join"
  /\ SetAIMode("on")[1] = "mode" /\ SetAIMode("off")[1] = "mode"
  /\ Subscribe("Perception")[1] = "subscribe" /\ Unsubscribe("Perception")[1] = "unsubscribe"
  /\ Subscribe("Controller")[1] = "subscribe" /\ Unsubscribe("Controller")[1] = "unsubscribe"
  /\ Wait[1] = "wait" /\ Asleep[1] = "asleep" /\ Pop[1] = "pop" /\ Serve[1] = "serve"
  BY DEF Publish, Release, Store, Push, TryAnswer, StartOf, StopOf, JoinOf, SetAIMode,
         Subscribe, Unsubscribe, Wait, Asleep, Serve, Pop

\* ... whose it is ...
LEMMA Whose ==
  /\ Publish("Expression", "StopPerceptionRequest")[2] = "Expression"
  /\ Publish("Expression", "ControlData")[2] = "Expression"
  /\ Publish("Expression", "StartPerceptionRequest")[2] = "Expression"
  /\ Publish("Perception", "RecognizedGesture")[2] = "Perception"
  /\ Publish("Landmark", "ControlData")[2] = "Landmark"
  /\ Publish("Controller", "SensorData")[2] = "Controller"
  /\ Publish("VoiceAgent", "SensorReadRequest")[2] = "VoiceAgent"
  /\ Publish("VoiceAgent", "LLMResponse")[2] = "VoiceAgent"
  /\ Publish("Tui", "SensorReadRequest")[2] = "Tui"
  /\ Publish("Tui", "LLMResponse")[2] = "Tui" /\ Publish("Tui", "ControlData")[2] = "Tui"
  /\ Publish("Remote", "SpeakRequest")[2] = "Remote"
  /\ Publish("Remote", "AIModeOnCall")[2] = "Remote"
  /\ Publish("Remote", "AIModeOffCall")[2] = "Remote"
  /\ Publish("Remote", "ControlData")[2] = "Remote"
  /\ Release("Expression", "_mutex")[2] = "Expression"
  /\ Release("Perception", "_mutex")[2] = "Perception"
  /\ Release("Controller", "_mutex")[2] = "Controller"
  /\ Release("Landmark", "_mutex")[2] = "Landmark"
  /\ Release("VoiceAgent", "_mutex")[2] = "VoiceAgent" /\ Release("Tui", "_mutex")[2] = "Tui"
  /\ Release("Remote", "_mutex")[2] = "Remote"
  /\ Release("Controller", "_dataMutex")[2] = "Controller"
  /\ Store("Landmark")[2] = "Landmark" /\ Store("VoiceAgent")[2] = "VoiceAgent"
  /\ Store("Tui")[2] = "Tui" /\ Store("Remote")[2] = "Remote"
  /\ Store("Controller")[2] = "Controller" /\ Push(0)[2] = "Expression"
  /\ Push(1)[2] = "Expression" /\ TryAnswer[2] = "Controller"
  /\ StartOf("Expression")[2] = "Expression" /\ StopOf("Expression")[2] = "Expression"
  /\ JoinOf("Expression")[2] = "Expression" /\ StartOf("Perception")[2] = "Perception"
  /\ StopOf("Perception")[2] = "Perception" /\ JoinOf("Perception")[2] = "Perception"
  /\ StartOf("Landmark")[2] = "Landmark" /\ StopOf("Landmark")[2] = "Landmark"
  /\ JoinOf("Landmark")[2] = "Landmark" /\ StartOf("Controller")[2] = "Controller"
  /\ StopOf("Controller")[2] = "Controller" /\ JoinOf("Controller")[2] = "Controller"
  /\ StartOf("Remote")[2] = "Remote" /\ StopOf("Remote")[2] = "Remote"
  /\ JoinOf("Remote")[2] = "Remote" /\ SetAIMode("on")[2] = "Perception"
  /\ SetAIMode("off")[2] = "Perception" /\ Subscribe("Perception")[2] = "Perception"
  /\ Unsubscribe("Perception")[2] = "Perception" /\ Subscribe("Controller")[2] = "Controller"
  /\ Unsubscribe("Controller")[2] = "Controller" /\ Wait[2] = "Expression"
  /\ Asleep[2] = "Expression" /\ Pop[2] = "Expression" /\ Serve[2] = "Expression"
  BY DEF Publish, Release, Store, Push, TryAnswer, StartOf, StopOf, JoinOf, SetAIMode,
         Subscribe, Unsubscribe, Wait, Asleep, Serve, Pop

\* ... and with which argument.
LEMMA Arguments ==
  /\ Publish("Expression", "StopPerceptionRequest")[3] = "StopPerceptionRequest"
  /\ Publish("Expression", "ControlData")[3] = "ControlData"
  /\ Publish("Expression", "StartPerceptionRequest")[3] = "StartPerceptionRequest"
  /\ Publish("Perception", "RecognizedGesture")[3] = "RecognizedGesture"
  /\ Publish("Landmark", "ControlData")[3] = "ControlData"
  /\ Publish("Controller", "SensorData")[3] = "SensorData"
  /\ Publish("VoiceAgent", "SensorReadRequest")[3] = "SensorReadRequest"
  /\ Publish("VoiceAgent", "LLMResponse")[3] = "LLMResponse"
  /\ Publish("Tui", "SensorReadRequest")[3] = "SensorReadRequest"
  /\ Publish("Tui", "LLMResponse")[3] = "LLMResponse"
  /\ Publish("Tui", "ControlData")[3] = "ControlData"
  /\ Publish("Remote", "SpeakRequest")[3] = "SpeakRequest"
  /\ Publish("Remote", "AIModeOnCall")[3] = "AIModeOnCall"
  /\ Publish("Remote", "AIModeOffCall")[3] = "AIModeOffCall"
  /\ Publish("Remote", "ControlData")[3] = "ControlData"
  /\ Release("Expression", "_mutex")[3] = "_mutex"
  /\ Release("Perception", "_mutex")[3] = "_mutex"
  /\ Release("Controller", "_mutex")[3] = "_mutex"
  /\ Release("Landmark", "_mutex")[3] = "_mutex"
  /\ Release("VoiceAgent", "_mutex")[3] = "_mutex" /\ Release("Tui", "_mutex")[3] = "_mutex"
  /\ Release("Remote", "_mutex")[3] = "_mutex"
  /\ Release("Controller", "_dataMutex")[3] = "_dataMutex" /\ Push(0)[3] = 0 /\ Push(1)[3] = 1
  /\ SetAIMode("on")[3] = "on" /\ SetAIMode("off")[3] = "off"
  BY DEF Publish, Release, Store, Push, TryAnswer, StartOf, StopOf, JoinOf, SetAIMode,
         Subscribe, Unsubscribe, Wait, Asleep, Serve, Pop

\* How deep each operation is.
LEMMA Ranks ==
  /\ Rank(JoinOf("Expression")) = 0 /\ Rank(JoinOf("Perception")) = 0
  /\ Rank(JoinOf("Landmark")) = 0 /\ Rank(JoinOf("Controller")) = 0
  /\ Rank(JoinOf("Remote")) = 0
  /\ Rank(Store("Landmark")) = 1 /\ Rank(Store("VoiceAgent")) = 1 /\ Rank(Store("Tui")) = 1
  /\ Rank(Store("Remote")) = 1
  /\ Rank(Release("Controller", "_mutex")) = 2
  /\ Rank(Publish("Controller", "SensorData")) = 3
  /\ Rank(Release("Controller", "_dataMutex")) = 4
  /\ Rank(Push(0)) = 5 /\ Rank(Push(1)) = 5
  /\ Rank(StartOf("Expression")) = 6 /\ Rank(StopOf("Expression")) = 6
  /\ Rank(SetAIMode("on")) = 7 /\ Rank(SetAIMode("off")) = 7
  /\ Rank(Store("Controller")) = 8 /\ Rank(TryAnswer) = 8 /\ Rank(StartOf("Perception")) = 8
  /\ Rank(StopOf("Perception")) = 8 /\ Rank(StartOf("Landmark")) = 8
  /\ Rank(StopOf("Landmark")) = 8 /\ Rank(StartOf("Controller")) = 8
  /\ Rank(StopOf("Controller")) = 8 /\ Rank(StartOf("Remote")) = 8
  /\ Rank(StopOf("Remote")) = 8
  /\ Rank(Release("Expression", "_mutex")) = 9 /\ Rank(Release("Perception", "_mutex")) = 9
  /\ Rank(Release("Landmark", "_mutex")) = 9 /\ Rank(Release("VoiceAgent", "_mutex")) = 9
  /\ Rank(Release("Tui", "_mutex")) = 9 /\ Rank(Release("Remote", "_mutex")) = 9
  /\ Rank(Publish("VoiceAgent", "LLMResponse")) = 10
  /\ Rank(Publish("Tui", "LLMResponse")) = 10
  /\ Rank(Publish("Expression", "StopPerceptionRequest")) = 11
  /\ Rank(Publish("Expression", "ControlData")) = 11
  /\ Rank(Publish("Expression", "StartPerceptionRequest")) = 11
  /\ Rank(Publish("Perception", "RecognizedGesture")) = 11
  /\ Rank(Publish("Landmark", "ControlData")) = 11
  /\ Rank(Publish("VoiceAgent", "SensorReadRequest")) = 11
  /\ Rank(Publish("Tui", "SensorReadRequest")) = 11
  /\ Rank(Publish("Tui", "ControlData")) = 11 /\ Rank(Publish("Remote", "SpeakRequest")) = 11
  /\ Rank(Publish("Remote", "AIModeOnCall")) = 11
  /\ Rank(Publish("Remote", "AIModeOffCall")) = 11
  /\ Rank(Publish("Remote", "ControlData")) = 11 /\ Rank(Subscribe("Perception")) = 11
  /\ Rank(Unsubscribe("Perception")) = 11 /\ Rank(Subscribe("Controller")) = 11
  /\ Rank(Unsubscribe("Controller")) = 11 /\ Rank(Wait) = 11 /\ Rank(Asleep) = 11
  /\ Rank(Pop) = 12
  /\ Rank(Serve) = 13
  <1>1. /\ Rank(JoinOf("Expression")) = 0 /\ Rank(JoinOf("Perception")) = 0
        /\ Rank(JoinOf("Landmark")) = 0 /\ Rank(JoinOf("Controller")) = 0
        /\ Rank(JoinOf("Remote")) = 0
    BY DEF Rank, JoinOf
  <1>2. /\ Rank(Store("Landmark")) = 1 /\ Rank(Store("VoiceAgent")) = 1
        /\ Rank(Store("Tui")) = 1 /\ Rank(Store("Remote")) = 1
    BY DEF Rank, Store
  <1>3. /\ Rank(Release("Controller", "_mutex")) = 2
    BY DEF Rank, Release
  <1>4. /\ Rank(Publish("Controller", "SensorData")) = 3
    BY DEF Rank, Publish
  <1>5. /\ Rank(Release("Controller", "_dataMutex")) = 4
    BY DEF Rank, Release
  <1>6. /\ Rank(Push(0)) = 5 /\ Rank(Push(1)) = 5
    BY DEF Rank, Push
  <1>7. /\ Rank(StartOf("Expression")) = 6 /\ Rank(StopOf("Expression")) = 6
    BY DEF Rank, StartOf, StopOf
  <1>8. /\ Rank(SetAIMode("on")) = 7 /\ Rank(SetAIMode("off")) = 7
    BY DEF Rank, SetAIMode
  <1>9. /\ Rank(Store("Controller")) = 8 /\ Rank(TryAnswer) = 8
        /\ Rank(StartOf("Perception")) = 8 /\ Rank(StopOf("Perception")) = 8
        /\ Rank(StartOf("Landmark")) = 8 /\ Rank(StopOf("Landmark")) = 8
        /\ Rank(StartOf("Controller")) = 8 /\ Rank(StopOf("Controller")) = 8
        /\ Rank(StartOf("Remote")) = 8 /\ Rank(StopOf("Remote")) = 8
    BY DEF Rank, StartOf, StopOf, Store, TryAnswer
  <1>10. /\ Rank(Release("Expression", "_mutex")) = 9
        /\ Rank(Release("Perception", "_mutex")) = 9
        /\ Rank(Release("Landmark", "_mutex")) = 9
        /\ Rank(Release("VoiceAgent", "_mutex")) = 9 /\ Rank(Release("Tui", "_mutex")) = 9
        /\ Rank(Release("Remote", "_mutex")) = 9
    BY DEF Rank, Release
  <1>11. /\ Rank(Publish("VoiceAgent", "LLMResponse")) = 10
        /\ Rank(Publish("Tui", "LLMResponse")) = 10
    BY DEF Rank, Publish
  <1>12. /\ Rank(Publish("Expression", "StopPerceptionRequest")) = 11
        /\ Rank(Publish("Expression", "ControlData")) = 11
        /\ Rank(Publish("Expression", "StartPerceptionRequest")) = 11
        /\ Rank(Publish("Perception", "RecognizedGesture")) = 11
        /\ Rank(Publish("Landmark", "ControlData")) = 11
        /\ Rank(Publish("VoiceAgent", "SensorReadRequest")) = 11
        /\ Rank(Publish("Tui", "SensorReadRequest")) = 11
        /\ Rank(Publish("Tui", "ControlData")) = 11
        /\ Rank(Publish("Remote", "SpeakRequest")) = 11
        /\ Rank(Publish("Remote", "AIModeOnCall")) = 11
        /\ Rank(Publish("Remote", "AIModeOffCall")) = 11
        /\ Rank(Publish("Remote", "ControlData")) = 11 /\ Rank(Subscribe("Perception")) = 11
        /\ Rank(Unsubscribe("Perception")) = 11 /\ Rank(Subscribe("Controller")) = 11
        /\ Rank(Unsubscribe("Controller")) = 11 /\ Rank(Wait) = 11 /\ Rank(Asleep) = 11
    BY DEF Rank, Asleep, Publish, Subscribe, Unsubscribe, Wait
  <1>13. /\ Rank(Pop) = 12
    BY DEF Rank, Pop
  <1>14. /\ Rank(Serve) = 13
    BY DEF Rank, Serve
  <1>. QED  BY <1>1, <1>2, <1>3, <1>4, <1>5, <1>6, <1>7, <1>8, <1>9, <1>10, <1>11, <1>12, <1>13, <1>14

\* Every operation has a rank.
LEMMA OpsRanked == \A t \in Services : \A op \in Ops(t) : Rank(op) \in Nat
  BY Ranks DEF Ops, Answer, InnerStores, Commands

-----------------------------------------------------------------------------
(* Sequences of at most five operations.                                   *)

\* Sequences of the same length and the same elements are the same.
LEMMA SameSequence ==
  ASSUME NEW S, NEW l \in Seq(S), NEW r \in Seq(S), Len(l) = Len(r),
         \A i \in 1 .. Len(l) : l[i] = r[i]
  PROVE  l = r
  <1>1. l = [i \in 1 .. Len(l) |-> l[i]] /\ r = [i \in 1 .. Len(r) |-> r[i]]
    OBVIOUS
  <1>. QED  BY <1>1

\* The concatenations of short sequences that publish() makes.
LEMMA Concat11 ==
  ASSUME NEW a, NEW b
  PROVE  <<a>> \o <<b>> = <<a, b>>
  <1>. DEFINE S == {a, b}
              l == <<a>> \o <<b>>
  <1>1. <<a>> \in Seq(S) /\ <<b>> \in Seq(S) /\ <<a, b>> \in Seq(S)
    OBVIOUS
  <1>. HIDE DEF S
  <1>2. l \in Seq(S) /\ Len(l) = 2 /\ l[1] = a /\ l[2] = b
    BY <1>1
  <1>. HIDE DEF l
  <1>3. \A i \in 1 .. 2 : l[i] = <<a, b>>[i]
    BY <1>2
  <1>4. l = <<a, b>>
    BY <1>1, <1>2, <1>3, SameSequence
  <1>. QED  BY <1>4 DEF l

\* One element and two.
LEMMA Concat12 ==
  ASSUME NEW a, NEW b, NEW c
  PROVE  <<a>> \o <<b, c>> = <<a, b, c>>
  <1>. DEFINE S == {a, b, c}
              l == <<a>> \o <<b, c>>
  <1>1. <<a>> \in Seq(S) /\ <<b, c>> \in Seq(S) /\ <<a, b, c>> \in Seq(S)
    OBVIOUS
  <1>. HIDE DEF S
  <1>2. l \in Seq(S) /\ Len(l) = 3 /\ l[1] = a /\ l[2] = b /\ l[3] = c
    BY <1>1
  <1>. HIDE DEF l
  <1>3. \A i \in 1 .. 3 : l[i] = <<a, b, c>>[i]
    BY <1>2
  <1>4. l = <<a, b, c>>
    BY <1>1, <1>2, <1>3, SameSequence
  <1>. QED  BY <1>4 DEF l

\* Two elements and one.
LEMMA Concat21 ==
  ASSUME NEW a, NEW b, NEW c
  PROVE  <<a, b>> \o <<c>> = <<a, b, c>>
  <1>. DEFINE S == {a, b, c}
              l == <<a, b>> \o <<c>>
  <1>1. <<a, b>> \in Seq(S) /\ <<c>> \in Seq(S) /\ <<a, b, c>> \in Seq(S)
    OBVIOUS
  <1>. HIDE DEF S
  <1>2. l \in Seq(S) /\ Len(l) = 3 /\ l[1] = a /\ l[2] = b /\ l[3] = c
    BY <1>1
  <1>. HIDE DEF l
  <1>3. \A i \in 1 .. 3 : l[i] = <<a, b, c>>[i]
    BY <1>2
  <1>4. l = <<a, b, c>>
    BY <1>1, <1>2, <1>3, SameSequence
  <1>. QED  BY <1>4 DEF l

\* Three elements and one.
LEMMA Concat31 ==
  ASSUME NEW a, NEW b, NEW c, NEW d
  PROVE  <<a, b, c>> \o <<d>> = <<a, b, c, d>>
  <1>. DEFINE S == {a, b, c, d}
              l == <<a, b, c>> \o <<d>>
  <1>1. <<a, b, c>> \in Seq(S) /\ <<d>> \in Seq(S) /\ <<a, b, c, d>> \in Seq(S)
    OBVIOUS
  <1>. HIDE DEF S
  <1>2. l \in Seq(S) /\ Len(l) = 4 /\ l[1] = a /\ l[2] = b /\ l[3] = c /\ l[4] = d
    BY <1>1
  <1>. HIDE DEF l
  <1>3. \A i \in 1 .. 4 : l[i] = <<a, b, c, d>>[i]
    BY <1>2
  <1>4. l = <<a, b, c, d>>
    BY <1>1, <1>2, <1>3, SameSequence
  <1>. QED  BY <1>4 DEF l

\* Four elements and one.
LEMMA Concat41 ==
  ASSUME NEW a, NEW b, NEW c, NEW d, NEW e
  PROVE  <<a, b, c, d>> \o <<e>> = <<a, b, c, d, e>>
  <1>. DEFINE S == {a, b, c, d, e}
              l == <<a, b, c, d>> \o <<e>>
  <1>1. <<a, b, c, d>> \in Seq(S) /\ <<e>> \in Seq(S) /\ <<a, b, c, d, e>> \in Seq(S)
    OBVIOUS
  <1>. HIDE DEF S
  <1>2. l \in Seq(S) /\ Len(l) = 5 /\ l[1] = a /\ l[2] = b /\ l[3] = c /\ l[4] = d /\ l[5] = e
    BY <1>1
  <1>. HIDE DEF l
  <1>3. \A i \in 1 .. 5 : l[i] = <<a, b, c, d, e>>[i]
    BY <1>2
  <1>4. l = <<a, b, c, d, e>>
    BY <1>1, <1>2, <1>3, SameSequence
  <1>. QED  BY <1>4 DEF l

\* Three elements and two.
LEMMA Concat32 ==
  ASSUME NEW a, NEW b, NEW c, NEW d, NEW e
  PROVE  <<a, b, c>> \o <<d, e>> = <<a, b, c, d, e>>
  <1>. DEFINE S == {a, b, c, d, e}
              l == <<a, b, c>> \o <<d, e>>
  <1>1. <<a, b, c>> \in Seq(S) /\ <<d, e>> \in Seq(S) /\ <<a, b, c, d, e>> \in Seq(S)
    OBVIOUS
  <1>. HIDE DEF S
  <1>2. l \in Seq(S) /\ Len(l) = 5 /\ l[1] = a /\ l[2] = b /\ l[3] = c /\ l[4] = d /\ l[5] = e
    BY <1>1
  <1>. HIDE DEF l
  <1>3. \A i \in 1 .. 5 : l[i] = <<a, b, c, d, e>>[i]
    BY <1>2
  <1>4. l = <<a, b, c, d, e>>
    BY <1>1, <1>2, <1>3, SameSequence
  <1>. QED  BY <1>4 DEF l

\* subscribe() behind two subscribers.
LEMMA Append2 ==
  ASSUME NEW a, NEW b, NEW d
  PROVE  Append(<<a, b>>, d) = <<a, b, d>>
  <1>. DEFINE S == {a, b, d}
              l == Append(<<a, b>>, d)
  <1>1. <<a, b>> \in Seq(S) /\ <<a, b, d>> \in Seq(S) /\ d \in S
    OBVIOUS
  <1>. HIDE DEF S
  <1>2. l \in Seq(S) /\ Len(l) = 3 /\ l[1] = a /\ l[2] = b /\ l[3] = d
    BY <1>1
  <1>. HIDE DEF l
  <1>3. \A i \in 1 .. 3 : l[i] = <<a, b, d>>[i]
    BY <1>2
  <1>4. l = <<a, b, d>>
    BY <1>1, <1>2, <1>3, SameSequence
  <1>. QED  BY <1>4 DEF l

\* subscribe() behind three subscribers.
LEMMA Append3 ==
  ASSUME NEW a, NEW b, NEW c, NEW d
  PROVE  Append(<<a, b, c>>, d) = <<a, b, c, d>>
  <1>. DEFINE S == {a, b, c, d}
              l == Append(<<a, b, c>>, d)
  <1>1. <<a, b, c>> \in Seq(S) /\ <<a, b, c, d>> \in Seq(S) /\ d \in S
    OBVIOUS
  <1>. HIDE DEF S
  <1>2. l \in Seq(S) /\ Len(l) = 4 /\ l[1] = a /\ l[2] = b /\ l[3] = c /\ l[4] = d
    BY <1>1
  <1>. HIDE DEF l
  <1>3. \A i \in 1 .. 4 : l[i] = <<a, b, c, d>>[i]
    BY <1>2
  <1>4. l = <<a, b, c, d>>
    BY <1>1, <1>2, <1>3, SameSequence
  <1>. QED  BY <1>4 DEF l

\* A callback that does nothing adds nothing.
LEMMA ConcatEmpty ==
  /\ <<>> \o <<>> = <<>>
  /\ \A a : <<>> \o <<a>> = <<a>> /\ <<a>> \o <<>> = <<a>>
  /\ \A a, b : <<a, b>> \o <<>> = <<a, b>>
  /\ \A a, b, c : <<a, b, c>> \o <<>> = <<a, b, c>>
  OBVIOUS

\* The callbacks of four subscribers and the release, when one of them acts ...
LEMMA OneCallback ==
  ASSUME NEW a, NEW r
  PROVE  /\ <<>> \o <<a>> \o <<>> \o <<>> \o <<r>> = <<a, r>>
         /\ <<a>> \o <<>> \o <<>> \o <<>> \o <<r>> = <<a, r>>
         /\ <<>> \o <<>> \o <<a>> \o <<>> \o <<r>> = <<a, r>>
  <1>1. <<>> \o <<a>> \o <<>> \o <<>> \o <<r>> = <<a, r>>
    <2>1. <<>> \o <<a>> = <<a>>
      BY ConcatEmpty, Zenon
    <2>2. <<a>> \o <<>> = <<a>>
      BY ConcatEmpty, Zenon
    <2>3. <<a>> \o <<r>> = <<a, r>>
      BY Concat11, Zenon
    <2>. QED  BY <2>1, <2>2, <2>3, Zenon
  <1>2. <<a>> \o <<>> \o <<>> \o <<>> \o <<r>> = <<a, r>>
    <2>1. <<a>> \o <<>> = <<a>>
      BY ConcatEmpty, Zenon
    <2>2. <<a>> \o <<r>> = <<a, r>>
      BY Concat11, Zenon
    <2>. QED  BY <2>1, <2>2, Zenon
  <1>3. <<>> \o <<>> \o <<a>> \o <<>> \o <<r>> = <<a, r>>
    <2>1. <<>> \o <<>> = <<>>
      BY ConcatEmpty, Zenon
    <2>2. <<>> \o <<a>> = <<a>>
      BY ConcatEmpty, Zenon
    <2>3. <<a>> \o <<>> = <<a>>
      BY ConcatEmpty, Zenon
    <2>4. <<a>> \o <<r>> = <<a, r>>
      BY Concat11, Zenon
    <2>. QED  BY <2>1, <2>2, <2>3, <2>4, Zenon
  <1>. QED  BY <1>1, <1>2, <1>3, Zenon

\* ... or two ...
LEMMA TwoCallbacks ==
  ASSUME NEW a, NEW b, NEW r
  PROVE  /\ <<a>> \o <<>> \o <<b>> \o <<>> \o <<r>> = <<a, b, r>>
         /\ <<a>> \o <<b>> \o <<>> \o <<>> \o <<r>> = <<a, b, r>>
  <1>1. <<a>> \o <<>> \o <<b>> \o <<>> \o <<r>> = <<a, b, r>>
    <2>1. <<a>> \o <<>> = <<a>>
      BY ConcatEmpty, Zenon
    <2>2. <<a>> \o <<b>> = <<a, b>>
      BY Concat11, Zenon
    <2>3. <<a, b>> \o <<>> = <<a, b>>
      BY ConcatEmpty, Zenon
    <2>4. <<a, b>> \o <<r>> = <<a, b, r>>
      BY Concat21, Zenon
    <2>. QED  BY <2>1, <2>2, <2>3, <2>4, Zenon
  <1>2. <<a>> \o <<b>> \o <<>> \o <<>> \o <<r>> = <<a, b, r>>
    <2>1. <<a>> \o <<b>> = <<a, b>>
      BY Concat11, Zenon
    <2>2. <<a, b>> \o <<>> = <<a, b>>
      BY ConcatEmpty, Zenon
    <2>3. <<a, b>> \o <<r>> = <<a, b, r>>
      BY Concat21, Zenon
    <2>. QED  BY <2>1, <2>2, <2>3, Zenon
  <1>. QED  BY <1>1, <1>2, Zenon

\* ... or three ...
LEMMA ThreeCallbacks ==
  ASSUME NEW a, NEW b, NEW c, NEW r
  PROVE  <<a>> \o <<b>> \o <<c>> \o <<>> \o <<r>> = <<a, b, c, r>>
  <1>1. <<a>> \o <<b>> = <<a, b>>
    BY Concat11, Zenon
  <1>2. <<a, b>> \o <<c>> = <<a, b, c>>
    BY Concat21, Zenon
  <1>3. <<a, b, c>> \o <<>> = <<a, b, c>>
    BY ConcatEmpty, Zenon
  <1>4. <<a, b, c>> \o <<r>> = <<a, b, c, r>>
    BY Concat31, Zenon
  <1>. QED  BY <1>1, <1>2, <1>3, <1>4, Zenon

\* ... or four.
LEMMA FourCallbacks ==
  ASSUME NEW a, NEW b, NEW c, NEW d, NEW r
  PROVE  <<a>> \o <<b>> \o <<c>> \o <<d>> \o <<r>> = <<a, b, c, d, r>>
  <1>1. <<a>> \o <<b>> = <<a, b>>
    BY Concat11, Zenon
  <1>2. <<a, b>> \o <<c>> = <<a, b, c>>
    BY Concat21, Zenon
  <1>3. <<a, b, c>> \o <<d>> = <<a, b, c, d>>
    BY Concat31, Zenon
  <1>4. <<a, b, c, d>> \o <<r>> = <<a, b, c, d, r>>
    BY Concat41, Zenon
  <1>. QED  BY <1>1, <1>2, <1>3, <1>4, Zenon

\* The callbacks for a switch of the AI mode.
LEMMA SwitchCallbacks ==
  ASSUME NEW a, NEW b, NEW c, NEW d, NEW r
  PROVE  <<a>> \o <<b, c>> \o <<>> \o <<d>> \o <<r>> = <<a, b, c, d, r>>
  <1>1. <<a>> \o <<b, c>> = <<a, b, c>>
    BY Concat12, Zenon
  <1>2. <<a, b, c>> \o <<>> = <<a, b, c>>
    BY ConcatEmpty, Zenon
  <1>3. <<a, b, c>> \o <<d>> = <<a, b, c, d>>
    BY Concat31, Zenon
  <1>4. <<a, b, c, d>> \o <<r>> = <<a, b, c, d, r>>
    BY Concat41, Zenon
  <1>. QED  BY <1>1, <1>2, <1>3, <1>4, Zenon


\* To do nothing more is always possible.
LEMMA Replaces0 == ASSUME NEW t, NEW r PROVE Replaces(t, r, <<>>) /\ ToSet(<<>>) = {}
  BY DEF Replaces, Nested, ToSet

-----------------------------------------------------------------------------
(* What publish() puts in the place of itself.                             *)

\* The body of a publication, with the release of the publisher's mutex.
Publication(s, m) == Callbacks(s, m) \o <<Release(s, "_mutex")>>

\* Who subscribes to whom: only the remote connection comes and goes.
SubscribersInv ==
    /\ DOMAIN subscribers = Services
    /\ subscribers["Expression"] = <<"Perception", "Controller", "Landmark">>
    /\ \/ subscribers["Perception"] = <<"Landmark", "Tui">>
       \/ subscribers["Perception"] = <<"Landmark", "Tui", "Remote">>
    /\ \/ subscribers["Controller"] = <<"Landmark", "VoiceAgent", "Tui">>
       \/ subscribers["Controller"] = <<"Landmark", "VoiceAgent", "Tui", "Remote">>
    /\ subscribers["Remote"] = <<"Expression", "Perception", "Controller", "Landmark">>
    /\ \A s \in {"Landmark", "VoiceAgent", "Tui"} :
          subscribers[s] = <<"Expression", "Controller">>

\* ExpressionService publishes to perception, the controller and the tracker.
LEMMA PublicationsOfExpression ==
  ASSUME SubscribersInv
  PROVE  /\ Publication("Expression", "StopPerceptionRequest")
              = <<StopOf("Perception"), StopOf("Landmark")
                  , Release("Expression", "_mutex")>>
         /\ Publication("Expression", "StartPerceptionRequest")
              = <<StartOf("Perception"), StartOf("Landmark")
                  , Release("Expression", "_mutex")>>
         /\ Publication("Expression", "ControlData")
              = <<Store("Controller"), Release("Expression", "_mutex")>>
  <1>1. \A m : Callbacks("Expression", m) = Callback("Perception", m) \o Callback("Controller", m)
                   \o Callback("Landmark", m) \o <<>>
    BY DEF Callbacks, SubscribersInv
  <1>2. Publication("Expression", "StopPerceptionRequest")
          = <<StopOf("Perception"), StopOf("Landmark"), Release("Expression", "_mutex")>>
    <2>1. /\ Callback("Perception", "StopPerceptionRequest") = <<StopOf("Perception")>>
          /\ Callback("Controller", "StopPerceptionRequest") = <<>>
          /\ Callback("Landmark", "StopPerceptionRequest") = <<StopOf("Landmark")>>
      BY DEF Callback
    <2>2. <<StopOf("Perception")>> \o <<>> \o <<StopOf("Landmark")>> \o <<>>
              \o <<Release("Expression", "_mutex")>>
            = <<StopOf("Perception"), StopOf("Landmark"), Release("Expression", "_mutex")>>
      BY TwoCallbacks, Zenon
    <2>. QED  BY <1>1, <2>1, <2>2, Zenon DEF Publication
  <1>3. Publication("Expression", "StartPerceptionRequest")
          = <<StartOf("Perception"), StartOf("Landmark"), Release("Expression", "_mutex")>>
    <2>1. /\ Callback("Perception", "StartPerceptionRequest") = <<StartOf("Perception")>>
          /\ Callback("Controller", "StartPerceptionRequest") = <<>>
          /\ Callback("Landmark", "StartPerceptionRequest") = <<StartOf("Landmark")>>
      BY DEF Callback
    <2>2. <<StartOf("Perception")>> \o <<>> \o <<StartOf("Landmark")>> \o <<>>
              \o <<Release("Expression", "_mutex")>>
            = <<StartOf("Perception"), StartOf("Landmark")
                , Release("Expression", "_mutex")>>
      BY TwoCallbacks, Zenon
    <2>. QED  BY <1>1, <2>1, <2>2, Zenon DEF Publication
  <1>4. Publication("Expression", "ControlData")
          = <<Store("Controller"), Release("Expression", "_mutex")>>
    <2>1. /\ Callback("Perception", "ControlData") = <<>>
          /\ Callback("Controller", "ControlData") = <<Store("Controller")>>
          /\ Callback("Landmark", "ControlData") = <<>>
      BY DEF Callback
    <2>2. <<>> \o <<Store("Controller")>> \o <<>> \o <<>>
              \o <<Release("Expression", "_mutex")>>
            = <<Store("Controller"), Release("Expression", "_mutex")>>
      BY OneCallback, Zenon
    <2>. QED  BY <1>1, <2>1, <2>2, Zenon DEF Publication
  <1>. QED  BY <1>2, <1>3, <1>4

\* PerceptionService publishes to the tracker and the terminal; the remote
\* connection, when it is there, ignores the gestures.
LEMMA PublicationsOfPerception ==
  ASSUME SubscribersInv
  PROVE  Publication("Perception", "RecognizedGesture")
            = <<Store("Landmark"), Store("Tui"), Release("Perception", "_mutex")>>
  <1>1. CASE subscribers["Perception"] = <<"Landmark", "Tui">>
    <2>1. Callbacks("Perception", "RecognizedGesture")
            = Callback("Landmark", "RecognizedGesture")
              \o Callback("Tui", "RecognizedGesture") \o <<>> \o <<>>
      BY <1>1 DEF Callbacks
    <2>2. Publication("Perception", "RecognizedGesture")
            = <<Store("Landmark"), Store("Tui"), Release("Perception", "_mutex")>>
      <3>1. /\ Callback("Landmark", "RecognizedGesture") = <<Store("Landmark")>>
            /\ Callback("Tui", "RecognizedGesture") = <<Store("Tui")>>
        BY DEF Callback
      <3>2. <<Store("Landmark")>> \o <<Store("Tui")>> \o <<>> \o <<>>
                \o <<Release("Perception", "_mutex")>>
              = <<Store("Landmark"), Store("Tui"), Release("Perception", "_mutex")>>
        BY TwoCallbacks, Zenon
      <3>. QED  BY <2>1, <3>1, <3>2, Zenon DEF Publication
    <2>. QED  BY <2>2
  <1>2. CASE subscribers["Perception"] = <<"Landmark", "Tui", "Remote">>
    <2>1. Callbacks("Perception", "RecognizedGesture")
            = Callback("Landmark", "RecognizedGesture")
              \o Callback("Tui", "RecognizedGesture")
              \o Callback("Remote", "RecognizedGesture") \o <<>>
      BY <1>2 DEF Callbacks
    <2>2. Publication("Perception", "RecognizedGesture")
            = <<Store("Landmark"), Store("Tui"), Release("Perception", "_mutex")>>
      <3>1. /\ Callback("Landmark", "RecognizedGesture") = <<Store("Landmark")>>
            /\ Callback("Tui", "RecognizedGesture") = <<Store("Tui")>>
            /\ Callback("Remote", "RecognizedGesture") = <<>>
        BY DEF Callback
      <3>2. <<Store("Landmark")>> \o <<Store("Tui")>> \o <<>> \o <<>>
                \o <<Release("Perception", "_mutex")>>
              = <<Store("Landmark"), Store("Tui"), Release("Perception", "_mutex")>>
        BY TwoCallbacks, Zenon
      <3>. QED  BY <2>1, <3>1, <3>2, Zenon DEF Publication
    <2>. QED  BY <2>2
  <1>. QED  BY <1>1, <1>2 DEF SubscribersInv

\* RobotControllerService publishes its sensor values to all who store them.
LEMMA PublicationsOfController ==
  ASSUME SubscribersInv
  PROVE  \/ Publication("Controller", "SensorData")
              = <<Store("Landmark"), Store("VoiceAgent"), Store("Tui")
                  , Release("Controller", "_mutex")>>
         \/ Publication("Controller", "SensorData")
              = <<Store("Landmark"), Store("VoiceAgent"), Store("Tui"), Store("Remote")
                  , Release("Controller", "_mutex")>>
  <1>1. CASE subscribers["Controller"] = <<"Landmark", "VoiceAgent", "Tui">>
    <2>1. Callbacks("Controller", "SensorData")
            = Callback("Landmark", "SensorData")
              \o Callback("VoiceAgent", "SensorData") \o Callback("Tui", "SensorData")
              \o <<>>
      BY <1>1 DEF Callbacks
    <2>2. Publication("Controller", "SensorData")
            = <<Store("Landmark"), Store("VoiceAgent"), Store("Tui")
                , Release("Controller", "_mutex")>>
      <3>1. /\ Callback("Landmark", "SensorData") = <<Store("Landmark")>>
            /\ Callback("VoiceAgent", "SensorData") = <<Store("VoiceAgent")>>
            /\ Callback("Tui", "SensorData") = <<Store("Tui")>>
        BY DEF Callback
      <3>2. <<Store("Landmark")>> \o <<Store("VoiceAgent")>> \o <<Store("Tui")>> \o <<>>
                \o <<Release("Controller", "_mutex")>>
              = <<Store("Landmark"), Store("VoiceAgent"), Store("Tui")
                  , Release("Controller", "_mutex")>>
        BY ThreeCallbacks, Zenon
      <3>. QED  BY <2>1, <3>1, <3>2, Zenon DEF Publication
    <2>. QED  BY <2>2
  <1>2. CASE subscribers["Controller"] = <<"Landmark", "VoiceAgent", "Tui", "Remote">>
    <2>1. Callbacks("Controller", "SensorData")
            = Callback("Landmark", "SensorData")
              \o Callback("VoiceAgent", "SensorData") \o Callback("Tui", "SensorData")
              \o Callback("Remote", "SensorData")
      BY <1>2 DEF Callbacks
    <2>2. Publication("Controller", "SensorData")
            = <<Store("Landmark"), Store("VoiceAgent"), Store("Tui"), Store("Remote")
                , Release("Controller", "_mutex")>>
      <3>1. /\ Callback("Landmark", "SensorData") = <<Store("Landmark")>>
            /\ Callback("VoiceAgent", "SensorData") = <<Store("VoiceAgent")>>
            /\ Callback("Tui", "SensorData") = <<Store("Tui")>>
            /\ Callback("Remote", "SensorData") = <<Store("Remote")>>
        BY DEF Callback
      <3>2. <<Store("Landmark")>> \o <<Store("VoiceAgent")>> \o <<Store("Tui")>>
                \o <<Store("Remote")>> \o <<Release("Controller", "_mutex")>>
              = <<Store("Landmark"), Store("VoiceAgent"), Store("Tui"), Store("Remote")
                  , Release("Controller", "_mutex")>>
        BY FourCallbacks, ZenonT(30)
      <3>. QED  BY <2>1, <3>1, <3>2, Zenon DEF Publication
    <2>. QED  BY <2>2
  <1>. QED  BY <1>1, <1>2 DEF SubscribersInv

\* The tracker, the voice agent and the terminal publish to ExpressionService
\* and the controller.
LEMMA PublicationsOfOthers ==
  ASSUME SubscribersInv, NEW s \in {"Landmark", "VoiceAgent", "Tui"}
  PROVE  /\ Publication(s, "ControlData")
              = <<Store("Controller"), Release(s, "_mutex")>>
         /\ Publication(s, "SensorReadRequest")
              = <<TryAnswer, Release(s, "_mutex")>>
         /\ Publication(s, "LLMResponse")
              = <<Push(1), Release(s, "_mutex")>>
  <1>1. \A m : Callbacks(s, m) = Callback("Expression", m) \o Callback("Controller", m) \o <<>>
                   \o <<>>
    <2>1. subscribers[s] = <<"Expression", "Controller">>
      BY DEF SubscribersInv
    <2>. QED  BY <2>1 DEF Callbacks
  <1>2. Publication(s, "ControlData")
          = <<Store("Controller"), Release(s, "_mutex")>>
    <2>1. /\ Callback("Expression", "ControlData") = <<>>
          /\ Callback("Controller", "ControlData") = <<Store("Controller")>>
      BY DEF Callback
    <2>2. <<>> \o <<Store("Controller")>> \o <<>> \o <<>> \o <<Release(s, "_mutex")>>
            = <<Store("Controller"), Release(s, "_mutex")>>
      BY OneCallback, Zenon
    <2>. QED  BY <1>1, <2>1, <2>2, Zenon DEF Publication
  <1>3. Publication(s, "SensorReadRequest")
          = <<TryAnswer, Release(s, "_mutex")>>
    <2>1. /\ Callback("Expression", "SensorReadRequest") = <<>>
          /\ Callback("Controller", "SensorReadRequest") = <<TryAnswer>>
      BY DEF Callback
    <2>2. <<>> \o <<TryAnswer>> \o <<>> \o <<>> \o <<Release(s, "_mutex")>>
            = <<TryAnswer, Release(s, "_mutex")>>
      BY OneCallback, Zenon
    <2>. QED  BY <1>1, <2>1, <2>2, Zenon DEF Publication
  <1>4. Publication(s, "LLMResponse")
          = <<Push(1), Release(s, "_mutex")>>
    <2>1. /\ Callback("Expression", "LLMResponse") = <<Push(1)>>
          /\ Callback("Controller", "LLMResponse") = <<>>
      BY DEF Callback
    <2>2. <<Push(1)>> \o <<>> \o <<>> \o <<>> \o <<Release(s, "_mutex")>>
            = <<Push(1), Release(s, "_mutex")>>
      BY OneCallback, Zenon
    <2>. QED  BY <1>1, <2>1, <2>2, Zenon DEF Publication
  <1>. QED  BY <1>2, <1>3, <1>4

\* RemoteConnectionService publishes to the four services it drives.
LEMMA PublicationsOfRemote ==
  ASSUME SubscribersInv
  PROVE  /\ Publication("Remote", "SpeakRequest")
              = <<Push(0), Release("Remote", "_mutex")>>
         /\ Publication("Remote", "ControlData")
              = <<Store("Controller"), Release("Remote", "_mutex")>>
         /\ Publication("Remote", "AIModeOnCall")
              = <<StartOf("Expression"), SetAIMode("on"), StartOf("Perception")
                  , StartOf("Landmark"), Release("Remote", "_mutex")>>
         /\ Publication("Remote", "AIModeOffCall")
              = <<StopOf("Expression"), SetAIMode("off"), StartOf("Perception")
                  , StopOf("Landmark"), Release("Remote", "_mutex")>>
  <1>1. \A m : Callbacks("Remote", m) = Callback("Expression", m) \o Callback("Perception", m)
                   \o Callback("Controller", m) \o Callback("Landmark", m)
    BY DEF Callbacks, SubscribersInv
  <1>2. Publication("Remote", "SpeakRequest")
          = <<Push(0), Release("Remote", "_mutex")>>
    <2>1. /\ Callback("Expression", "SpeakRequest") = <<Push(0)>>
          /\ Callback("Perception", "SpeakRequest") = <<>>
          /\ Callback("Controller", "SpeakRequest") = <<>>
          /\ Callback("Landmark", "SpeakRequest") = <<>>
      BY DEF Callback
    <2>2. <<Push(0)>> \o <<>> \o <<>> \o <<>> \o <<Release("Remote", "_mutex")>>
            = <<Push(0), Release("Remote", "_mutex")>>
      BY OneCallback, Zenon
    <2>. QED  BY <1>1, <2>1, <2>2, Zenon DEF Publication
  <1>3. Publication("Remote", "ControlData")
          = <<Store("Controller"), Release("Remote", "_mutex")>>
    <2>1. /\ Callback("Expression", "ControlData") = <<>>
          /\ Callback("Perception", "ControlData") = <<>>
          /\ Callback("Controller", "ControlData") = <<Store("Controller")>>
          /\ Callback("Landmark", "ControlData") = <<>>
      BY DEF Callback
    <2>2. <<>> \o <<>> \o <<Store("Controller")>> \o <<>>
              \o <<Release("Remote", "_mutex")>>
            = <<Store("Controller"), Release("Remote", "_mutex")>>
      BY OneCallback, Zenon
    <2>. QED  BY <1>1, <2>1, <2>2, Zenon DEF Publication
  <1>4. Publication("Remote", "AIModeOnCall")
          = <<StartOf("Expression"), SetAIMode("on"), StartOf("Perception")
              , StartOf("Landmark"), Release("Remote", "_mutex")>>
    <2>1. /\ Callback("Expression", "AIModeOnCall") = <<StartOf("Expression")>>
          /\ Callback("Perception", "AIModeOnCall") = <<SetAIMode("on"), StartOf("Perception")>>
          /\ Callback("Controller", "AIModeOnCall") = <<>>
          /\ Callback("Landmark", "AIModeOnCall") = <<StartOf("Landmark")>>
      BY DEF Callback
    <2>2. <<StartOf("Expression")>> \o <<SetAIMode("on"), StartOf("Perception")>> \o <<>>
              \o <<StartOf("Landmark")>> \o <<Release("Remote", "_mutex")>>
            = <<StartOf("Expression"), SetAIMode("on"), StartOf("Perception")
                , StartOf("Landmark"), Release("Remote", "_mutex")>>
      BY SwitchCallbacks, ZenonT(30)
    <2>. QED  BY <1>1, <2>1, <2>2, Zenon DEF Publication
  <1>5. Publication("Remote", "AIModeOffCall")
          = <<StopOf("Expression"), SetAIMode("off"), StartOf("Perception")
              , StopOf("Landmark"), Release("Remote", "_mutex")>>
    <2>1. /\ Callback("Expression", "AIModeOffCall") = <<StopOf("Expression")>>
          /\ Callback("Perception", "AIModeOffCall") = <<SetAIMode("off"), StartOf("Perception")>>
          /\ Callback("Controller", "AIModeOffCall") = <<>>
          /\ Callback("Landmark", "AIModeOffCall") = <<StopOf("Landmark")>>
      BY DEF Callback
    <2>2. <<StopOf("Expression")>> \o <<SetAIMode("off"), StartOf("Perception")>> \o <<>>
              \o <<StopOf("Landmark")>> \o <<Release("Remote", "_mutex")>>
            = <<StopOf("Expression"), SetAIMode("off"), StartOf("Perception")
                , StopOf("Landmark"), Release("Remote", "_mutex")>>
      BY SwitchCallbacks, ZenonT(30)
    <2>. QED  BY <1>1, <2>1, <2>2, Zenon DEF Publication
  <1>. QED  BY <1>2, <1>3, <1>4, <1>5

-----------------------------------------------------------------------------
(* What a thread may put in the place of a publication.                    *)

\* A gesture stops and starts two services, or moves the arms.
LEMMA ExpressionPublishes ==
  ASSUME SubscribersInv, NEW a \in Ops("Expression"), a[1] = "publish"
  PROVE  /\ Replaces("Expression", Rank(a), Publication(a[2], a[3]))
         /\ ToSet(Publication(a[2], a[3])) \subseteq
               {StopOf("Perception"), StopOf("Landmark"), StartOf("Perception"),
                StartOf("Landmark"), Store("Controller"), Release("Expression", "_mutex")}
  <1>. DEFINE E == "Expression"
  <1>1. \/ a = Publish(E, "StopPerceptionRequest")
        \/ a = Publish(E, "StartPerceptionRequest")
        \/ a = Publish(E, "ControlData")
    BY Kinds DEF Ops
  <1>2. a[2] = E /\ Rank(a) = 11
    BY <1>1, Whose, Ranks
  <1>3. /\ StopOf("Perception") \in Ops(E) /\ StopOf("Landmark") \in Ops(E)
        /\ StartOf("Perception") \in Ops(E) /\ StartOf("Landmark") \in Ops(E)
        /\ Store("Controller") \in Ops(E) /\ Release(E, "_mutex") \in Ops(E)
    BY DEF Ops
  <1>4. CASE a = Publish(E, "StopPerceptionRequest")
    <2>1. Publication(a[2], a[3])
             = <<StopOf("Perception"), StopOf("Landmark"), Release(E, "_mutex")>>
      BY <1>4, Whose, Arguments, PublicationsOfExpression
    <2>2. /\ Replaces(E, 11, <<StopOf("Perception"), StopOf("Landmark"), Release(E, "_mutex")>>)
          /\ ToSet(<<StopOf("Perception"), StopOf("Landmark"), Release(E, "_mutex")>>)
                = {StopOf("Perception"), StopOf("Landmark"), Release(E, "_mutex")}
      <3>1. /\ Rank(StopOf("Perception")) = 8 /\ Rank(StopOf("Landmark")) = 8
            /\ Rank(Release(E, "_mutex")) = 9
        BY Ranks
      <3>. QED  BY <1>3, <3>1 DEF Replaces, Nested, MayPrecede, ToSet
    <2>. QED  BY <1>2, <2>1, <2>2
  <1>5. CASE a = Publish(E, "StartPerceptionRequest")
    <2>1. Publication(a[2], a[3])
             = <<StartOf("Perception"), StartOf("Landmark"), Release(E, "_mutex")>>
      BY <1>5, Whose, Arguments, PublicationsOfExpression
    <2>2. /\ Replaces(E, 11, <<StartOf("Perception"), StartOf("Landmark"), Release(E, "_mutex")>>)
          /\ ToSet(<<StartOf("Perception"), StartOf("Landmark"), Release(E, "_mutex")>>)
                = {StartOf("Perception"), StartOf("Landmark"), Release(E, "_mutex")}
      <3>1. /\ Rank(StartOf("Perception")) = 8 /\ Rank(StartOf("Landmark")) = 8
            /\ Rank(Release(E, "_mutex")) = 9
        BY Ranks
      <3>. QED  BY <1>3, <3>1 DEF Replaces, Nested, MayPrecede, ToSet
    <2>. QED  BY <1>2, <2>1, <2>2
  <1>6. CASE a = Publish(E, "ControlData")
    <2>1. Publication(a[2], a[3]) = <<Store("Controller"), Release(E, "_mutex")>>
      BY <1>6, Whose, Arguments, PublicationsOfExpression
    <2>2. /\ Replaces(E, 11, <<Store("Controller"), Release(E, "_mutex")>>)
          /\ ToSet(<<Store("Controller"), Release(E, "_mutex")>>)
                = {Store("Controller"), Release(E, "_mutex")}
      <3>1. /\ Rank(Store("Controller")) = 8 /\ Rank(Release(E, "_mutex")) = 9
        BY Ranks
      <3>. QED  BY <1>3, <3>1 DEF Replaces, Nested, MayPrecede, ToSet
    <2>. QED  BY <1>2, <2>1, <2>2
  <1>. QED  BY <1>1, <1>4, <1>5, <1>6

\* A recognized gesture is stored by the tracker and the terminal.
LEMMA PerceptionPublishes ==
  ASSUME SubscribersInv, NEW a \in Ops("Perception"), a[1] = "publish"
  PROVE  /\ Replaces("Perception", Rank(a), Publication(a[2], a[3]))
         /\ ToSet(Publication(a[2], a[3])) \subseteq
               {Store("Landmark"), Store("Tui"), Release("Perception", "_mutex")}
  <1>. DEFINE P == "Perception"
              ops == <<Store("Landmark"), Store("Tui"), Release(P, "_mutex")>>
  <1>1. a = Publish(P, "RecognizedGesture")
    BY Kinds DEF Ops
  <1>2. Publication(a[2], a[3]) = ops /\ Rank(a) = 11
    BY <1>1, Whose, Arguments, Ranks, PublicationsOfPerception
  <1>3. Store("Landmark") \in Ops(P) /\ Store("Tui") \in Ops(P) /\ Release(P, "_mutex") \in Ops(P)
    BY DEF Ops
  <1>4. /\ Replaces(P, 11, ops)
        /\ ToSet(ops) = {Store("Landmark"), Store("Tui"), Release(P, "_mutex")}
    <2>1. /\ Rank(Store("Landmark")) = 1 /\ Rank(Store("Tui")) = 1
          /\ Rank(Release(P, "_mutex")) = 9
      BY Ranks
    <2>. QED  BY <1>3, <2>1 DEF Replaces, Nested, MayPrecede, ToSet
  <1>. QED  BY <1>2, <1>4

\* SensorData is published by the controller and by those who ask for it.
LEMMA ControllerPublishes ==
  ASSUME SubscribersInv, NEW t \in {"Controller", "VoiceAgent", "Tui"},
         NEW a, a = Publish("Controller", "SensorData")
  PROVE  /\ Replaces(t, Rank(a), Publication(a[2], a[3]))
         /\ ToSet(Publication(a[2], a[3])) \subseteq
               InnerStores \cup {Release("Controller", "_mutex")}
  <1>. DEFINE C == "Controller"
              ops3 == <<Store("Landmark"), Store("VoiceAgent"), Store("Tui"), Release(C, "_mutex")>>
              ops4 == <<Store("Landmark"), Store("VoiceAgent"), Store("Tui"), Store("Remote"),
                        Release(C, "_mutex")>>
  <1>1. Publication(a[2], a[3]) \in {ops3, ops4} /\ Rank(a) = 3
    BY Whose, Arguments, Ranks, PublicationsOfController
  <1>2. /\ Store("Landmark") \in Ops(t) /\ Store("VoiceAgent") \in Ops(t)
        /\ Store("Tui") \in Ops(t) /\ Store("Remote") \in Ops(t) /\ Release(C, "_mutex") \in Ops(t)
    BY DEF Ops, Answer, InnerStores, Commands
  <1>3. /\ Replaces(t, 3, ops3)
        /\ ToSet(ops3) = {Store("Landmark"), Store("VoiceAgent"), Store("Tui"),
                          Release(C, "_mutex")}
    <2>1. /\ Rank(Store("Landmark")) = 1 /\ Rank(Store("VoiceAgent")) = 1
          /\ Rank(Store("Tui")) = 1 /\ Rank(Release(C, "_mutex")) = 2
      BY Ranks
    <2>. QED  BY <1>2, <2>1 DEF Replaces, Nested, MayPrecede, ToSet
  <1>4. /\ Replaces(t, 3, ops4)
        /\ ToSet(ops4) = {Store("Landmark"), Store("VoiceAgent"), Store("Tui"), Store("Remote"),
                          Release(C, "_mutex")}
    <2>1. /\ Rank(Store("Landmark")) = 1 /\ Rank(Store("VoiceAgent")) = 1
          /\ Rank(Store("Tui")) = 1 /\ Rank(Store("Remote")) = 1
          /\ Rank(Release(C, "_mutex")) = 2
      BY Ranks
    <2>. QED  BY <1>2, <2>1 DEF Replaces, Nested, MayPrecede, ToSet
  <1>. HIDE DEF ops3, ops4
  <1>. QED  BY <1>1, <1>3, <1>4 DEF InnerStores

\* A command, a request for sensor values or a response of the language model.
LEMMA OthersPublish ==
  ASSUME SubscribersInv, NEW t \in {"Landmark", "VoiceAgent", "Tui"},
         NEW a \in Ops(t), a[1] = "publish", a[2] = t
  PROVE  /\ Replaces(t, Rank(a), Publication(a[2], a[3]))
         /\ ToSet(Publication(a[2], a[3])) \subseteq
               {Push(1), TryAnswer, Store("Controller"), Release(t, "_mutex")}
         /\ Push(1) \in ToSet(Publication(a[2], a[3])) => a = Publish(t, "LLMResponse")
  <1>1. /\ a = Publish(t, a[3])
        /\ \/ a[3] = "ControlData" /\ t \in {"Landmark", "Tui"}
           \/ a[3] \in {"SensorReadRequest", "LLMResponse"} /\ t \in {"VoiceAgent", "Tui"}
    BY Kinds, Whose, Arguments DEF Ops, Answer, InnerStores, Commands
  <1>2. Release(t, "_mutex") \in Ops(t) /\ Rank(Release(t, "_mutex")) = 9
    BY Ranks DEF Ops
  <1>3. CASE a[3] = "ControlData"
    <2>1. Store("Controller") \in Ops(t) /\ Rank(a) = 11
      BY <1>1, <1>3, Ranks DEF Ops
    <2>2. Publication(a[2], a[3]) = <<Store("Controller"), Release(t, "_mutex")>>
      BY <1>3, PublicationsOfOthers
    <2>3. /\ Replaces(t, 11, <<Store("Controller"), Release(t, "_mutex")>>)
          /\ ToSet(<<Store("Controller"), Release(t, "_mutex")>>)
                = {Store("Controller"), Release(t, "_mutex")}
      <3>1. /\ Rank(Store("Controller")) = 8
        BY Ranks
      <3>. QED  BY <2>1, <1>2, <3>1 DEF Replaces, Nested, MayPrecede, ToSet
    <2>4. Push(1) \notin {Store("Controller"), Release(t, "_mutex")}
      BY Kinds
    <2>. QED  BY <2>1, <2>2, <2>3, <2>4
  <1>4. CASE a[3] = "SensorReadRequest"
    <2>1. TryAnswer \in Ops(t) /\ Rank(a) = 11
      BY <1>1, <1>4, Ranks DEF Ops, Answer
    <2>2. Publication(a[2], a[3]) = <<TryAnswer, Release(t, "_mutex")>>
      BY <1>4, PublicationsOfOthers
    <2>3. /\ Replaces(t, 11, <<TryAnswer, Release(t, "_mutex")>>)
          /\ ToSet(<<TryAnswer, Release(t, "_mutex")>>) = {TryAnswer, Release(t, "_mutex")}
      <3>1. /\ Rank(TryAnswer) = 8
        BY Ranks
      <3>. QED  BY <2>1, <1>2, <3>1 DEF Replaces, Nested, MayPrecede, ToSet
    <2>4. Push(1) \notin {TryAnswer, Release(t, "_mutex")}
      BY Kinds
    <2>. QED  BY <2>1, <2>2, <2>3, <2>4
  <1>5. CASE a[3] = "LLMResponse"
    <2>1. Push(1) \in Ops(t) /\ Rank(a) = 10
      BY <1>1, <1>5, Ranks DEF Ops
    <2>2. Publication(a[2], a[3]) = <<Push(1), Release(t, "_mutex")>>
      BY <1>5, PublicationsOfOthers
    <2>3. /\ Replaces(t, 10, <<Push(1), Release(t, "_mutex")>>)
          /\ ToSet(<<Push(1), Release(t, "_mutex")>>) = {Push(1), Release(t, "_mutex")}
      <3>1. /\ Rank(Push(1)) = 5
        BY Ranks
      <3>. QED  BY <2>1, <1>2, <3>1 DEF Replaces, Nested, MayPrecede, ToSet
    <2>. QED  BY <1>1, <1>5, <2>1, <2>2, <2>3
  <1>. QED  BY <1>1, <1>3, <1>4, <1>5

\* A command, a sentence to speak, or a change of the mode.
LEMMA RemotePublishes ==
  ASSUME SubscribersInv, NEW a \in Ops("Remote"), a[1] = "publish"
  PROVE  /\ Replaces("Remote", Rank(a), Publication(a[2], a[3])) /\ Rank(a) = 11
         /\ \/ ToSet(Publication(a[2], a[3])) \subseteq
                  {Push(0), Store("Controller"), Release("Remote", "_mutex")}
            \/ ToSet(Publication(a[2], a[3])) =
                  {StartOf("Expression"), SetAIMode("on"), StartOf("Perception"),
                   StartOf("Landmark"), Release("Remote", "_mutex")}
            \/ ToSet(Publication(a[2], a[3])) =
                  {StopOf("Expression"), SetAIMode("off"), StartOf("Perception"),
                   StopOf("Landmark"), Release("Remote", "_mutex")}
  <1>. DEFINE R == "Remote"
              on == <<StartOf("Expression"), SetAIMode("on"), StartOf("Perception"),
                      StartOf("Landmark"), Release(R, "_mutex")>>
              off == <<StopOf("Expression"), SetAIMode("off"), StartOf("Perception"),
                       StopOf("Landmark"), Release(R, "_mutex")>>
  <1>1. \/ a = Publish(R, "SpeakRequest") \/ a = Publish(R, "ControlData")
        \/ a = Publish(R, "AIModeOnCall") \/ a = Publish(R, "AIModeOffCall")
    BY Kinds DEF Ops
  <1>2. Rank(a) = 11
    BY <1>1, Ranks
  <1>3. /\ Push(0) \in Ops(R) /\ Store("Controller") \in Ops(R) /\ Release(R, "_mutex") \in Ops(R)
        /\ StartOf("Expression") \in Ops(R) /\ StopOf("Expression") \in Ops(R)
        /\ SetAIMode("on") \in Ops(R) /\ SetAIMode("off") \in Ops(R)
        /\ StartOf("Perception") \in Ops(R)
        /\ StartOf("Landmark") \in Ops(R) /\ StopOf("Landmark") \in Ops(R)
    BY DEF Ops
  <1>4. CASE a = Publish(R, "SpeakRequest")
    <2>1. Publication(a[2], a[3]) = <<Push(0), Release(R, "_mutex")>>
      BY <1>4, Whose, Arguments, PublicationsOfRemote
    <2>2. /\ Replaces(R, 11, <<Push(0), Release(R, "_mutex")>>)
          /\ ToSet(<<Push(0), Release(R, "_mutex")>>) = {Push(0), Release(R, "_mutex")}
      <3>1. /\ Rank(Push(0)) = 5 /\ Rank(Release(R, "_mutex")) = 9
        BY Ranks
      <3>. QED  BY <1>3, <3>1 DEF Replaces, Nested, MayPrecede, ToSet
    <2>. QED  BY <1>2, <2>1, <2>2
  <1>5. CASE a = Publish(R, "ControlData")
    <2>1. Publication(a[2], a[3]) = <<Store("Controller"), Release(R, "_mutex")>>
      BY <1>5, Whose, Arguments, PublicationsOfRemote
    <2>2. /\ Replaces(R, 11, <<Store("Controller"), Release(R, "_mutex")>>)
          /\ ToSet(<<Store("Controller"), Release(R, "_mutex")>>)
                = {Store("Controller"), Release(R, "_mutex")}
      <3>1. /\ Rank(Store("Controller")) = 8 /\ Rank(Release(R, "_mutex")) = 9
        BY Ranks
      <3>. QED  BY <1>3, <3>1 DEF Replaces, Nested, MayPrecede, ToSet
    <2>. QED  BY <1>2, <2>1, <2>2
  <1>6. CASE a = Publish(R, "AIModeOnCall")
    <2>1. Publication(a[2], a[3]) = on
      BY <1>6, Whose, Arguments, PublicationsOfRemote
    <2>2. /\ Replaces(R, 11, on)
          /\ ToSet(on) = {StartOf("Expression"), SetAIMode("on"), StartOf("Perception"),
                          StartOf("Landmark"), Release(R, "_mutex")}
      <3>1. /\ Rank(StartOf("Expression")) = 6 /\ Rank(SetAIMode("on")) = 7
            /\ Rank(StartOf("Perception")) = 8 /\ Rank(StartOf("Landmark")) = 8
            /\ Rank(Release(R, "_mutex")) = 9
        BY Ranks
      <3>. QED  BY <1>3, <3>1 DEF Replaces, Nested, MayPrecede, ToSet
    <2>. QED  BY <1>2, <2>1, <2>2
  <1>7. CASE a = Publish(R, "AIModeOffCall")
    <2>1. Publication(a[2], a[3]) = off
      BY <1>7, Whose, Arguments, PublicationsOfRemote
    <2>2. /\ Replaces(R, 11, off)
          /\ ToSet(off) = {StopOf("Expression"), SetAIMode("off"), StartOf("Perception"),
                           StopOf("Landmark"), Release(R, "_mutex")}
      <3>1. /\ Rank(StopOf("Expression")) = 6 /\ Rank(SetAIMode("off")) = 7
            /\ Rank(StartOf("Perception")) = 8 /\ Rank(StopOf("Landmark")) = 8
            /\ Rank(Release(R, "_mutex")) = 9
        BY Ranks
      <3>. QED  BY <1>3, <3>1 DEF Replaces, Nested, MayPrecede, ToSet
    <2>. QED  BY <1>2, <2>1, <2>2
  <1>. QED  BY <1>1, <1>4, <1>5, <1>6, <1>7

-----------------------------------------------------------------------------
(* The work after a step.                                                  *)

\* Thread t has replaced its next operation by ops; the others are where they
\* were, but ExpressionService may have been woken.
Replaced(w, t, ops) ==
    /\ NestedWork(w)
    /\ \A op : op[1] \notin {"release", "asleep"} =>
          (op \in ToSet(w[t]) <=> op \in ToSet(ops) \cup Rest(work[t]))
    /\ ToSet(w[t]) \subseteq ToSet(ops) \cup Rest(work[t])
    /\ \A u \in Services \ {t} : \A op : op[1] # "asleep" =>
          (op \in ToSet(w[u]) <=> op \in ToSet(work[u]))
    /\ \A u \in Services \ {t} : work[u] = <<>> => w[u] = <<>>

\* After(t, ops) is what thread t and the others do next when ops takes the
\* place of what t did.
LEMMA AfterReplaced ==
  ASSUME NestingInv, NEW t \in Services, work[t] # <<>>,
         NEW ops, Replaces(t, Rank(work[t][1]), ops)
  PROVE  Replaced(After(t, ops), t, ops)
  <1>. DEFINE v == ops \o Tail(work[t])
              w == After(t, ops)
  <1>1. Nested(t, work[t]) /\ DOMAIN work = Services
    BY DEF NestingInv, NestedWork
  <1>2. Nested(t, v) /\ ToSet(v) = ToSet(ops) \cup Rest(work[t])
    BY <1>1, ReplacedNested, OpsRanked
  <1>. HIDE DEF v
  <1>3. /\ Nested(t, Settled(v))
        /\ Settled(v) # <<>> => Settled(v)[1][1] # "release"
        /\ \A op : op[1] # "release" => (op \in ToSet(Settled(v)) <=> op \in ToSet(v))
        /\ ToSet(Settled(v)) \subseteq ToSet(v)
    BY <1>2, SettledNested
  <1>4. /\ DOMAIN w = Services /\ w[t] = Settled(v)
        /\ \A u \in Services \ {t} : w[u] = work[u]
    BY <1>1 DEF After, v
  <1>. HIDE DEF w
  <1>5. NestedWork(w)
    <2>. SUFFICES ASSUME NEW u \in Services
                  PROVE  Nested(u, w[u]) /\ (w[u] # <<>> => w[u][1][1] # "release")
      BY <1>4 DEF NestedWork
    <2>1. CASE u = t
      BY <2>1, <1>3, <1>4
    <2>2. CASE u # t
      BY <2>2, <1>4 DEF NestingInv, NestedWork
    <2>. QED  BY <2>1, <2>2
  <1>6. Replaced(w, t, ops)
    BY <1>2, <1>3, <1>4, <1>5 DEF Replaced
  <1>. QED  BY <1>6 DEF w

\* Behind Asleep there is no release.
LEMMA NoReleaseAfterSleep ==
  ASSUME NEW b \in Ops("Expression"), MayPrecede(Asleep, b)
  PROVE  b[1] # "release"
  <1>1. Rank(b) >= 11
    BY OpsRanked, Ranks DEF MayPrecede
  <1>2. b # Release("Expression", "_mutex")
    BY <1>1, Ranks
  <1>. QED  BY <1>2, Kinds DEF Ops

\* What is left of a nested sequence is nested.
LEMMA TailNested ==
  ASSUME NEW t, NEW w, Nested(t, w), w # <<>>
  PROVE  Nested(t, Tail(w)) /\ ToSet(Tail(w)) = Rest(w)
         /\ (Tail(w) # <<>> => Tail(w)[1] \in Rest(w))
  <1>1. w \in Seq(Ops(t)) /\ Len(w) \in Nat /\ Len(w) >= 1
    BY DEF Nested
  <1>. DEFINE v == Tail(w)
  <1>2. /\ v \in Seq(Ops(t)) /\ Len(v) = Len(w) - 1 /\ DOMAIN v = 1 .. Len(v)
        /\ \A i \in 1 .. Len(v) : i + 1 \in 2 .. Len(w) /\ v[i] = w[i + 1]
        /\ \A k \in 2 .. Len(w) : k - 1 \in 1 .. Len(v) /\ v[k - 1] = w[k]
        /\ v # <<>> => 1 \in 1 .. Len(v)
    BY <1>1
  <1>. HIDE DEF v
  <1>3. ASSUME NEW i \in 1 .. Len(v), NEW j \in 1 .. Len(v), i < j
        PROVE  MayPrecede(v[i], v[j])
    <2>1. i + 1 \in 1 .. Len(w) /\ j + 1 \in 1 .. Len(w) /\ i + 1 < j + 1
      BY <1>1, <1>2, <1>3
    <2>2. MayPrecede(w[i + 1], w[j + 1])
      BY <2>1 DEF Nested
    <2>. QED  BY <2>2, <1>2
  <1>4. Nested(t, v)
    BY <1>2, <1>3 DEF Nested
  <1>5. ToSet(v) = Rest(w)
    <2>1. ToSet(v) \subseteq Rest(w)
      BY <1>2 DEF ToSet, Rest
    <2>2. Rest(w) \subseteq ToSet(v)
      BY <1>2 DEF ToSet, Rest
    <2>. QED  BY <2>1, <2>2
  <1>6. v # <<>> => v[1] \in Rest(w)
    BY <1>2 DEF Rest
  <1>. QED  BY <1>4, <1>5, <1>6 DEF v

\* A notification wakes the thread of ExpressionService and changes nothing else.
LEMMA NotifiedReplaced ==
  ASSUME NEW w, NEW t \in Services, NEW ops, t # "Expression", Replaced(w, t, ops)
  PROVE  Replaced(Notified(w), t, ops)
  <1>. DEFINE E == "Expression"
  <1>1. CASE w[E] # <<>> /\ Head(w[E]) = Asleep
    <2>. DEFINE v == Notified(w)
    <2>1. Nested(E, w[E]) /\ DOMAIN w = Services
      BY DEF Replaced, NestedWork
    <2>2. /\ DOMAIN v = Services /\ v[E] = Tail(w[E])
          /\ \A u \in Services \ {E} : v[u] = w[u]
      BY <1>1, <2>1 DEF Notified
    <2>3. /\ w[E][1] = Asleep /\ ToSet(w[E]) = {Asleep} \cup Rest(w[E])
          /\ \A b \in Rest(w[E]) : b \in Ops(E) /\ MayPrecede(Asleep, b)
      BY <1>1, <2>1, HeadAndRest
    <2>4. Nested(E, v[E]) /\ ToSet(v[E]) = Rest(w[E]) /\ (v[E] # <<>> => v[E][1] \in Rest(w[E]))
      BY <1>1, <2>1, <2>2, TailNested
    <2>. HIDE DEF v
    <2>5. v[E] # <<>> => v[E][1][1] # "release"
      BY <2>3, <2>4, NoReleaseAfterSleep
    <2>6. NestedWork(v)
      BY <2>2, <2>4, <2>5 DEF Replaced, NestedWork
    <2>7. \A op : op[1] # "asleep" => (op \in ToSet(v[E]) <=> op \in ToSet(w[E]))
      BY <2>3, <2>4, Kinds
    <2>8. work[E] # <<>>
      BY <1>1 DEF Replaced
    <2>9. Replaced(v, t, ops)
      BY <2>2, <2>6, <2>7, <2>8 DEF Replaced
    <2>. QED  BY <2>9 DEF v
  <1>2. CASE ~(w[E] # <<>> /\ Head(w[E]) = Asleep)
    BY <1>2 DEF Notified
  <1>. QED  BY <1>1, <1>2

\* The next operation of a thread.
First(t) == work[t][1]
Todo(t) == ToSet(work[t])

\* What At(t, k) says about the work of thread t.
LEMMA NextOperation ==
  ASSUME NestingInv, NEW t \in Services, NEW k, At(t, k)
  PROVE  /\ alive[t] /\ work[t] # <<>>
         /\ First(t) \in Ops(t) /\ First(t)[1] = k
         /\ Of(t) = First(t)[2] /\ Argument(t) = First(t)[3]
         /\ Todo(t) = {First(t)} \cup Rest(work[t])
         /\ \A b \in Rest(work[t]) : b \in Ops(t) /\ MayPrecede(First(t), b)
  <1>1. Nested(t, work[t]) /\ alive[t] /\ work[t] # <<>> /\ Head(work[t])[1] = k
    BY DEF NestingInv, NestedWork, At
  <1>2. /\ work[t][1] = Head(work[t]) /\ work[t][1] \in Ops(t)
        /\ ToSet(work[t]) = {work[t][1]} \cup Rest(work[t])
        /\ \A b \in Rest(work[t]) : b \in Ops(t) /\ MayPrecede(work[t][1], b)
    BY <1>1, HeadAndRest
  <1>. QED  BY <1>1, <1>2 DEF First, Of, Argument, Todo

\* An operation that is done is replaced by nothing.
LEMMA DoneReplaced ==
  ASSUME NestingInv, NEW t \in Services, work[t] # <<>>
  PROVE  Replaced(After(t, <<>>), t, <<>>)
  BY AfterReplaced, Replaces0

-----------------------------------------------------------------------------
(* The rounds.                                                             *)

\* The operations of which the terminal does one in a round.
TuiOps ==
    {Publish("Tui", "ControlData"), Publish("Tui", "SensorReadRequest"),
     Publish("Tui", "LLMResponse"),
     StartOf("Controller"), StartOf("Remote"), StartOf("Perception"), StartOf("Expression"),
     StopOf("Controller"), StopOf("Remote"), StopOf("Perception"), StopOf("Expression")}

\* A round of the terminal is one command.
LEMMA TuiRound == \A round \in TuiRounds : \E op \in TuiOps : round = <<op>>
  <1>. SUFFICES ASSUME NEW round \in TuiRounds PROVE \E op \in TuiOps : round = <<op>>
    OBVIOUS
  <1>1. CASE \E m \in {"ControlData", "SensorReadRequest", "LLMResponse"} :
               round = <<Publish("Tui", m)>>
    BY <1>1 DEF TuiOps
  <1>2. CASE \E s \in Ordered : round = <<StartOf(s)>>
    BY <1>2, OrderedAreStartable DEF TuiOps, Startable
  <1>3. CASE \E s \in Ordered : round = <<StopOf(s)>>
    BY <1>3, OrderedAreStartable DEF TuiOps, Startable
  <1>. QED  BY <1>1, <1>2, <1>3 DEF TuiRounds

\* What thread t has to do when it begins a round.
LEMMA RoundNested ==
  ASSUME NEW t \in Services, NEW round \in Rounds(t)
  PROVE  Nested(t, round) /\ round # <<>> /\ round[1][1] # "release"
  <1>1. CASE t = "Expression"
    <2>1. round = <<Wait, Serve>>
      BY <1>1 DEF Rounds
    <2>2. Wait \in Ops(t) /\ Serve \in Ops(t)
      BY <1>1 DEF Ops
    <2>3. Rank(Wait) = 11 /\ Rank(Serve) = 13 /\ Wait[1] = "wait"
      BY Ranks, Kinds
    <2>. QED  BY <2>1, <2>2, <2>3 DEF Nested, MayPrecede
  <1>2. CASE t = "Perception"
    <2>1. round = <<Publish("Perception", "RecognizedGesture")>>
      BY <1>2 DEF Rounds, PerceptionRounds
    <2>2. Publish("Perception", "RecognizedGesture") \in Ops(t)
      BY <1>2 DEF Ops
    <2>3. Publish("Perception", "RecognizedGesture")[1] = "publish"
      BY Kinds
    <2>. QED  BY <2>1, <2>2, <2>3 DEF Nested
  <1>3. CASE t = "Landmark"
    <2>1. round = <<Store("Landmark"), Publish("Landmark", "ControlData")>>
      BY <1>3 DEF Rounds, LandmarkRounds
    <2>2. Store("Landmark") \in Ops(t) /\ Publish("Landmark", "ControlData") \in Ops(t)
      BY <1>3 DEF Ops
    <2>3. /\ Rank(Store("Landmark")) = 1 /\ Rank(Publish("Landmark", "ControlData")) = 11
          /\ Store("Landmark")[1] = "store"
      BY Ranks, Kinds
    <2>. QED  BY <2>1, <2>2, <2>3 DEF Nested, MayPrecede
  <1>4. CASE t = "Controller"
    <2>1. round = <<Publish("Controller", "SensorData")>>
      BY <1>4 DEF Rounds, ControllerRounds
    <2>2. Publish("Controller", "SensorData") \in Ops(t)
      BY <1>4 DEF Ops
    <2>3. Publish("Controller", "SensorData")[1] = "publish"
      BY Kinds
    <2>. QED  BY <2>1, <2>2, <2>3 DEF Nested
  <1>5. CASE t = "VoiceAgent"
    <2>. DEFINE ask == Publish("VoiceAgent", "SensorReadRequest")
                response == Publish("VoiceAgent", "LLMResponse")
    <2>1. round = <<ask>> \/ round = <<response, ask>>
      BY <1>5 DEF Rounds, VoiceAgentRounds
    <2>2. ask \in Ops(t) /\ response \in Ops(t)
      BY <1>5 DEF Ops
    <2>3. /\ Rank(ask) = 11 /\ Rank(response) = 10
          /\ ask[1] = "publish" /\ response[1] = "publish"
      BY Ranks, Kinds
    <2>. HIDE DEF ask, response
    <2>4. CASE round = <<ask>>
      BY <2>4, <2>2, <2>3 DEF Nested
    <2>5. CASE round = <<response, ask>>
      BY <2>5, <2>2, <2>3 DEF Nested, MayPrecede
    <2>. QED  BY <2>1, <2>4, <2>5
  <1>6. CASE t = "Tui"
    <2>1. PICK op \in TuiOps : round = <<op>>
      BY <1>6, TuiRound DEF Rounds
    <2>2. op \in Ops(t) /\ op[1] # "release"
      BY <1>6, Kinds DEF Ops, TuiOps, Commands
    <2>. QED  BY <2>1, <2>2 DEF Nested
  <1>7. CASE t = "Remote"
    <2>. DEFINE say == Publish("Remote", "SpeakRequest")
                on == Publish("Remote", "AIModeOnCall")
                off == Publish("Remote", "AIModeOffCall")
                move == Publish("Remote", "ControlData")
                sp == Subscribe("Perception")
                sc == Subscribe("Controller")
                up == Unsubscribe("Perception")
                uc == Unsubscribe("Controller")
    <2>1. \/ round = <<say, off, sp, sc>> \/ round = <<on, up, uc, say>>
          \/ round = <<on, say>> \/ round = <<say, off>> \/ round = <<move>>
      BY <1>7 DEF Rounds, RemoteRounds
    <2>2. /\ say \in Ops(t) /\ on \in Ops(t) /\ off \in Ops(t) /\ move \in Ops(t)
          /\ sp \in Ops(t) /\ sc \in Ops(t) /\ up \in Ops(t) /\ uc \in Ops(t)
      BY <1>7 DEF Ops
    <2>3. /\ Rank(say) = 11 /\ Rank(on) = 11 /\ Rank(off) = 11 /\ Rank(move) = 11
          /\ Rank(sp) = 11 /\ Rank(sc) = 11 /\ Rank(up) = 11 /\ Rank(uc) = 11
          /\ say[1] = "publish" /\ on[1] = "publish" /\ move[1] = "publish"
      BY Ranks, Kinds
    <2>. HIDE DEF say, on, off, move, sp, sc, up, uc
    <2>4. CASE round = <<say, off, sp, sc>>
      BY <2>4, <2>2, <2>3 DEF Nested, MayPrecede
    <2>5. CASE round = <<on, up, uc, say>>
      BY <2>5, <2>2, <2>3 DEF Nested, MayPrecede
    <2>6. CASE round = <<on, say>>
      BY <2>6, <2>2, <2>3 DEF Nested, MayPrecede
    <2>7. CASE round = <<say, off>>
      BY <2>7, <2>2, <2>3 DEF Nested, MayPrecede
    <2>8. CASE round = <<move>>
      BY <2>8, <2>2, <2>3 DEF Nested
    <2>. QED  BY <2>1, <2>4, <2>5, <2>6, <2>7, <2>8
  <1>. QED  BY <1>1, <1>2, <1>3, <1>4, <1>5, <1>6, <1>7

\* A thread without work begins a round.
LEMMA RoundReplaced ==
  ASSUME NestingInv, NEW t \in Services, work[t] = <<>>, NEW round \in Rounds(t)
  PROVE  Replaced([work EXCEPT ![t] = round], t, round)
  <1>. DEFINE w == [work EXCEPT ![t] = round]
  <1>1. Nested(t, round) /\ round[1][1] # "release"
    BY RoundNested
  <1>2. DOMAIN w = Services /\ w[t] = round /\ \A u \in Services \ {t} : w[u] = work[u]
    BY DEF NestingInv, NestedWork
  <1>. HIDE DEF w
  <1>3. NestedWork(w)
    <2>. SUFFICES ASSUME NEW u \in Services
                  PROVE  Nested(u, w[u]) /\ (w[u] # <<>> => w[u][1][1] # "release")
      BY <1>2 DEF NestedWork
    <2>1. CASE u = t
      BY <2>1, <1>1, <1>2
    <2>2. CASE u # t
      BY <2>2, <1>2 DEF NestingInv, NestedWork
    <2>. QED  BY <2>1, <2>2
  <1>4. Rest(work[t]) = {}
    BY DEF Rest
  <1>5. Replaced(w, t, round)
    BY <1>2, <1>3, <1>4 DEF Replaced
  <1>. QED  BY <1>5 DEF w

\* Whatever a thread publishes, it replaces the publication by what is deeper.
LEMMA PublicationReplaced ==
  ASSUME NestingInv, SubscribersInv, NEW t \in Services, At(t, "publish")
  PROVE  Replaced(After(t, Publication(Of(t), Argument(t))), t, Publication(Of(t), Argument(t)))
  <1>. DEFINE a == First(t)
              ops == Publication(Of(t), Argument(t))
  <1>1. /\ work[t] # <<>> /\ a \in Ops(t) /\ a[1] = "publish"
        /\ ops = Publication(a[2], a[3])
    BY NextOperation
  <1>2. CASE t = "Expression"
    BY <1>1, <1>2, ExpressionPublishes, AfterReplaced DEF First
  <1>3. CASE t = "Perception"
    BY <1>1, <1>3, PerceptionPublishes, AfterReplaced DEF First
  <1>4. CASE t = "Remote"
    BY <1>1, <1>4, RemotePublishes, AfterReplaced DEF First
  <1>5. CASE t \in {"Controller", "VoiceAgent", "Tui"} /\ a = Publish("Controller", "SensorData")
    BY <1>1, <1>5, ControllerPublishes, AfterReplaced DEF First
  <1>6. CASE t \in {"Landmark", "VoiceAgent", "Tui"} /\ a[2] = t
    BY <1>1, <1>6, OthersPublish, AfterReplaced DEF First
  <1>7. \/ t \in {"Expression", "Perception", "Remote"}
        \/ t \in {"Controller", "VoiceAgent", "Tui"} /\ a = Publish("Controller", "SensorData")
        \/ t \in {"Landmark", "VoiceAgent", "Tui"} /\ a[2] = t
    BY <1>1, Kinds, Whose DEF Ops, Answer, InnerStores, Commands
  <1>. QED  BY <1>2, <1>3, <1>4, <1>5, <1>6, <1>7

-----------------------------------------------------------------------------
(* The subscriptions of the remote connection.                             *)

\* unsubscribe() of the last of three subscribers.
LEMMA RemoveLast2 ==
  ASSUME NEW a, NEW b, NEW c, a # c, b # c
  PROVE  RemoveFirst(<<a, b, c>>, c) = <<a, b>>
  <1>. DEFINE s == <<a, b, c>>
  <1>1. {i \in 1 .. Len(s) : s[i] = c} = {3}
    OBVIOUS
  <1>2. Min({3}) = 3
    BY DEF Min
  <1>3. SelectInSeq(s, LAMBDA v : v = c) = 3
    BY <1>1, <1>2 DEF SelectInSeq
  <1>4. \E i \in 1 .. Len(s) : s[i] = c
    OBVIOUS
  <1>5. RemoveFirst(s, c) = SubSeq(s, 1, 2) \o SubSeq(s, 4, 3)
    <2>1. RemoveFirst(s, c) = RemoveAt(s, 3)
      BY <1>3, <1>4 DEF RemoveFirst
    <2>2. Len(s) = 3 /\ 3 - 1 = 2 /\ 3 + 1 = 4
      OBVIOUS
    <2>. QED  BY <2>1, <2>2 DEF RemoveAt
  <1>6. SubSeq(s, 1, 2) = <<a, b>>
    <2>. DEFINE S == {a, b, c}
    <2>1. s \in Seq(S) /\ <<a, b>> \in Seq(S)
      OBVIOUS
    <2>2. SubSeq(s, 1, 2) \in Seq(S) /\ Len(SubSeq(s, 1, 2)) = 2
          /\ SubSeq(s, 1, 2)[1] = a /\ SubSeq(s, 1, 2)[2] = b
      BY <2>1
    <2>. HIDE DEF S, s
    <2>3. \A i \in 1 .. 2 : SubSeq(s, 1, 2)[i] = <<a, b>>[i]
      BY <2>2
    <2>. QED  BY <2>1, <2>2, <2>3, SameSequence
  <1>7. SubSeq(s, 4, 3) = <<>>
    OBVIOUS
  <1>8. <<a, b>> \o <<>> = <<a, b>>
    BY ConcatEmpty
  <1>. HIDE DEF s
  <1>9. RemoveFirst(s, c) = <<a, b>>
    BY <1>5, <1>6, <1>7, <1>8, Zenon
  <1>. QED  BY <1>9 DEF s

\* unsubscribe() of the last of four subscribers.
LEMMA RemoveLast3 ==
  ASSUME NEW a, NEW b, NEW c, NEW d, a # d, b # d, c # d
  PROVE  RemoveFirst(<<a, b, c, d>>, d) = <<a, b, c>>
  <1>. DEFINE s == <<a, b, c, d>>
  <1>1. {i \in 1 .. Len(s) : s[i] = d} = {4}
    OBVIOUS
  <1>2. Min({4}) = 4
    BY DEF Min
  <1>3. SelectInSeq(s, LAMBDA v : v = d) = 4
    BY <1>1, <1>2 DEF SelectInSeq
  <1>4. \E i \in 1 .. Len(s) : s[i] = d
    OBVIOUS
  <1>5. RemoveFirst(s, d) = SubSeq(s, 1, 3) \o SubSeq(s, 5, 4)
    <2>1. RemoveFirst(s, d) = RemoveAt(s, 4)
      BY <1>3, <1>4 DEF RemoveFirst
    <2>2. Len(s) = 4 /\ 4 - 1 = 3 /\ 4 + 1 = 5
      OBVIOUS
    <2>. QED  BY <2>1, <2>2 DEF RemoveAt
  <1>6. SubSeq(s, 1, 3) = <<a, b, c>>
    <2>. DEFINE S == {a, b, c, d}
    <2>1. s \in Seq(S) /\ <<a, b, c>> \in Seq(S)
      OBVIOUS
    <2>2. SubSeq(s, 1, 3) \in Seq(S) /\ Len(SubSeq(s, 1, 3)) = 3 /\ SubSeq(s, 1, 3)[1] = a
          /\ SubSeq(s, 1, 3)[2] = b /\ SubSeq(s, 1, 3)[3] = c
      BY <2>1
    <2>. HIDE DEF S, s
    <2>3. \A i \in 1 .. 3 : SubSeq(s, 1, 3)[i] = <<a, b, c>>[i]
      BY <2>2
    <2>. QED  BY <2>1, <2>2, <2>3, SameSequence
  <1>7. SubSeq(s, 5, 4) = <<>>
    OBVIOUS
  <1>8. <<a, b, c>> \o <<>> = <<a, b, c>>
    BY ConcatEmpty
  <1>. HIDE DEF s
  <1>9. RemoveFirst(s, d) = <<a, b, c>>
    BY <1>5, <1>6, <1>7, <1>8, Zenon
  <1>. QED  BY <1>9 DEF s

\* The remote connection is added at the end, and taken from there.
LEMMA RemoteComesAndGoes ==
  /\ Subscribed(<<"Landmark", "Tui">>, "Remote") = <<"Landmark", "Tui", "Remote">>
  /\ Subscribed(<<"Landmark", "Tui", "Remote">>, "Remote") = <<"Landmark", "Tui", "Remote">>
  /\ RemoveFirst(<<"Landmark", "Tui">>, "Remote") = <<"Landmark", "Tui">>
  /\ RemoveFirst(<<"Landmark", "Tui", "Remote">>, "Remote") = <<"Landmark", "Tui">>
  /\ Subscribed(<<"Landmark", "VoiceAgent", "Tui">>, "Remote")
        = <<"Landmark", "VoiceAgent", "Tui", "Remote">>
  /\ Subscribed(<<"Landmark", "VoiceAgent", "Tui", "Remote">>, "Remote")
        = <<"Landmark", "VoiceAgent", "Tui", "Remote">>
  /\ RemoveFirst(<<"Landmark", "VoiceAgent", "Tui">>, "Remote")
        = <<"Landmark", "VoiceAgent", "Tui">>
  /\ RemoveFirst(<<"Landmark", "VoiceAgent", "Tui", "Remote">>, "Remote")
        = <<"Landmark", "VoiceAgent", "Tui">>
  <1>1. /\ ~Contains(<<"Landmark", "Tui">>, "Remote")
        /\ Contains(<<"Landmark", "Tui", "Remote">>, "Remote")
        /\ ~Contains(<<"Landmark", "VoiceAgent", "Tui">>, "Remote")
        /\ Contains(<<"Landmark", "VoiceAgent", "Tui", "Remote">>, "Remote")
    BY DEF Contains
  <1>2. /\ Append(<<"Landmark", "Tui">>, "Remote") = <<"Landmark", "Tui", "Remote">>
        /\ Append(<<"Landmark", "VoiceAgent", "Tui">>, "Remote")
              = <<"Landmark", "VoiceAgent", "Tui", "Remote">>
    BY Append2, Append3, Zenon
  <1>3. /\ RemoveFirst(<<"Landmark", "Tui">>, "Remote") = <<"Landmark", "Tui">>
        /\ RemoveFirst(<<"Landmark", "VoiceAgent", "Tui">>, "Remote")
              = <<"Landmark", "VoiceAgent", "Tui">>
    BY <1>1, Zenon DEF RemoveFirst, Contains
  <1>4. /\ RemoveFirst(<<"Landmark", "Tui", "Remote">>, "Remote") = <<"Landmark", "Tui">>
        /\ RemoveFirst(<<"Landmark", "VoiceAgent", "Tui", "Remote">>, "Remote")
              = <<"Landmark", "VoiceAgent", "Tui">>
    BY RemoveLast2, RemoveLast3
  <1>5. /\ Subscribed(<<"Landmark", "Tui">>, "Remote") = <<"Landmark", "Tui", "Remote">>
        /\ Subscribed(<<"Landmark", "VoiceAgent", "Tui">>, "Remote")
              = <<"Landmark", "VoiceAgent", "Tui", "Remote">>
    BY <1>1, <1>2, Zenon DEF Subscribed
  <1>6. /\ Subscribed(<<"Landmark", "Tui", "Remote">>, "Remote") = <<"Landmark", "Tui", "Remote">>
        /\ Subscribed(<<"Landmark", "VoiceAgent", "Tui", "Remote">>, "Remote")
              = <<"Landmark", "VoiceAgent", "Tui", "Remote">>
    BY <1>1, Zenon DEF Subscribed
  <1>. QED  BY <1>3, <1>4, <1>5, <1>6

\* Connections and disconnections keep the lists of subscribers.
LEMMA SubscriptionStep ==
  ASSUME NestingInv, SubscribersInv, NEW t \in Services, ChangeSubscription(t)
  PROVE  SubscribersInv'
  <1>1. First(t) \in Ops(t) /\ First(t)[1] \in {"subscribe", "unsubscribe"} /\ Of(t) = First(t)[2]
    BY NextOperation DEF ChangeSubscription
  <1>2. t = "Remote"
    BY <1>1, Kinds DEF Ops, Answer, InnerStores, Commands
  <1>3. Of(t) \in {"Perception", "Controller"}
    BY <1>1, Kinds, Whose DEF Ops, Answer, InnerStores, Commands
  <1>4. /\ DOMAIN subscribers' = DOMAIN subscribers
        /\ \A s \in Services \ {Of(t)} : subscribers'[s] = subscribers[s]
        /\ \/ subscribers'[Of(t)] = Subscribed(subscribers[Of(t)], "Remote")
           \/ subscribers'[Of(t)] = RemoveFirst(subscribers[Of(t)], "Remote")
    BY <1>2, <1>3 DEF ChangeSubscription, SubscribersInv
  <1>5. CASE Of(t) = "Perception"
    <2>1. \/ subscribers'["Perception"] = <<"Landmark", "Tui">>
          \/ subscribers'["Perception"] = <<"Landmark", "Tui", "Remote">>
      BY <1>4, <1>5, RemoteComesAndGoes, Zenon DEF SubscribersInv
    <2>. QED  BY <1>4, <1>5, <2>1 DEF SubscribersInv
  <1>6. CASE Of(t) = "Controller"
    <2>1. \/ subscribers'["Controller"] = <<"Landmark", "VoiceAgent", "Tui">>
          \/ subscribers'["Controller"] = <<"Landmark", "VoiceAgent", "Tui", "Remote">>
      BY <1>4, <1>6, RemoteComesAndGoes, Zenon DEF SubscribersInv
    <2>. QED  BY <1>4, <1>6, <2>1 DEF SubscribersInv
  <1>. QED  BY <1>3, <1>5, <1>6

-----------------------------------------------------------------------------
(* The steps of a thread.                                                  *)

\* Whose operations they are.
LEMMA OnlyBy ==
  ASSUME NEW t \in Services, NEW op \in Ops(t)
  PROVE  /\ op[1] = "push" => t # "Expression"
         /\ op[1] \in {"wait", "asleep", "serve", "pop"} => t = "Expression"
         /\ op[1] \in {"start", "stop", "join"} => t \in {"Expression", "Remote", "Tui"}
         /\ op[1] = "mode" => t = "Remote"
         /\ op[1] = "answer" => t \in {"VoiceAgent", "Tui"}
  BY Kinds, SMTT(30) DEF Ops, Answer, InnerStores, Commands

\* A publication and the release behind it.
LEMMA TwoReplace ==
  ASSUME NEW t, NEW a \in Ops(t), NEW b \in Ops(t), Rank(a) = 3, Rank(b) = 4
  PROVE  Replaces(t, 8, <<a, b>>) /\ ToSet(<<a, b>>) = {a, b}
  BY DEF Replaces, Nested, MayPrecede, ToSet

\* The answer to a request for sensor values, published with _dataMutex held.
LEMMA AnswerReplaced ==
  ASSUME NestingInv, NEW t \in Services, At(t, "answer"),
         NEW sending, sending = Publish("Controller", "SensorData"),
         NEW unlock, unlock = Release("Controller", "_dataMutex")
  PROVE  /\ Of(t) = "Controller"
         /\ Replaced(After(t, <<sending, unlock>>), t, <<sending, unlock>>)
         /\ ToSet(<<sending, unlock>>) = {sending, unlock}
  <1>1. work[t] # <<>> /\ First(t) \in Ops(t) /\ First(t)[1] = "answer" /\ Of(t) = First(t)[2]
    BY NextOperation
  <1>2. t \in {"VoiceAgent", "Tui"}
    BY <1>1, OnlyBy
  <1>3. First(t) = TryAnswer
    BY <1>1, Kinds DEF Ops, Answer, InnerStores, Commands
  <1>4. Rank(work[t][1]) = 8 /\ Of(t) = "Controller"
    BY <1>1, <1>3, Ranks, Whose DEF First
  <1>5. sending \in Ops(t) /\ unlock \in Ops(t)
    BY <1>2 DEF Ops, Answer
  <1>6. Rank(sending) = 3 /\ Rank(unlock) = 4
    BY Ranks
  <1>7. Replaces(t, 8, <<sending, unlock>>) /\ ToSet(<<sending, unlock>>) = {sending, unlock}
    BY <1>5, <1>6, TwoReplace
  <1>8. Replaced(After(t, <<sending, unlock>>), t, <<sending, unlock>>)
    BY <1>1, <1>4, <1>7, AfterReplaced
  <1>. QED  BY <1>4, <1>7, <1>8

\* The wait of ExpressionService, and a gesture.
LEMMA SleepReplaced ==
  ASSUME NestingInv, NEW t \in Services, At(t, "wait")
  PROVE  Replaced(After(t, <<Asleep>>), t, <<Asleep>>)
  <1>1. work[t] # <<>> /\ First(t) \in Ops(t) /\ First(t)[1] = "wait"
    BY NextOperation
  <1>2. t = "Expression"
    BY <1>1, OnlyBy
  <1>3. First(t) = Wait
    <2>1. First(t) \in Ops("Expression")
      BY <1>1, <1>2
    <2>. QED  BY <1>1, <2>1, Kinds DEF Ops
  <1>4. Rank(work[t][1]) = 11 /\ Rank(Asleep) = 11 /\ Asleep \in Ops(t)
    BY <1>2, <1>3, Ranks DEF First, Ops
  <1>5. Replaces(t, 11, <<Asleep>>)
    BY <1>4 DEF Replaces, Nested
  <1>. QED  BY <1>1, <1>4, <1>5, AfterReplaced

\* A gesture: stop perception, move, start perception, and pop.
LEMMA GestureReplaced ==
  ASSUME NestingInv, NEW t \in Services, At(t, "serve")
  PROVE  LET ops == Gesture \o <<Pop, Serve>>
         IN  /\ t = "Expression"
             /\ Replaced(After(t, ops), t, ops)
             /\ ToSet(ops) = {Publish("Expression", "StopPerceptionRequest"),
                              Publish("Expression", "ControlData"),
                              Publish("Expression", "StartPerceptionRequest"), Pop, Serve}
  <1>. DEFINE a == Publish("Expression", "StopPerceptionRequest")
              b == Publish("Expression", "ControlData")
              c == Publish("Expression", "StartPerceptionRequest")
              ops == <<a, b, c, Pop, Serve>>
  <1>1. work[t] # <<>> /\ First(t) \in Ops(t) /\ First(t)[1] = "serve"
    BY NextOperation
  <1>2. t = "Expression"
    BY <1>1, OnlyBy
  <1>3. First(t) = Serve
    BY <1>1, Kinds DEF Ops, Answer, InnerStores, Commands
  <1>4. /\ Rank(work[t][1]) = 13
        /\ Rank(a) = 11 /\ Rank(b) = 11 /\ Rank(c) = 11 /\ Rank(Pop) = 12 /\ Rank(Serve) = 13
    BY <1>3, Ranks DEF First
  <1>5. a \in Ops(t) /\ b \in Ops(t) /\ c \in Ops(t) /\ Pop \in Ops(t) /\ Serve \in Ops(t)
    BY <1>2 DEF Ops
  <1>6. Gesture \o <<Pop, Serve>> = ops
    <2>1. Gesture = <<a, b, c>>
      BY DEF Gesture
    <2>. HIDE DEF a, b, c
    <2>. QED  BY <2>1, Concat32, Zenon
  <1>. HIDE DEF a, b, c
  <1>7. Replaces(t, 13, ops) /\ ToSet(ops) = {a, b, c, Pop, Serve}
    BY <1>4, <1>5 DEF Replaces, Nested, MayPrecede, ToSet
  <1>. HIDE DEF ops
  <1>8. Replaced(After(t, ops), t, ops)
    BY <1>1, <1>4, <1>7, AfterReplaced
  <1>9. /\ Replaced(After(t, Gesture \o <<Pop, Serve>>), t, Gesture \o <<Pop, Serve>>)
        /\ ToSet(Gesture \o <<Pop, Serve>>) = {a, b, c, Pop, Serve}
    BY <1>6, <1>7, <1>8
  <1>. QED  BY <1>2, <1>9 DEF a, b, c

\* The join that stop() comes to.
LEMMA JoinReplaced ==
  ASSUME NestingInv, NEW t \in Services, At(t, "stop")
  PROVE  /\ First(t) = StopOf(Of(t))
         /\ \/ t = "Expression" /\ Of(t) \in {"Perception", "Landmark"}
            \/ t = "Remote" /\ Of(t) \in {"Expression", "Landmark"}
            \/ t = "Tui" /\ Of(t) \in Startable
         /\ Replaced(After(t, <<JoinOf(Of(t))>>), t, <<JoinOf(Of(t))>>)
         /\ ToSet(<<JoinOf(Of(t))>>) = {JoinOf(Of(t))}
  <1>1. /\ work[t] # <<>> /\ First(t) \in Ops(t) /\ First(t)[1] = "stop" /\ Of(t) = First(t)[2]
    BY NextOperation
  <1>3. /\ First(t) = StopOf(Of(t))
        /\ \/ t = "Expression" /\ Of(t) \in {"Perception", "Landmark"}
           \/ t = "Remote" /\ Of(t) \in {"Expression", "Landmark"}
           \/ t = "Tui" /\ Of(t) \in Startable
    BY <1>1, Kinds, Whose DEF Ops, Answer, InnerStores, Commands, Startable
  <1>4. JoinOf(Of(t)) \in Ops(t)
    BY <1>3 DEF Ops, Commands, Startable
  <1>5. Rank(JoinOf(Of(t))) = 0 /\ Rank(work[t][1]) \in Nat
    BY <1>1, <1>3, Ranks, OpsRanked DEF First, Startable
  <1>. DEFINE j == JoinOf(Of(t))
  <1>. HIDE DEF j
  <1>6. Replaces(t, Rank(work[t][1]), <<j>>) /\ ToSet(<<j>>) = {j}
    BY <1>4, <1>5 DEF Replaces, Nested, ToSet, j
  <1>. QED  BY <1>1, <1>3, <1>6, AfterReplaced DEF j

-----------------------------------------------------------------------------
(* The nesting and the subscriptions are invariant.                        *)

\* The work after each action.
LEMMA WorkAfterStep ==
  ASSUME NestingInv, SubscribersInv, NEW t \in Services
  PROVE  /\ BeginRound(t) => \E round \in Rounds(t) : Replaced(work', t, round)
         /\ LockPublisher(t) => Replaced(work', t, Publication(Of(t), Argument(t)))
         /\ StoreData(t) \/ PopResponse(t) \/ SwitchMode(t) \/ StartService(t) \/ JoinService(t)
            \/ ChangeSubscription(t) \/ WakeSpuriously(t) \/ PushResponse(t)
              => Replaced(work', t, <<>>)
         /\ TryLockData(t) => \/ Replaced(work', t, <<>>)
                              \/ Replaced(work', t, <<Publish("Controller", "SensorData"),
                                                      Release("Controller", "_dataMutex")>>)
         /\ WaitForResponse(t) => Replaced(work', t, <<Asleep>>)
         /\ ServeQueue(t) => Replaced(work', t, IF gestures = 0 THEN <<>> ELSE Gesture \o <<Pop, Serve>>)
         /\ StopService(t) => Replaced(work', t, IF running[Of(t)] THEN <<JoinOf(Of(t))>> ELSE <<>>)
  <1>1. ASSUME BeginRound(t) PROVE \E round \in Rounds(t) : Replaced(work', t, round)
    <2>1. PICK round \in Rounds(t) : work[t] = <<>> /\ work' = [work EXCEPT ![t] = round]
      BY <1>1 DEF BeginRound
    <2>2. Replaced([work EXCEPT ![t] = round], t, round)
      BY <2>1, RoundReplaced
    <2>. QED  BY <2>1, <2>2
  <1>2. ASSUME LockPublisher(t) PROVE Replaced(work', t, Publication(Of(t), Argument(t)))
    <2>1. At(t, "publish") /\ work' = After(t, Publication(Of(t), Argument(t)))
      BY <1>2 DEF LockPublisher, Publication
    <2>. QED  BY <2>1, PublicationReplaced
  <1>3. ASSUME StoreData(t) \/ PopResponse(t) \/ SwitchMode(t) \/ StartService(t) \/ JoinService(t)
               \/ ChangeSubscription(t) \/ WakeSpuriously(t)
        PROVE  Replaced(work', t, <<>>)
    <2>1. work[t] # <<>> /\ work' = After(t, <<>>)
      BY <1>3 DEF StoreData, PopResponse, SwitchMode, StartService, JoinService,
                  ChangeSubscription, WakeSpuriously, At, Done
    <2>. QED  BY <2>1, DoneReplaced
  <1>4. ASSUME PushResponse(t) PROVE Replaced(work', t, <<>>)
    <2>1. At(t, "push") /\ work[t] # <<>> /\ work' = Notified(After(t, <<>>))
      BY <1>4 DEF PushResponse, At
    <2>4. First(t) \in Ops(t) /\ First(t)[1] = "push"
      BY <2>1, NextOperation
    <2>2. t # "Expression"
      BY <2>4, OnlyBy
    <2>3. Replaced(After(t, <<>>), t, <<>>)
      BY <2>1, DoneReplaced
    <2>. QED  BY <2>1, <2>2, <2>3, NotifiedReplaced
  <1>5. ASSUME TryLockData(t)
        PROVE  \/ Replaced(work', t, <<>>)
               \/ Replaced(work', t, <<Publish("Controller", "SensorData"),
                                       Release("Controller", "_dataMutex")>>)
    <2>1. At(t, "answer") /\ work[t] # <<>>
      BY <1>5 DEF TryLockData, At
    <2>2. /\ Of(t) = "Controller"
          /\ Replaced(After(t, <<Publish("Controller", "SensorData"),
                                 Release("Controller", "_dataMutex")>>), t,
                      <<Publish("Controller", "SensorData"), Release("Controller", "_dataMutex")>>)
      BY <2>1, AnswerReplaced
    <2>3. Replaced(After(t, <<>>), t, <<>>)
      BY <2>1, DoneReplaced
    <2>4. \/ work' = After(t, <<>>)
          \/ work' = After(t, <<Publish(Of(t), "SensorData"), Release(Of(t), "_dataMutex")>>)
      BY <1>5, Zenon DEF TryLockData
    <2>5. CASE work' = After(t, <<>>)
      BY <2>3, <2>5
    <2>6. CASE work' = After(t, <<Publish(Of(t), "SensorData"), Release(Of(t), "_dataMutex")>>)
      <3>1. work' = After(t, <<Publish("Controller", "SensorData"),
                               Release("Controller", "_dataMutex")>>)
        BY <2>2, <2>6, Zenon
      <3>. QED  BY <3>1, <2>2, Zenon
    <2>. QED  BY <2>4, <2>5, <2>6
  <1>6. ASSUME WaitForResponse(t) PROVE Replaced(work', t, <<Asleep>>)
    <2>1. At(t, "wait") /\ work' = After(t, <<Asleep>>)
      BY <1>6 DEF WaitForResponse
    <2>. QED  BY <2>1, SleepReplaced
  <1>7. ASSUME ServeQueue(t)
        PROVE  Replaced(work', t, IF gestures = 0 THEN <<>> ELSE Gesture \o <<Pop, Serve>>)
    <2>1. /\ At(t, "serve") /\ work[t] # <<>>
          /\ work' = After(t, IF gestures = 0 THEN <<>> ELSE Gesture \o <<Pop, Serve>>)
      BY <1>7, Zenon DEF ServeQueue, At
    <2>2. Replaced(After(t, <<>>), t, <<>>)
      BY <2>1, DoneReplaced
    <2>3. Replaced(After(t, Gesture \o <<Pop, Serve>>), t, Gesture \o <<Pop, Serve>>)
      BY <2>1, GestureReplaced
    <2>4. CASE gestures = 0
      BY <2>1, <2>2, <2>4, Zenon
    <2>5. CASE gestures # 0
      BY <2>1, <2>3, <2>5, Zenon
    <2>. QED  BY <2>4, <2>5, Zenon
  <1>8. ASSUME StopService(t)
        PROVE  Replaced(work', t, IF running[Of(t)] THEN <<JoinOf(Of(t))>> ELSE <<>>)
    <2>1. At(t, "stop") /\ work[t] # <<>>
      BY <1>8 DEF StopService, At
    <2>2. Replaced(After(t, <<>>), t, <<>>)
      BY <2>1, DoneReplaced
    <2>3. /\ Replaced(After(t, <<JoinOf(Of(t))>>), t, <<JoinOf(Of(t))>>)
          /\ Of(t) = "Expression" => t # "Expression"
      BY <2>1, JoinReplaced
    <2>4. CASE ~running[Of(t)]
      <3>1. work' = After(t, <<>>)
        BY <1>8, <2>4, Zenon DEF StopService
      <3>. QED  BY <3>1, <2>2, <2>4, Zenon
    <2>5. CASE running[Of(t)] /\ Of(t) = "Expression"
      <3>1. work' = Notified(After(t, <<JoinOf(Of(t))>>))
        BY <1>8, <2>5 DEF StopService
      <3>2. Replaced(work', t, <<JoinOf(Of(t))>>)
        BY <2>3, <2>5, <3>1, NotifiedReplaced
      <3>. QED  BY <3>2, <2>5, Zenon
    <2>6. CASE running[Of(t)] /\ Of(t) # "Expression"
      <3>1. work' = After(t, <<JoinOf(Of(t))>>)
        BY <1>8, <2>6 DEF StopService
      <3>. QED  BY <3>1, <2>3, <2>6, Zenon
    <2>. QED  BY <2>4, <2>5, <2>6, Zenon
  <1>. QED  BY <1>1, <1>2, <1>3, <1>4, <1>5, <1>6, <1>7, <1>8, Zenon

\* The work is nested in every state: what a thread has still to do begins with
\* what it does in the innermost call and ends with what it does when it holds
\* nothing.
LEMMA NestingStep ==
  NestingInv /\ SubscribersInv /\ [Next]_vars => NestingInv' /\ SubscribersInv'
  <1>. SUFFICES ASSUME NestingInv, SubscribersInv, [Next]_vars
                PROVE  NestingInv' /\ SubscribersInv'
    OBVIOUS
  <1>1. ASSUME NEW t, NEW ops, Replaced(work', t, ops) PROVE NestingInv'
    BY <1>1 DEF Replaced, NestingInv
  <1>2. ASSUME subscribers' = subscribers PROVE SubscribersInv'
    BY <1>2 DEF SubscribersInv
  <1>3. CASE UNCHANGED vars
    <2>1. work' = work /\ subscribers' = subscribers
      BY <1>3 DEF vars
    <2>. QED  BY <2>1, <1>2 DEF NestingInv
  <1>4. ASSUME NEW t \in Services, Step(t) \/ WakeSpuriously(t)
        PROVE  NestingInv' /\ SubscribersInv'
    <2>1. CASE EndThread(t)
      <3>1. work' = work /\ subscribers' = subscribers
        BY <2>1 DEF EndThread, data
      <3>. QED  BY <3>1, <1>2 DEF NestingInv
    <2>2. CASE ChangeSubscription(t)
      BY <2>2, <1>1, WorkAfterStep, SubscriptionStep
    <2>3. CASE \/ BeginRound(t) \/ LockPublisher(t) \/ StoreData(t) \/ TryLockData(t)
               \/ PushResponse(t) \/ WaitForResponse(t) \/ ServeQueue(t) \/ PopResponse(t)
               \/ SwitchMode(t) \/ StartService(t) \/ StopService(t) \/ JoinService(t)
               \/ WakeSpuriously(t)
      <3>1. subscribers' = subscribers
        BY <2>3 DEF BeginRound, LockPublisher, StoreData, TryLockData, PushResponse,
              WaitForResponse, ServeQueue, PopResponse, SwitchMode, StartService, StopService,
              JoinService, WakeSpuriously, data
      <3>2. \E ops : Replaced(work', t, ops)
        BY <2>3, WorkAfterStep, Zenon
      <3>. QED  BY <3>1, <3>2, <1>1, <1>2
    <2>. QED  BY <1>4, <2>1, <2>2, <2>3 DEF Step, Perform
  <1>. QED  BY <1>3, <1>4 DEF Next

\* No thread has work, and the lists of subscribers are those of main().
LEMMA NestingInit == Init => NestingInv /\ SubscribersInv
  <1>. SUFFICES ASSUME Init PROVE NestingInv /\ SubscribersInv
    OBVIOUS
  <1>1. NestingInv
    BY DEF Init, NestingInv, NestedWork, Nested
  <1>2. SubscribersInv
    BY DEF Init, SubscribersInv, SubscribersAtStart
  <1>. QED  BY <1>1, <1>2

-----------------------------------------------------------------------------
(* The terminal starts and stops services with no mutex held.              *)

Commanding == {"start", "stop", "join"}

\* A command is all that the terminal has to do.
CommandsInv ==
    \A a, b \in Todo("Tui") : a[1] \in Commanding => b[1] \in Commanding

\* A step of the terminal goes on with a command, or with something else.
LEMMA CommandsContinued ==
  ASSUME NestingInv, CommandsInv, NEW ops, Replaced(work', "Tui", ops), work["Tui"] # <<>>,
         \A op \in ToSet(ops) : op[1] \in Commanding <=> First("Tui")[1] \in Commanding
  PROVE  CommandsInv'
  <1>1. Todo("Tui")' \subseteq ToSet(ops) \cup Rest(work["Tui"])
    BY DEF Replaced, Todo
  <1>2. Nested("Tui", work["Tui"])
    BY DEF NestingInv, NestedWork
  <1>3. ToSet(work["Tui"]) = {First("Tui")} \cup Rest(work["Tui"])
    BY <1>2, HeadAndRest DEF First
  <1>4. Todo("Tui") = {First("Tui")} \cup Rest(work["Tui"])
    BY <1>3 DEF Todo
  <1>. QED  BY <1>1, <1>4 DEF CommandsInv

\* What other threads do leaves the terminal with what it had to do.
LEMMA CommandsKept ==
  ASSUME NestingInv, CommandsInv, NEW t \in Services, t # "Tui",
         NEW ops, Replaced(work', t, ops)
  PROVE  CommandsInv'
  <1>1. Todo("Tui")' \subseteq Ops("Tui")
    BY DEF Replaced, NestedWork, Nested, Todo, ToSet
  <1>2. \A op \in Ops("Tui") : op[1] # "asleep"
    BY OnlyBy
  <1>3. \A op \in Todo("Tui")' : op \in Todo("Tui")
    BY <1>1, <1>2 DEF Replaced, Todo
  <1>. QED  BY <1>3 DEF CommandsInv

\* A publication of the terminal brings no command.
LEMMA TuiPublishes ==
  ASSUME SubscribersInv, NEW a \in Ops("Tui"), a[1] = "publish"
  PROVE  \A op \in ToSet(Publication(a[2], a[3])) : op[1] \notin Commanding
  <1>1. CASE a = Publish("Controller", "SensorData")
    <2>1. ToSet(Publication(a[2], a[3])) \subseteq InnerStores \cup {Release("Controller", "_mutex")}
      BY <1>1, ControllerPublishes
    <2>. QED  BY <2>1, Kinds DEF InnerStores, Commanding
  <1>2. CASE a[2] = "Tui"
    <2>1. ToSet(Publication(a[2], a[3])) \subseteq
             {Push(1), TryAnswer, Store("Controller"), Release("Tui", "_mutex")}
      BY <1>2, OthersPublish
    <2>. QED  BY <2>1, Kinds DEF Commanding
  <1>. QED  BY <1>1, <1>2, Kinds, Whose DEF Ops, Answer, InnerStores, Commands

\* CommandsInv is invariant.
LEMMA CommandsStep ==
  NestingInv /\ SubscribersInv /\ CommandsInv /\ [Next]_vars => CommandsInv'
  <1>. SUFFICES ASSUME NestingInv, SubscribersInv, CommandsInv, [Next]_vars PROVE CommandsInv'
    OBVIOUS
  <1>1. ASSUME work' = work PROVE CommandsInv'
    BY <1>1 DEF CommandsInv, Todo
  <1>2. CASE UNCHANGED vars
    BY <1>1, <1>2 DEF vars
  <1>3. ASSUME NEW t \in Services, Step(t) \/ WakeSpuriously(t), t # "Tui"
        PROVE  CommandsInv'
    <2>1. CASE EndThread(t)
      BY <1>1, <2>1 DEF EndThread
    <2>2. CASE ~EndThread(t)
      <3>1. \E ops : Replaced(work', t, ops)
        BY <1>3, <2>2, WorkAfterStep, Zenon DEF Step, Perform
      <3>. QED  BY <1>3, <3>1, CommandsKept
    <2>. QED  BY <2>1, <2>2
  <1>4. ASSUME Step("Tui") \/ WakeSpuriously("Tui") PROVE CommandsInv'
    <2>0. ToSet(<<>>) = {} /\ \A k : At("Tui", k) => /\ work["Tui"] # <<>> /\ First("Tui")[1] = k
                                                   /\ First("Tui") \in Ops("Tui")
      BY NextOperation, Replaces0
    <2>1. CASE EndThread("Tui")
      BY <1>1, <2>1 DEF EndThread
    <2>2. CASE BeginRound("Tui")
      <3>1. PICK round \in Rounds("Tui") : work["Tui"] = <<>> /\ Replaced(work', "Tui", round)
        BY <2>2, WorkAfterStep DEF BeginRound
      <3>2. PICK op \in TuiOps : round = <<op>>
        BY <3>1, TuiRound DEF Rounds
      <3>3. Todo("Tui")' \subseteq {op}
        BY <3>1, <3>2 DEF Replaced, Todo, Rest, ToSet
      <3>. QED  BY <3>3 DEF CommandsInv
    <2>3. CASE LockPublisher("Tui")
      <3>1. At("Tui", "publish") /\ Replaced(work', "Tui", Publication(Of("Tui"), Argument("Tui")))
        BY <2>3, WorkAfterStep DEF LockPublisher
      <3>2. Of("Tui") = First("Tui")[2] /\ Argument("Tui") = First("Tui")[3]
        BY <3>1, NextOperation
      <3>3. \A op \in ToSet(Publication(Of("Tui"), Argument("Tui"))) : op[1] \notin Commanding
        BY <2>0, <3>1, <3>2, TuiPublishes
      <3>4. First("Tui")[1] \notin Commanding
        BY <2>0, <3>1 DEF Commanding
      <3>. QED  BY <2>0, <3>1, <3>3, <3>4, CommandsContinued
    <2>4. CASE TryLockData("Tui")
      <3>1. At("Tui", "answer")
        BY <2>4 DEF TryLockData
      <3>2. First("Tui")[1] \notin Commanding
        BY <2>0, <3>1 DEF Commanding
      <3>3. CASE Replaced(work', "Tui", <<>>)
        BY <2>0, <3>1, <3>3, CommandsContinued
      <3>4. CASE Replaced(work', "Tui", <<Publish("Controller", "SensorData"),
                                          Release("Controller", "_dataMutex")>>)
        <4>1. ToSet(<<Publish("Controller", "SensorData"), Release("Controller", "_dataMutex")>>)
                = {Publish("Controller", "SensorData"), Release("Controller", "_dataMutex")}
          BY <3>1, AnswerReplaced
        <4>2. /\ Publish("Controller", "SensorData")[1] \notin Commanding
              /\ Release("Controller", "_dataMutex")[1] \notin Commanding
          BY Kinds DEF Commanding
        <4>. DEFINE ops == <<Publish("Controller", "SensorData"),
                             Release("Controller", "_dataMutex")>>
        <4>3. Replaced(work', "Tui", ops) /\ \A op \in ToSet(ops) : op[1] \notin Commanding
          BY <3>4, <4>1, <4>2
        <4>. HIDE DEF ops
        <4>. QED  BY <2>0, <3>1, <3>2, <4>3, CommandsContinued
      <3>. QED  BY <2>4, <3>3, <3>4, WorkAfterStep
    <2>5. CASE StopService("Tui")
      <3>1. At("Tui", "stop") /\ First("Tui")[1] \in Commanding
        BY <2>0, <2>5 DEF StopService, Commanding
      <3>2. CASE running[Of("Tui")]
        <4>1. ToSet(<<JoinOf(Of("Tui"))>>) = {JoinOf(Of("Tui"))}
          BY <3>1, JoinReplaced
        <4>2. JoinOf(Of("Tui"))[1] \in Commanding
          BY DEF JoinOf, Commanding
        <4>3. Replaced(work', "Tui", <<JoinOf(Of("Tui"))>>)
          BY <2>5, <3>2, WorkAfterStep
        <4>. QED  BY <2>0, <3>1, <4>1, <4>2, <4>3, CommandsContinued
      <3>3. CASE ~running[Of("Tui")]
        <4>1. Replaced(work', "Tui", <<>>)
          BY <2>5, <3>3, WorkAfterStep
        <4>. QED  BY <2>0, <3>1, <4>1, CommandsContinued
      <3>. QED  BY <3>2, <3>3
    <2>6. CASE WaitForResponse("Tui") \/ ServeQueue("Tui")
      <3>1. At("Tui", "wait") \/ At("Tui", "serve")
        BY <2>6 DEF WaitForResponse, ServeQueue
      <3>. QED  BY <2>0, <3>1, OnlyBy
    <2>7. CASE \/ StoreData("Tui") \/ PushResponse("Tui") \/ PopResponse("Tui")
               \/ SwitchMode("Tui") \/ StartService("Tui") \/ JoinService("Tui")
               \/ ChangeSubscription("Tui") \/ WakeSpuriously("Tui")
      <3>1. Replaced(work', "Tui", <<>>)
        BY <2>7, WorkAfterStep, Zenon
      <3>2. work["Tui"] # <<>>
        BY <2>7 DEF StoreData, PushResponse, PopResponse, SwitchMode, StartService, JoinService,
              ChangeSubscription, WakeSpuriously, At
      <3>. QED  BY <2>0, <3>1, <3>2, CommandsContinued
    <2>. QED  BY <1>4, <2>1, <2>2, <2>3, <2>4, <2>5, <2>6, <2>7 DEF Step, Perform
  <1>. QED  BY <1>2, <1>3, <1>4 DEF Next

\* At the start the terminal has nothing to do.
LEMMA CommandsInit == Init => CommandsInv
  BY DEF Init, CommandsInv, Todo, ToSet

-----------------------------------------------------------------------------
(* No circular wait.                                                       *)

\* A thread waits only for threads whose next operation is of a lower level.
Level(op) ==
    CASE op[1] = "publish" /\ op[2] = "Controller" -> 2
      [] op[1] \in {"subscribe", "unsubscribe"} -> 2
      [] op[1] = "store" /\ op[2] = "Controller" -> 3
      [] op[1] = "join" /\ op[2] \notin {"Expression", "Remote"} -> 4
      [] op[1] = "join" /\ op[2] = "Expression" -> 5
      [] op[1] = "join" /\ op[2] = "Remote" -> 6
      [] OTHER -> 1

\* Which threads ever hold which mutex.
LEMMA Holders ==
  ASSUME NEW u \in Services, NEW r \in Ops(u), r[1] = "release"
  PROVE  \/ r = Release(u, "_mutex") /\ u # "Controller" /\ Rank(r) = 9
         \/ r = Release("Controller", "_mutex") /\ u \in {"Controller", "VoiceAgent", "Tui"}
            /\ Rank(r) = 2
         \/ r = Release("Controller", "_dataMutex") /\ u \in {"VoiceAgent", "Tui"} /\ Rank(r) = 4
  BY Kinds, Ranks DEF Ops, Answer, InnerStores, Commands

\* The levels of the operations by their depth, and by their thread.
LEMMA Levels ==
  ASSUME NEW u \in Services, NEW b \in Ops(u), b[1] # "release"
  PROVE  /\ Level(b) \in 1 .. 6
         /\ Rank(b) < 2 /\ u \in {"Controller", "VoiceAgent", "Tui"}
            /\ (u = "Tui" => b[1] \notin Commanding) => Level(b) = 1
         /\ Rank(b) < 4 /\ u \in {"Controller", "VoiceAgent", "Tui"}
            /\ (u = "Tui" => b[1] \notin Commanding) => Level(b) <= 2
         /\ u = "Controller" => Level(b) <= 2
         /\ u = "Remote" => Level(b) <= 5
         /\ u = "Perception" => Level(b) = 1
         /\ u = "Landmark" => Level(b) <= 3
         /\ u = "Expression" => Level(b) <= 4
  BY Kinds, Whose, Ranks DEF Ops, Answer, InnerStores, Commands, Level, Commanding

\* Who publishes to whom's subscribers, subscribes and pushes.
LEMMA Callers ==
  ASSUME NEW t \in Services, NEW a \in Ops(t)
  PROVE  /\ a[1] = "publish" /\ a[2] # "Controller" => t = a[2] /\ Rank(a) \in {10, 11}
         /\ a[1] \in {"subscribe", "unsubscribe"} => t = "Remote"
         /\ a[1] = "push" => a[2] = "Expression"
  BY Kinds, Whose, Ranks DEF Ops, Answer, InnerStores, Commands

\* The thread that holds a mutex has its release behind its next operation.
LEMMA HeldBelow ==
  ASSUME NestingInv, CommandsInv, NEW u \in Services, NEW mutex, NEW s, Holds(u, mutex, s)
  PROVE  /\ work[u] # <<>> /\ First(u) \in Ops(u) /\ First(u)[1] # "release"
         /\ u = "Tui" => First(u)[1] \notin Commanding
         /\ Release(s, mutex) \in Ops(u) /\ MayPrecede(First(u), Release(s, mutex))
  <1>1. Nested(u, work[u]) /\ (work[u] # <<>> => work[u][1][1] # "release")
    BY DEF NestingInv, NestedWork
  <1>2. Release(s, mutex) \in ToSet(work[u])
    BY DEF Holds, Contains, ToSet
  <1>3. work[u] # <<>>
    BY <1>2 DEF ToSet
  <1>4. /\ work[u][1] \in Ops(u) /\ ToSet(work[u]) = {work[u][1]} \cup Rest(work[u])
        /\ \A b \in Rest(work[u]) : b \in Ops(u) /\ MayPrecede(work[u][1], b)
    BY <1>1, <1>3, HeadAndRest
  <1>5. Release(s, mutex)[1] = "release"
    BY DEF Release
  <1>6. Release(s, mutex) \in Rest(work[u])
    BY <1>1, <1>2, <1>3, <1>4, <1>5
  <1>7. ASSUME u = "Tui", First(u)[1] \in Commanding PROVE FALSE
    <2>1. First(u) \in Todo("Tui") /\ Release(s, mutex) \in Todo("Tui")
      BY <1>2, <1>4, <1>7 DEF Todo, First
    <2>. QED  BY <1>5, <1>7, <2>1 DEF CommandsInv, Commanding
  <1>. QED  BY <1>1, <1>3, <1>4, <1>6, <1>7 DEF First

\* What a thread waits for is done by threads that are at a lower level.
LEMMA WaitsForLower ==
  ASSUME NestingInv, CommandsInv, NEW t \in Services, NEW u \in WaitsFor(t), work[u] # <<>>
  PROVE  /\ u \in Services /\ alive[t] /\ work[t] # <<>>
         /\ Level(First(u)) < Level(First(t))
         /\ Level(First(t)) \in 1 .. 6 /\ Level(First(u)) \in 1 .. 6
  <1>. DEFINE a == First(t)
              b == First(u)
              needs == Needs(a[1])
  <1>1. alive[t] /\ work[t] # <<>>
    BY DEF WaitsFor
  <1>2. /\ a \in Ops(t) /\ a[1] # "release" /\ Head(work[t]) = a /\ Of(t) = a[2]
    <2>1. Nested(t, work[t]) /\ work[t][1][1] # "release"
      BY <1>1 DEF NestingInv, NestedWork
    <2>2. work[t][1] = Head(work[t]) /\ work[t][1] \in Ops(t)
      BY <1>1, <2>1, HeadAndRest
    <2>. QED  BY <2>1, <2>2 DEF First, Of
  <1>3. \/ /\ a[1] \in {"publish", "subscribe", "unsubscribe"}
           /\ u \in Services /\ Holds(u, "_mutex", a[2])
        \/ a[1] \in {"store", "push"} /\ u \in Services /\ Holds(u, "_dataMutex", a[2])
        \/ a[1] = "join" /\ u = a[2]
    BY <1>1, <1>2 DEF WaitsFor, Needs
  <1>. HIDE DEF a, b, needs
  <1>4. Level(a) \in 1 .. 6
    BY <1>2, Levels DEF a
  <1>5. CASE a[1] = "join" /\ u = a[2]
    <2>1. \/ a = JoinOf("Perception") \/ a = JoinOf("Landmark")
          \/ a = JoinOf("Expression") \/ a = JoinOf("Controller") \/ a = JoinOf("Remote")
      BY <1>2, <1>5, Kinds DEF Ops, Answer, InnerStores, Commands
    <2>2. u \in {"Perception", "Landmark", "Expression", "Controller", "Remote"}
      BY <1>5, <2>1, Whose
    <2>3. Level(a) = IF u = "Expression" THEN 5 ELSE IF u = "Remote" THEN 6 ELSE 4
      BY <1>5, <2>2 DEF Level
    <2>4. b \in Ops(u) /\ b[1] # "release"
      <3>1. Nested(u, work[u]) /\ work[u][1][1] # "release"
        BY <2>2 DEF NestingInv, NestedWork
      <3>. QED  BY <3>1, HeadAndRest DEF b, First
    <2>5. Level(b) \in 1 .. 6 /\ Level(b) < Level(a)
      BY <2>2, <2>3, <2>4, Levels
    <2>. QED  BY <1>1, <1>4, <2>2, <2>5 DEF a, b
  <1>6. CASE /\ a[1] \in {"publish", "subscribe", "unsubscribe"}
             /\ u \in Services /\ Holds(u, "_mutex", a[2])
    <2>. DEFINE r == Release(a[2], "_mutex")
    <2>1. /\ b \in Ops(u) /\ b[1] # "release" /\ r \in Ops(u) /\ MayPrecede(b, r)
          /\ u = "Tui" => b[1] \notin Commanding
      BY <1>6, HeldBelow DEF b
    <2>2. r[1] = "release" /\ r[2] = a[2] /\ r[3] = "_mutex"
      BY DEF Release
    <2>3. Rank(b) \in Nat /\ Level(b) \in 1 .. 6
      BY <1>6, <2>1, OpsRanked, Levels
    <2>. HIDE DEF r
    <2>4. \/ r = Release(u, "_mutex") /\ u # "Controller" /\ Rank(r) = 9
          \/ r = Release("Controller", "_mutex") /\ u \in {"Controller", "VoiceAgent", "Tui"}
             /\ Rank(r) = 2
          \/ r = Release("Controller", "_dataMutex") /\ u \in {"VoiceAgent", "Tui"} /\ Rank(r) = 4
      BY <1>6, <2>1, <2>2, Holders
    <2>5. r # Release("Controller", "_dataMutex")
      BY <2>2 DEF Release
    <2>6. CASE r = Release("Controller", "_mutex") /\ u \in {"Controller", "VoiceAgent", "Tui"}
               /\ Rank(r) = 2
      <3>1. Rank(b) < 2
        BY <2>1, <2>3, <2>6 DEF MayPrecede
      <3>2. Level(b) = 1
        BY <2>1, <2>6, <3>1, Levels
      <3>3. a[2] = "Controller"
        BY <2>2, <2>6, Whose
      <3>4. Level(a) = 2
        BY <1>6, <3>3 DEF Level
      <3>. QED  BY <1>1, <1>6, <3>2, <3>4 DEF a, b
    <2>7. CASE r = Release(u, "_mutex") /\ u # "Controller" /\ Rank(r) = 9
      <3>1. a[2] = u
        <4>1. Release(u, "_mutex")[2] = u
          BY DEF Release
        <4>. QED  BY <4>1, <2>2, <2>7
      <3>2. Rank(b) < 9
        BY <2>1, <2>3, <2>7 DEF MayPrecede
      <3>3. CASE a[1] = "publish"
        <4>1. t = u
          BY <1>2, <3>1, <3>3, <2>7, Callers
        <4>2. Rank(a) \in {10, 11}
          BY <1>2, <3>1, <3>3, <2>7, Callers
        <4>. QED  BY <3>2, <4>1, <4>2 DEF a, b
      <3>4. CASE a[1] \in {"subscribe", "unsubscribe"}
        <4>1. t = "Remote"
          BY <1>2, <3>4, Callers
        <4>2. u = "Perception"
          <5>1. a \in Ops("Remote")
            BY <1>2, <4>1
          <5>2. \/ a = Subscribe("Perception") \/ a = Subscribe("Controller")
                \/ a = Unsubscribe("Perception") \/ a = Unsubscribe("Controller")
            BY <3>4, <5>1, Kinds DEF Ops
          <5>. QED  BY <5>2, <2>7, <3>1, Whose
        <4>3. Level(b) = 1 /\ Level(a) = 2
          BY <1>6, <2>1, <3>4, <4>2, Levels DEF Level
        <4>. QED  BY <1>1, <1>6, <4>3 DEF a, b
      <3>. QED  BY <1>6, <3>3, <3>4
    <2>. QED  BY <2>4, <2>5, <2>6, <2>7
  <1>7. CASE a[1] \in {"store", "push"} /\ u \in Services /\ Holds(u, "_dataMutex", a[2])
    <2>. DEFINE r == Release(a[2], "_dataMutex")
    <2>1. /\ b \in Ops(u) /\ b[1] # "release" /\ r \in Ops(u) /\ MayPrecede(b, r)
          /\ u = "Tui" => b[1] \notin Commanding
      BY <1>7, HeldBelow DEF b
    <2>2. r[1] = "release" /\ r[2] = a[2] /\ r[3] = "_dataMutex"
      BY DEF Release
    <2>3. Rank(b) \in Nat /\ Level(b) \in 1 .. 6
      BY <1>7, <2>1, OpsRanked, Levels
    <2>. HIDE DEF r
    <2>4. Release(u, "_mutex")[3] # "_dataMutex" /\ Release("Controller", "_mutex")[3] # "_dataMutex"
      BY DEF Release
    <2>5. r = Release("Controller", "_dataMutex") /\ u \in {"VoiceAgent", "Tui"} /\ Rank(r) = 4
      BY <1>7, <2>1, <2>2, <2>4, Holders
    <2>6. a[2] = "Controller" /\ a[1] = "store"
      <3>1. a[2] = "Controller"
        BY <2>2, <2>5, Whose
      <3>2. a[1] = "push" => a[2] = "Expression"
        BY <1>2, Callers
      <3>. QED  BY <1>7, <3>1, <3>2
    <2>7. Level(a) = 3
      BY <2>6 DEF Level
    <2>8. Rank(b) < 4
      BY <2>1, <2>3, <2>5 DEF MayPrecede
    <2>9. Level(b) <= 2
      BY <2>1, <2>5, <2>8, Levels
    <2>. QED  BY <1>1, <1>7, <2>3, <2>7, <2>9 DEF a, b
  <1>. QED  BY <1>3, <1>5, <1>6, <1>7

\* PublisherLocks: no set of threads waits for itself.  Among the threads of a
\* circle there would be one of least level, and what it waits for is lower.
LEMMA LowestWaits ==
  NestingInv /\ CommandsInv => NoCircularWait
  <1>. SUFFICES ASSUME NestingInv, CommandsInv,
                       NEW circle \in SUBSET {t \in Services : WaitsFor(t) # {}}, circle # {}
                PROVE  \E t \in circle : WaitsFor(t) \cap circle = {}
    BY DEF NoCircularWait
  <1>. DEFINE levels == {Level(First(t)) : t \in circle}
  <1>1. \A t \in circle : t \in Services /\ alive[t] /\ work[t] # <<>>
    BY DEF WaitsFor
  <1>2. \A t \in circle : Level(First(t)) \in 1 .. 6
    BY DEF Level
  <1>3. levels \in SUBSET (1 .. 6) /\ levels # {}
    BY <1>2
  <1>4. Min(levels) \in levels /\ \A k \in levels : Min(levels) <= k
    BY <1>3, LeastIndex
  <1>5. PICK t \in circle : \A u \in circle : Level(First(t)) <= Level(First(u))
    BY <1>4
  <1>6. ASSUME NEW u \in WaitsFor(t) \cap circle PROVE FALSE
    <2>0. t \in Services /\ u \in WaitsFor(t) /\ work[u] # <<>>
      BY <1>1, <1>5, <1>6
    <2>1. /\ Level(First(u)) < Level(First(t))
          /\ Level(First(t)) \in 1 .. 6 /\ Level(First(u)) \in 1 .. 6
      BY <2>0, WaitsForLower, Zenon
    <2>2. Level(First(t)) <= Level(First(u))
      BY <1>5, <1>6
    <2>. DEFINE m == Level(First(t))
                n == Level(First(u))
    <2>3. m \in Int /\ n \in Int /\ n < m /\ m <= n
      BY <2>1, <2>2
    <2>. HIDE DEF m, n
    <2>. QED  BY <2>3
  <1>. QED  BY <1>6

\* PublisherLocks: whatever is published and whoever is stopped from a callback,
\* the mutexes of publishers and subscribers and the joins never close a circle.
THEOREM NoThreadWaitsForItself == Spec => []NoCircularWait
  <1>1. Init => NestingInv /\ SubscribersInv /\ CommandsInv
    BY NestingInit, CommandsInit
  <1>2. NestingInv /\ SubscribersInv /\ CommandsInv /\ [Next]_vars
          => NestingInv' /\ SubscribersInv' /\ CommandsInv'
    BY NestingStep, CommandsStep
  <1>. QED  BY <1>1, <1>2, LowestWaits, PTL DEF Spec

-----------------------------------------------------------------------------
(* What a step does to the set of the operations still to be done.         *)

\* An operation is still to be done if it was, or if it is one of the new ones.
LEMMA Membership ==
  ASSUME NestingInv, NEW t \in Services, NEW ops, Replaced(work', t, ops),
         NEW op, op[1] \notin {"release", "asleep"}
  PROVE  /\ \A u \in Services \ {t} : op \in Todo(u)' <=> op \in Todo(u)
         /\ work[t] # <<>> /\ op # First(t)
              => (op \in Todo(t)' <=> op \in ToSet(ops) \/ op \in Todo(t))
         /\ work[t] # <<>> /\ op = First(t) /\ Rank(op) \notin {1, 8, 11}
              => (op \in Todo(t)' <=> op \in ToSet(ops))
         /\ work[t] = <<>> => (op \in Todo(t)' <=> op \in ToSet(ops)) /\ op \notin Todo(t)
  <1>1. /\ op \in ToSet(work'[t]) <=> op \in ToSet(ops) \cup Rest(work[t])
        /\ \A u \in Services \ {t} : op \in ToSet(work'[u]) <=> op \in ToSet(work[u])
    BY DEF Replaced
  <1>2. Nested(t, work[t])
    BY DEF NestingInv, NestedWork
  <1>3. CASE work[t] = <<>>
    <2>1. Rest(work[t]) = {} /\ ToSet(work[t]) = {}
      BY <1>3 DEF Rest, ToSet
    <2>. QED  BY <1>1, <1>3, <2>1 DEF Todo
  <1>4. CASE work[t] # <<>>
    <2>1. /\ ToSet(work[t]) = {First(t)} \cup Rest(work[t])
          /\ \A b \in Rest(work[t]) : MayPrecede(First(t), b)
      BY <1>2, <1>4, HeadAndRest DEF First
    <2>2. First(t) \in Rest(work[t]) => MayPrecede(First(t), First(t))
      BY <2>1
    <2>3. Rank(First(t)) \in Nat
      BY <1>2, <1>4, HeadAndRest, OpsRanked DEF First
    <2>4. First(t) \in Rest(work[t]) => Rank(First(t)) \in {1, 8, 11}
      BY <2>2, <2>3 DEF MayPrecede
    <2>. QED  BY <1>1, <1>4, <2>1, <2>4 DEF Todo
  <1>. QED  BY <1>3, <1>4

\* Nothing is still to be done that is deeper than the next operation.
LEMMA NothingDeeper ==
  ASSUME NestingInv, NEW t \in Services, NEW op \in Todo(t)
  PROVE  /\ work[t] # <<>> /\ op \in Ops(t)
         /\ Rank(First(t)) <= Rank(op) /\ Rank(First(t)) \in Nat /\ Rank(op) \in Nat
         /\ Rank(First(t)) = Rank(op) => op = First(t) \/ Rank(op) \in {1, 8, 11}
  <1>1. Nested(t, work[t])
    BY DEF NestingInv, NestedWork
  <1>2. work[t] # <<>>
    BY DEF Todo, ToSet
  <1>3. /\ work[t][1] \in Ops(t) /\ ToSet(work[t]) = {work[t][1]} \cup Rest(work[t])
        /\ \A b \in Rest(work[t]) : b \in Ops(t) /\ MayPrecede(work[t][1], b)
    BY <1>1, <1>2, HeadAndRest
  <1>4. op \in Ops(t) /\ (op = First(t) \/ MayPrecede(First(t), op))
    BY <1>3 DEF Todo, First
  <1>5. Rank(First(t)) \in Nat /\ Rank(op) \in Nat
    BY <1>3, <1>4, OpsRanked DEF First
  <1>. QED  BY <1>2, <1>4, <1>5 DEF MayPrecede

-----------------------------------------------------------------------------
(* The responses are counted.                                              *)

\* What thread t will still bring to the queue of ExpressionService.
Pushing(t) == IF Push(1) \in Todo(t) THEN 1 ELSE 0
Publishing(t) == IF Publish(t, "LLMResponse") \in Todo(t) THEN 1 ELSE 0
Bringing(t) == Pushing(t) + Publishing(t)

\* Every response that is queued or on its way was an input, and the response
\* that is popped is there.
CountInv ==
    /\ inputs \in Nat /\ gestures \in Nat
    /\ inputs <= MaxInputs
    /\ gestures + Bringing("VoiceAgent") + Bringing("Tui") <= inputs
    /\ Pop \in Todo("Expression") => gestures >= 1

\* The responses a thread has still to push change only by its own steps.
LEMMA BringingKept ==
  ASSUME NestingInv, NEW t \in Services, NEW ops, Replaced(work', t, ops),
         NEW u \in {"VoiceAgent", "Tui"},
         t = u => /\ work[t] # <<>> /\ First(t) # Push(1) /\ First(t) # Publish(u, "LLMResponse")
                  /\ Push(1) \notin ToSet(ops) /\ Publish(u, "LLMResponse") \notin ToSet(ops)
  PROVE  Bringing(u)' = Bringing(u)
  <1>1. /\ Push(1)[1] \notin {"release", "asleep"}
        /\ Publish(u, "LLMResponse")[1] \notin {"release", "asleep"}
    BY Kinds
  <1>2. Push(1) \in Todo(u)' <=> Push(1) \in Todo(u)
    BY <1>1, Membership
  <1>3. Publish(u, "LLMResponse") \in Todo(u)' <=> Publish(u, "LLMResponse") \in Todo(u)
    BY <1>1, Membership
  <1>. QED  BY <1>2, <1>3 DEF Bringing, Pushing, Publishing

\* A pop is still to be done only if it was.
LEMMA PopKept ==
  ASSUME NestingInv, NEW t \in Services, NEW ops, Replaced(work', t, ops),
         t = "Expression" => (work[t] # <<>> => First(t) # Pop) /\ Pop \notin ToSet(ops)
  PROVE  Pop \in Todo("Expression")' => Pop \in Todo("Expression")
  <1>1. Pop[1] \notin {"release", "asleep"}
    BY Kinds
  <1>. QED  BY <1>1, Membership

\* What the counts are.
LEMMA BringingRange == \A u : Bringing(u) \in Nat /\ Pushing(u) \in {0, 1} /\ Publishing(u) \in {0, 1}
  BY DEF Bringing, Pushing, Publishing

\* A step that neither brings nor takes a response.
LEMMA CountKept ==
  ASSUME NestingInv, CountInv, NEW t \in Services, NEW ops, Replaced(work', t, ops),
         work[t] # <<>>, gestures' = gestures, inputs' = inputs,
         \A u \in {"VoiceAgent", "Tui"} : t = u =>
             /\ First(t) # Push(1) /\ First(t) # Publish(u, "LLMResponse")
             /\ Push(1) \notin ToSet(ops) /\ Publish(u, "LLMResponse") \notin ToSet(ops),
         t = "Expression" => First(t) # Pop /\ Pop \notin ToSet(ops)
  PROVE  CountInv'
  <1>1. Bringing("VoiceAgent")' = Bringing("VoiceAgent") /\ Bringing("Tui")' = Bringing("Tui")
    BY BringingKept
  <1>2. Pop \in Todo("Expression")' => Pop \in Todo("Expression")
    BY PopKept
  <1>. QED  BY <1>1, <1>2 DEF CountInv

\* A step that replaces its operation by nothing, and is not one of those.
LEMMA CountDone ==
  ASSUME NestingInv, CountInv, NEW t \in Services, Replaced(work', t, <<>>),
         work[t] # <<>>, gestures' = gestures, inputs' = inputs,
         First(t)[1] \notin {"push", "publish", "pop"}
  PROVE  CountInv'
  <1>1. /\ First(t) # Push(1) /\ First(t) # Pop
        /\ First(t) # Publish("VoiceAgent", "LLMResponse") /\ First(t) # Publish("Tui", "LLMResponse")
    BY Kinds
  <1>2. ToSet(<<>>) = {}
    BY DEF ToSet
  <1>. QED  BY <1>1, <1>2, CountKept

\* What a round begins with: no operation that only a callback or a gesture
\* does, and a response only where an input has been counted.
LEMMA RoundKinds ==
  ASSUME NEW t \in Services, NEW round \in Rounds(t)
  PROVE  /\ \A op \in ToSet(round) : \/ op[1] \in {"publish", "store", "wait", "serve",
                                                   "subscribe", "unsubscribe"}
                                     \/ t = "Tui" /\ op[1] \in {"start", "stop"}
         /\ t = "VoiceAgent" /\ Len(round) # 2 => Publish(t, "LLMResponse") \notin ToSet(round)
  <1>1. CASE t = "Expression"
    <2>1. round = <<Wait, Serve>>
      BY <1>1 DEF Rounds
    <2>2. ToSet(round) = {Wait, Serve}
      BY <2>1 DEF ToSet
    <2>. QED  BY <1>1, <2>2, Kinds
  <1>2. CASE t = "Perception"
    <2>1. round = <<Publish("Perception", "RecognizedGesture")>>
      BY <1>2 DEF Rounds, PerceptionRounds
    <2>2. ToSet(round) = {Publish("Perception", "RecognizedGesture")}
      BY <2>1 DEF ToSet
    <2>. QED  BY <1>2, <2>2, Kinds
  <1>3. CASE t = "Landmark"
    <2>1. round = <<Store("Landmark"), Publish("Landmark", "ControlData")>>
      BY <1>3 DEF Rounds, LandmarkRounds
    <2>2. ToSet(round) = {Store("Landmark"), Publish("Landmark", "ControlData")}
      BY <2>1 DEF ToSet
    <2>. QED  BY <1>3, <2>2, Kinds
  <1>4. CASE t = "Controller"
    <2>1. round = <<Publish("Controller", "SensorData")>>
      BY <1>4 DEF Rounds, ControllerRounds
    <2>2. ToSet(round) = {Publish("Controller", "SensorData")}
      BY <2>1 DEF ToSet
    <2>. QED  BY <1>4, <2>2, Kinds
  <1>5. CASE t = "VoiceAgent"
    <2>. DEFINE ask == Publish("VoiceAgent", "SensorReadRequest")
                response == Publish("VoiceAgent", "LLMResponse")
    <2>1. round = <<ask>> \/ round = <<response, ask>>
      BY <1>5 DEF Rounds, VoiceAgentRounds
    <2>2. ask[1] = "publish" /\ response[1] = "publish" /\ ask # response
      BY Kinds, Arguments
    <2>. HIDE DEF ask, response
    <2>3. CASE round = <<ask>>
      <3>1. ToSet(round) = {ask}
        BY <2>3 DEF ToSet
      <3>. QED  BY <1>5, <2>2, <3>1 DEF response
    <2>4. CASE round = <<response, ask>>
      <3>1. ToSet(round) = {ask, response} /\ Len(round) = 2
        BY <2>4 DEF ToSet
      <3>. QED  BY <1>5, <2>2, <3>1
    <2>. QED  BY <2>1, <2>3, <2>4
  <1>6. CASE t = "Tui"
    <2>1. PICK op \in TuiOps : round = <<op>>
      BY <1>6, TuiRound DEF Rounds
    <2>2. ToSet(round) = {op}
      BY <2>1 DEF ToSet
    <2>3. op[1] \in {"publish", "start", "stop"}
      BY Kinds DEF TuiOps
    <2>. QED  BY <1>6, <2>2, <2>3
  <1>7. CASE t = "Remote"
    <2>. DEFINE say == Publish("Remote", "SpeakRequest")
                on == Publish("Remote", "AIModeOnCall")
                off == Publish("Remote", "AIModeOffCall")
                move == Publish("Remote", "ControlData")
                sp == Subscribe("Perception")
                sc == Subscribe("Controller")
                up == Unsubscribe("Perception")
                uc == Unsubscribe("Controller")
    <2>1. \/ round = <<say, off, sp, sc>> \/ round = <<on, up, uc, say>>
          \/ round = <<on, say>> \/ round = <<say, off>> \/ round = <<move>>
      BY <1>7 DEF Rounds, RemoteRounds
    <2>2. \A op \in {say, on, off, move, sp, sc, up, uc} :
             op[1] \in {"publish", "subscribe", "unsubscribe"}
      BY Kinds
    <2>. HIDE DEF say, on, off, move, sp, sc, up, uc
    <2>3. ToSet(round) \subseteq {say, on, off, move, sp, sc, up, uc}
      <3>1. CASE round = <<say, off, sp, sc>>
        BY <3>1 DEF ToSet
      <3>2. CASE round = <<on, up, uc, say>>
        BY <3>2 DEF ToSet
      <3>3. CASE round = <<on, say>>
        BY <3>3 DEF ToSet
      <3>4. CASE round = <<say, off>>
        BY <3>4 DEF ToSet
      <3>5. CASE round = <<move>>
        BY <3>5 DEF ToSet
      <3>. QED  BY <2>1, <3>1, <3>2, <3>3, <3>4, <3>5
    <2>. QED  BY <1>7, <2>2, <2>3
  <1>. QED  BY <1>1, <1>2, <1>3, <1>4, <1>5, <1>6, <1>7

\* A round that brings a response takes an input for it.
LEMMA CountRound ==
  ASSUME NestingInv, CountInv, NEW t \in Services, BeginRound(t)
  PROVE  CountInv'
  <1>1. PICK round \in Rounds(t) :
           LET needsInput == \/ t \in {"Tui", "Remote"}
                             \/ t = "VoiceAgent" /\ Len(round) = 2
           IN /\ needsInput => inputs < MaxInputs
              /\ inputs' = IF needsInput THEN inputs + 1 ELSE inputs
              /\ work' = [work EXCEPT ![t] = round]
    BY DEF BeginRound
  <1>2. work[t] = <<>> /\ gestures' = gestures
    BY DEF BeginRound, data
  <1>3. Replaced(work', t, round)
    BY <1>1, <1>2, RoundReplaced
  <1>4. Push(1) \notin ToSet(round) /\ Pop \notin ToSet(round)
    BY RoundKinds, Kinds
  <1>5. Pop \in Todo("Expression")' => Pop \in Todo("Expression")
    BY <1>2, <1>3, <1>4, PopKept
  <1>6. \A u \in {"VoiceAgent", "Tui"} : u # t => Bringing(u)' = Bringing(u)
    BY <1>3, BringingKept
  <1>7. ASSUME t \in {"VoiceAgent", "Tui"}
        PROVE  /\ Bringing(t) = 0 /\ Bringing(t)' \in {0, 1}
               /\ Publish(t, "LLMResponse") \notin ToSet(round) => Bringing(t)' = 0
    <2>1. /\ Push(1)[1] \notin {"release", "asleep"}
          /\ Publish(t, "LLMResponse")[1] \notin {"release", "asleep"}
      BY <1>7, Kinds
    <2>2. /\ Push(1) \notin Todo(t)' /\ Push(1) \notin Todo(t)
      BY <1>2, <1>3, <1>4, <2>1, Membership
    <2>3. /\ Publish(t, "LLMResponse") \notin Todo(t)
          /\ Publish(t, "LLMResponse") \in Todo(t)' <=> Publish(t, "LLMResponse") \in ToSet(round)
      BY <1>2, <1>3, <2>1, Membership
    <2>. QED  BY <2>2, <2>3 DEF Bringing, Pushing, Publishing
  <1>8. inputs' \in {inputs, inputs + 1} /\ inputs' <= MaxInputs /\ inputs \in Nat
    BY <1>1, MaxInputsIsNatural DEF CountInv
  <1>9. gestures + Bringing("VoiceAgent")' + Bringing("Tui")' <= inputs'
    <2>0. /\ \A u \in {"VoiceAgent", "Tui"} : Bringing(u) \in Nat /\ Bringing(u)' \in Nat
          /\ gestures \in Nat
      BY BringingRange, <1>6, <1>7 DEF CountInv
    <2>1. CASE t \notin {"VoiceAgent", "Tui"}
      BY <1>6, <1>8, <2>0, <2>1 DEF CountInv
    <2>2. CASE t = "Tui"
      <3>1. inputs' = inputs + 1
        BY <1>1, <2>2
      <3>. QED  BY <1>6, <1>7, <1>8, <2>0, <2>2, <3>1 DEF CountInv
    <2>3. CASE t = "VoiceAgent" /\ Len(round) = 2
      <3>1. inputs' = inputs + 1
        BY <1>1, <2>3
      <3>. QED  BY <1>6, <1>7, <1>8, <2>0, <2>3, <3>1 DEF CountInv
    <2>4. CASE t = "VoiceAgent" /\ Len(round) # 2
      <3>1. Bringing("VoiceAgent")' = 0
        BY <1>7, <2>4, RoundKinds
      <3>. QED  BY <1>6, <1>7, <1>8, <2>0, <2>4, <3>1 DEF CountInv
    <2>. QED  BY <2>1, <2>2, <2>3, <2>4
  <1>. QED  BY <1>2, <1>5, <1>8, <1>9 DEF CountInv

\* Who publishes for the controller, and who pushes.
LEMMA AnswerPublishes ==
  ASSUME NEW t \in {"VoiceAgent", "Tui"}, NEW a \in Ops(t), a[1] = "publish", a[2] = "Controller"
  PROVE  a = Publish("Controller", "SensorData")
  BY Kinds, Whose DEF Ops, Answer, InnerStores, Commands

\* Which threads push into the queue of ExpressionService.
LEMMA PushedBy ==
  ASSUME NEW t \in Services, NEW a \in Ops(t), a[1] = "push"
  PROVE  \/ t \in {"VoiceAgent", "Tui"} /\ a = Push(1)
         \/ t = "Remote" /\ a = Push(0)
  BY Kinds DEF Ops, Answer, InnerStores, Commands

\* Publishing an LLMResponse hands the response on to the push.
LEMMA CountPublish ==
  ASSUME NestingInv, SubscribersInv, CountInv, NEW t \in Services, LockPublisher(t)
  PROVE  CountInv'
  <1>. DEFINE a == First(t)
              ops == Publication(a[2], a[3])
  <1>1. /\ work[t] # <<>> /\ a \in Ops(t) /\ a[1] = "publish"
        /\ Of(t) = a[2] /\ Argument(t) = a[3] /\ a \in Todo(t)
    BY NextOperation DEF LockPublisher
  <1>2. Replaced(work', t, ops)
    BY <1>1, WorkAfterStep
  <1>3. gestures' = gestures /\ inputs' = inputs
    BY DEF LockPublisher, data
  <1>4. a # Push(1) /\ a # Pop
    BY <1>1, Kinds
  <1>. HIDE DEF ops, a
  <1>5. CASE t \notin {"Expression", "VoiceAgent", "Tui"}
    BY <1>1, <1>2, <1>3, <1>5, CountKept
  <1>6. CASE t = "Expression"
    <2>1. ToSet(ops) \subseteq
               {StopOf("Perception"), StopOf("Landmark"), StartOf("Perception"),
                StartOf("Landmark"), Store("Controller"), Release("Expression", "_mutex")}
      BY <1>1, <1>6, ExpressionPublishes DEF ops
    <2>2. Pop \notin ToSet(ops)
      BY <2>1, Kinds
    <2>. QED  BY <1>1, <1>2, <1>3, <1>4, <1>6, <2>2, CountKept DEF a
  <1>7. CASE t \in {"VoiceAgent", "Tui"} /\ a[2] = "Controller"
    <2>1. a = Publish("Controller", "SensorData")
      BY <1>1, <1>7, AnswerPublishes
    <2>2. ToSet(ops) \subseteq InnerStores \cup {Release("Controller", "_mutex")}
      BY <1>7, <2>1, ControllerPublishes DEF ops
    <2>3. \A op \in ToSet(ops) : op[1] \in {"store", "release"}
      BY <2>2, Kinds DEF InnerStores
    <2>4. Push(1) \notin ToSet(ops) /\ Publish(t, "LLMResponse") \notin ToSet(ops)
      BY <1>7, <2>3, Kinds
    <2>5. a # Publish(t, "LLMResponse")
      BY <1>7, Whose
    <2>. QED  BY <1>1, <1>2, <1>3, <1>4, <1>7, <2>4, <2>5, CountKept DEF a
  <1>8. CASE t \in {"VoiceAgent", "Tui"} /\ a[2] # "Controller"
    <2>1. a[2] = t
      BY <1>1, <1>8, Callers
    <2>2. /\ ToSet(ops) \subseteq {Push(1), TryAnswer, Store("Controller"), Release(t, "_mutex")}
          /\ Push(1) \in ToSet(ops) => a = Publish(t, "LLMResponse")
      BY <1>1, <1>8, <2>1, OthersPublish DEF ops
    <2>3. \A op \in ToSet(ops) : op[1] # "publish"
      BY <1>8, <2>2, Kinds
    <2>4. Publish(t, "LLMResponse") \notin ToSet(ops)
      BY <1>8, <2>3, Kinds
    <2>5. CASE a # Publish(t, "LLMResponse")
      BY <1>1, <1>2, <1>3, <1>4, <1>8, <2>2, <2>4, <2>5, CountKept DEF a
    <2>6. CASE a = Publish(t, "LLMResponse")
      <3>1. Rank(a) = 10 /\ Rank(Push(1)) = 5
        BY <1>8, <2>6, Ranks
      <3>2. Push(1) \notin Todo(t)
        BY <3>1, NothingDeeper DEF a
      <3>3. a[1] \notin {"release", "asleep"}
        BY <1>1
      <3>4. a \notin Todo(t)'
        BY <1>1, <1>2, <2>4, <2>6, <3>1, <3>3, Membership DEF a
      <3>5. Bringing(t) = 1 /\ Bringing(t)' \in {0, 1}
        BY <1>1, <2>6, <3>2, <3>4 DEF Bringing, Pushing, Publishing
      <3>6. \A u \in {"VoiceAgent", "Tui"} : u # t => Bringing(u)' = Bringing(u)
        BY <1>2, BringingKept
      <3>7. Pop \in Todo("Expression")' => Pop \in Todo("Expression")
        BY <1>2, <1>8, PopKept
      <3>8. \A u \in {"VoiceAgent", "Tui"} : Bringing(u) \in Nat /\ Bringing(u)' \in Nat
                                             /\ Bringing(u)' <= Bringing(u)
        BY <3>5, <3>6, BringingRange
      <3>. QED  BY <1>3, <3>7, <3>8 DEF CountInv
    <2>. QED  BY <2>5, <2>6
  <1>. QED  BY <1>5, <1>6, <1>7, <1>8

\* A push adds to the queue what the thread brought.
LEMMA CountPush ==
  ASSUME NestingInv, SubscribersInv, CountInv, NEW t \in Services, PushResponse(t)
  PROVE  CountInv'
  <1>1. /\ work[t] # <<>> /\ First(t) \in Ops(t) /\ First(t)[1] = "push"
        /\ Argument(t) = First(t)[3] /\ First(t) \in Todo(t)
    BY NextOperation DEF PushResponse
  <1>2. Replaced(work', t, <<>>)
    BY WorkAfterStep
  <1>3. gestures' = gestures + First(t)[3] /\ inputs' = inputs
    BY <1>1 DEF PushResponse
  <1>4. \/ t \in {"VoiceAgent", "Tui"} /\ First(t) = Push(1)
        \/ t = "Remote" /\ First(t) = Push(0)
    BY <1>1, PushedBy
  <1>5. CASE t = "Remote" /\ First(t) = Push(0)
    <2>1. First(t)[3] = 0
      BY <1>5 DEF Push
    <2>2. gestures' = gestures
      BY <1>3, <2>1 DEF CountInv
    <2>. QED  BY <1>1, <1>2, <1>3, <1>5, <2>2, CountKept
  <1>6. CASE t \in {"VoiceAgent", "Tui"} /\ First(t) = Push(1)
    <2>1. First(t)[3] = 1
      BY <1>6 DEF Push
    <2>2. ToSet(<<>>) = {}
      BY DEF ToSet
    <2>3. /\ Rank(Push(1)) = 5 /\ Push(1)[1] \notin {"release", "asleep"}
          /\ Publish(t, "LLMResponse")[1] \notin {"release", "asleep", "push"}
      BY <1>6, Ranks, Kinds
    <2>4. Push(1) \notin Todo(t)' /\ Push(1) \in Todo(t)
      BY <1>1, <1>2, <1>6, <2>2, <2>3, Membership
    <2>5. Publish(t, "LLMResponse") \in Todo(t)' <=> Publish(t, "LLMResponse") \in Todo(t)
      BY <1>1, <1>2, <2>2, <2>3, Membership
    <2>6. Bringing(t) = Bringing(t)' + 1 /\ Bringing(t)' \in Nat
      BY <2>4, <2>5 DEF Bringing, Pushing, Publishing
    <2>7. \A u \in {"VoiceAgent", "Tui"} : u # t => Bringing(u)' = Bringing(u)
      BY <1>2, BringingKept
    <2>8. \A u \in {"VoiceAgent", "Tui"} : Bringing(u) \in Nat
      BY BringingRange
    <2>9. gestures' \in Nat /\ gestures' = gestures + 1 /\ inputs \in Nat
      BY <1>3, <2>1 DEF CountInv
    <2>10. gestures' + Bringing("VoiceAgent")' + Bringing("Tui")' <= inputs
      <3>1. CASE t = "VoiceAgent"
        BY <2>6, <2>7, <2>8, <2>9, <3>1 DEF CountInv
      <3>2. CASE t = "Tui"
        BY <2>6, <2>7, <2>8, <2>9, <3>2 DEF CountInv
      <3>. QED  BY <1>6, <3>1, <3>2
    <2>. QED  BY <1>3, <2>9, <2>10 DEF CountInv
  <1>. QED  BY <1>4, <1>5, <1>6

\* A gesture is served, and popped, only when there is one.
LEMMA CountGesture ==
  ASSUME NestingInv, SubscribersInv, CountInv, NEW t \in Services, ServeQueue(t) \/ PopResponse(t)
  PROVE  CountInv'
  <1>1. CASE ServeQueue(t)
    <2>1. /\ work[t] # <<>> /\ First(t)[1] = "serve" /\ At(t, "serve")
          /\ gestures' = gestures /\ inputs' = inputs
      BY <1>1, NextOperation DEF ServeQueue, data
    <2>2. t = "Expression"
      BY <2>1, GestureReplaced
    <2>3. CASE gestures = 0
      BY <1>1, <2>1, <2>3, WorkAfterStep, CountDone
    <2>4. CASE gestures # 0
      <3>1. Replaced(work', t, Gesture \o <<Pop, Serve>>)
        BY <1>1, <2>4, WorkAfterStep
      <3>2. Bringing("VoiceAgent")' = Bringing("VoiceAgent") /\ Bringing("Tui")' = Bringing("Tui")
        BY <2>2, <3>1, BringingKept
      <3>. QED  BY <2>1, <2>4, <3>2 DEF CountInv
    <2>. QED  BY <2>3, <2>4
  <1>2. CASE PopResponse(t)
    <2>1. /\ work[t] # <<>> /\ First(t) \in Ops(t) /\ First(t)[1] = "pop" /\ First(t) \in Todo(t)
          /\ gestures' = gestures - 1 /\ inputs' = inputs
      BY <1>2, NextOperation DEF PopResponse
    <2>2. t = "Expression"
      BY <2>1, OnlyBy
    <2>3. First(t) = Pop
      <3>1. First(t) \in Ops("Expression")
        BY <2>1, <2>2
      <3>. QED  BY <2>1, <3>1, Kinds DEF Ops
    <2>4. gestures >= 1
      BY <2>1, <2>2, <2>3 DEF CountInv
    <2>5. Replaced(work', t, <<>>)
      BY <1>2, WorkAfterStep
    <2>6. Pop[1] \notin {"release", "asleep"} /\ Rank(Pop) = 12
      BY Kinds, Ranks
    <2>7. ToSet(<<>>) = {}
      BY DEF ToSet
    <2>8. Pop \notin Todo("Expression")'
      BY <2>1, <2>2, <2>3, <2>5, <2>6, <2>7, Membership
    <2>9. Bringing("VoiceAgent")' = Bringing("VoiceAgent") /\ Bringing("Tui")' = Bringing("Tui")
      BY <2>2, <2>5, BringingKept
    <2>10. Bringing("VoiceAgent") \in Nat /\ Bringing("Tui") \in Nat
      BY BringingRange
    <2>. QED  BY <2>1, <2>4, <2>8, <2>9, <2>10 DEF CountInv
  <1>. QED  BY <1>1, <1>2

\* The responses are counted in every state.
LEMMA CountStep ==
  NestingInv /\ SubscribersInv /\ CountInv /\ [Next]_vars => CountInv'
  <1>. SUFFICES ASSUME NestingInv, SubscribersInv, CountInv, [Next]_vars PROVE CountInv'
    OBVIOUS
  <1>1. ASSUME work' = work, gestures' = gestures, inputs' = inputs PROVE CountInv'
    BY <1>1 DEF CountInv, Bringing, Pushing, Publishing, Todo
  <1>2. CASE UNCHANGED vars
    BY <1>1, <1>2 DEF vars
  <1>3. ASSUME NEW t \in Services, Step(t) \/ WakeSpuriously(t)
        PROVE  CountInv'
    <2>1. CASE EndThread(t)
      BY <1>1, <2>1 DEF EndThread, data
    <2>2. CASE BeginRound(t)
      BY <2>2, CountRound
    <2>3. CASE LockPublisher(t)
      BY <2>3, CountPublish
    <2>4. CASE PushResponse(t)
      BY <2>4, CountPush
    <2>5. CASE ServeQueue(t) \/ PopResponse(t)
      BY <2>5, CountGesture
    <2>6. CASE \/ StoreData(t) \/ SwitchMode(t) \/ StartService(t) \/ JoinService(t)
               \/ ChangeSubscription(t) \/ WakeSpuriously(t)
      <3>1. Replaced(work', t, <<>>)
        BY <2>6, WorkAfterStep, Zenon
      <3>2. /\ work[t] # <<>> /\ gestures' = gestures /\ inputs' = inputs
            /\ Head(work[t])[1] \notin {"push", "publish", "pop"}
        BY <2>6 DEF StoreData, SwitchMode, StartService, JoinService, ChangeSubscription,
              WakeSpuriously, At, data
      <3>3. First(t) = Head(work[t])
        BY <3>2, HeadAndRest DEF First, NestingInv, NestedWork
      <3>. QED  BY <3>1, <3>2, <3>3, CountDone
    <2>7. CASE TryLockData(t)
      <3>1. At(t, "answer") /\ gestures' = gestures /\ inputs' = inputs
        BY <2>7 DEF TryLockData, data
      <3>2. work[t] # <<>> /\ First(t)[1] = "answer"
        BY <3>1, NextOperation
      <3>3. CASE Replaced(work', t, <<>>)
        BY <3>1, <3>2, <3>3, CountDone
      <3>4. CASE Replaced(work', t, <<Publish("Controller", "SensorData"),
                                      Release("Controller", "_dataMutex")>>)
        <4>1. ToSet(<<Publish("Controller", "SensorData"), Release("Controller", "_dataMutex")>>)
                = {Publish("Controller", "SensorData"), Release("Controller", "_dataMutex")}
          BY <3>1, AnswerReplaced
        <4>2. /\ Push(1) \notin {Publish("Controller", "SensorData"),
                                 Release("Controller", "_dataMutex")}
              /\ Pop \notin {Publish("Controller", "SensorData"),
                             Release("Controller", "_dataMutex")}
              /\ First(t) # Push(1) /\ First(t) # Pop
              /\ First(t) # Publish("VoiceAgent", "LLMResponse")
              /\ First(t) # Publish("Tui", "LLMResponse")
          BY <3>2, Kinds
        <4>3. \A u \in {"VoiceAgent", "Tui"} :
                 Publish(u, "LLMResponse") \notin {Publish("Controller", "SensorData"),
                                                   Release("Controller", "_dataMutex")}
          <5>1. /\ Publish("VoiceAgent", "LLMResponse") # Publish("Controller", "SensorData")
                /\ Publish("Tui", "LLMResponse") # Publish("Controller", "SensorData")
            BY Whose
          <5>2. /\ Publish("VoiceAgent", "LLMResponse") # Release("Controller", "_dataMutex")
                /\ Publish("Tui", "LLMResponse") # Release("Controller", "_dataMutex")
            BY Kinds
          <5>. QED  BY <5>1, <5>2
        <4>. DEFINE ops == <<Publish("Controller", "SensorData"),
                             Release("Controller", "_dataMutex")>>
        <4>4. Replaced(work', t, ops)
          BY <3>4
        <4>5. /\ Push(1) \notin ToSet(ops) /\ Pop \notin ToSet(ops)
              /\ \A u \in {"VoiceAgent", "Tui"} : Publish(u, "LLMResponse") \notin ToSet(ops)
          BY <4>1, <4>2, <4>3, Zenon
        <4>. HIDE DEF ops
        <4>. QED  BY <3>1, <3>2, <4>2, <4>4, <4>5, CountKept
      <3>. QED  BY <2>7, <3>3, <3>4, WorkAfterStep
    <2>8. CASE WaitForResponse(t)
      <3>1. At(t, "wait") /\ gestures' = gestures /\ inputs' = inputs
        BY <2>8 DEF WaitForResponse, data
      <3>2. work[t] # <<>> /\ First(t) \in Ops(t) /\ First(t)[1] = "wait"
        BY <3>1, NextOperation
      <3>3. t = "Expression" /\ First(t) # Pop
        BY <3>2, OnlyBy, Kinds
      <3>4. Pop \notin ToSet(<<Asleep>>)
        <4>1. ToSet(<<Asleep>>) = {Asleep}
          BY DEF ToSet
        <4>. QED  BY <4>1, Kinds
      <3>. QED  BY <2>8, <3>1, <3>2, <3>3, <3>4, WorkAfterStep, CountKept
    <2>9. CASE StopService(t)
      <3>1. At(t, "stop") /\ gestures' = gestures /\ inputs' = inputs
        BY <2>9 DEF StopService, data
      <3>2. work[t] # <<>> /\ First(t)[1] = "stop"
        BY <3>1, NextOperation
      <3>3. CASE ~running[Of(t)]
        BY <2>9, <3>1, <3>2, <3>3, WorkAfterStep, CountDone
      <3>4. CASE running[Of(t)]
        <4>1. ToSet(<<JoinOf(Of(t))>>) = {JoinOf(Of(t))}
          BY <3>1, JoinReplaced
        <4>2. JoinOf(Of(t))[1] = "join"
          BY DEF JoinOf
        <4>3. \A op : op[1] \in {"push", "publish", "pop"}
                     => op # JoinOf(Of(t)) /\ op # First(t)
          BY <3>2, <4>2
        <4>5. /\ Pop[1] = "pop" /\ Push(1)[1] = "push"
              /\ Publish("VoiceAgent", "LLMResponse")[1] = "publish"
              /\ Publish("Tui", "LLMResponse")[1] = "publish"
          BY Kinds
        <4>4. Replaced(work', t, <<JoinOf(Of(t))>>)
          BY <2>9, <3>4, WorkAfterStep
        <4>. QED  BY <3>1, <3>2, <4>1, <4>3, <4>4, <4>5, CountKept
      <3>. QED  BY <3>3, <3>4
    <2>. QED  BY <1>3, <2>1, <2>2, <2>3, <2>4, <2>5, <2>6, <2>7, <2>8, <2>9 DEF Step, Perform
  <1>. QED  BY <1>2, <1>3 DEF Next

\* No response is anywhere.
LEMMA CountInit == Init => CountInv
  <1>. SUFFICES ASSUME Init PROVE CountInv
    OBVIOUS
  <1>1. \A t \in Services : Todo(t) = {}
    BY DEF Init, Todo, ToSet
  <1>. QED  BY <1>1, MaxInputsIsNatural DEF Init, CountInv, Bringing, Pushing, Publishing

-----------------------------------------------------------------------------
(* The threads, and the two modes.                                         *)

\* The flags have their types, a service that is running has a thread, and a
\* thread that has ended has nothing to do.
ThreadInv ==
    /\ running \in [Services -> BOOLEAN] /\ alive \in [Services -> BOOLEAN]
    /\ aiModeEnabled \in {"on", "off"}
    /\ terminated \in BOOLEAN /\ meddled \in BOOLEAN
    /\ \A s \in Services : running[s] => alive[s]
    /\ \A s \in Services : ~alive[s] => work[s] = <<>>

\* A thread of the two that move the robot is joined when it is told to end.
JoinInv ==
    /\ ~running["Expression"] /\ alive["Expression"] => JoinOf("Expression") \in Todo("Remote")
    /\ ~running["Landmark"] /\ alive["Landmark"]
         => JoinOf("Landmark") \in Todo("Remote") \/ JoinOf("Landmark") \in Todo("Expression")

\* What the remote connection has still to do of a change of the mode, and what
\* it has done of it already.
ModeInv ==
    LET R == Todo("Remote")
    IN  /\ aiModeEnabled = "off" => ~alive["Expression"] \/ SetAIMode("on") \in R
        /\ SetAIMode("off") \in R
             => ~alive["Expression"] \/ StopOf("Expression") \in R \/ JoinOf("Expression") \in R
        /\ StartOf("Expression") \in R => SetAIMode("on") \in R
        /\ SetAIMode("off") \in R => StopOf("Landmark") \in R
        /\ SetAIMode("off") \in R => StartOf("Landmark") \notin R /\ StartOf("Expression") \notin R
        /\ StartOf("Landmark") \in R /\ aiModeEnabled = "off" => SetAIMode("on") \in R
        /\ SetAIMode("on") \in R => StartOf("Landmark") \in R
        /\ aiModeEnabled = "off" => \/ ~alive["Landmark"] \/ StopOf("Landmark") \in R
                                    \/ JoinOf("Landmark") \in R \/ SetAIMode("on") \in R

\* Both hold as long as the terminal leaves ExpressionService alone.
UnmeddledInv == ~meddled => JoinInv /\ ModeInv

\* When the remote connection has nothing of a change of the mode to do, the
\* mode is as the threads show it.
LEMMA ModeSettled == UnmeddledInv => RemoteHasBody
  <1>. SUFFICES ASSUME UnmeddledInv, ~meddled, aiModeEnabled = "off", ~Switching
                PROVE  ~alive["Expression"] /\ ~alive["Landmark"]
    BY DEF RemoteHasBody
  <1>. DEFINE R == Todo("Remote")
  <1>1. \A op \in R : op[1] \notin {"start", "stop", "join"}
    BY DEF Switching, Todo
  <1>. HIDE DEF R
  <1>2. /\ SetAIMode("on") \in R => StartOf("Landmark") \in R
        /\ StartOf("Landmark") \notin R /\ StopOf("Landmark") \notin R
        /\ JoinOf("Landmark") \notin R
    BY <1>1, Kinds DEF UnmeddledInv, ModeInv, R
  <1>. QED  BY <1>2 DEF UnmeddledInv, ModeInv, R

\* The operations that the two invariants are about.
Watched == {SetAIMode("on"), SetAIMode("off"), StartOf("Expression"), StopOf("Expression"),
            JoinOf("Expression"), StartOf("Landmark"), StopOf("Landmark"), JoinOf("Landmark")}

\* What a step leaves of them: everything but what it does itself.
LEMMA WatchedKept ==
  ASSUME NestingInv, NEW t \in Services, NEW ops, Replaced(work', t, ops), work[t] # <<>>
  PROVE  /\ t # "Remote" => \A op \in Watched : op \in Todo("Remote")' <=> op \in Todo("Remote")
         /\ t = "Remote" => \A op \in Watched \ {First(t)} :
              op \in Todo("Remote")' <=> op \in ToSet(ops) \/ op \in Todo("Remote")
         /\ t # "Expression"
              => (JoinOf("Landmark") \in Todo("Expression")'
                    <=> JoinOf("Landmark") \in Todo("Expression"))
         /\ t = "Expression" /\ First(t) # JoinOf("Landmark")
              => (JoinOf("Landmark") \in Todo("Expression")'
                    <=> JoinOf("Landmark") \in ToSet(ops)
                        \/ JoinOf("Landmark") \in Todo("Expression"))
  <1>1. \A op \in Watched : op[1] \notin {"release", "asleep"}
    BY Kinds DEF Watched
  <1>2. JoinOf("Landmark") \in Watched
    BY DEF Watched
  <1>3. t # "Remote" => \A op \in Watched : op \in Todo("Remote")' <=> op \in Todo("Remote")
    BY <1>1, Membership
  <1>4. t = "Remote" => \A op \in Watched \ {First(t)} :
              op \in Todo("Remote")' <=> op \in ToSet(ops) \/ op \in Todo("Remote")
    BY <1>1, Membership
  <1>5. t # "Expression"
          => (JoinOf("Landmark") \in Todo("Expression")' <=> JoinOf("Landmark") \in Todo("Expression"))
    BY <1>1, <1>2, Membership
  <1>6. t = "Expression" /\ First(t) # JoinOf("Landmark")
          => (JoinOf("Landmark") \in Todo("Expression")'
                <=> JoinOf("Landmark") \in ToSet(ops) \/ JoinOf("Landmark") \in Todo("Expression"))
    BY <1>1, <1>2, Membership
  <1>. QED  BY <1>3, <1>4, <1>5, <1>6

\* The operations of a change of the mode.
LEMMA AllWatched ==
  /\ SetAIMode("on") \in Watched /\ SetAIMode("off") \in Watched
  /\ StartOf("Expression") \in Watched /\ StopOf("Expression") \in Watched
  /\ JoinOf("Expression") \in Watched /\ StartOf("Landmark") \in Watched
  /\ StopOf("Landmark") \in Watched /\ JoinOf("Landmark") \in Watched
  BY DEF Watched

\* A thread that has ended does nothing, and nothing is given to it to do.
LEMMA EndedStaysEmpty ==
  ASSUME ThreadInv, NEW t \in Services, alive[t], NEW ops, Replaced(work', t, ops),
         NEW s \in Services, ~alive[s]
  PROVE  work'[s] = <<>>
  BY DEF ThreadInv, Replaced

\* The threads and the mode are as they were, and so are the operations that
\* the invariants are about.
LEMMA ModeUnchanged ==
  ASSUME ThreadInv, JoinInv, ModeInv,
         running' = running, alive' = alive,
         aiModeEnabled' = aiModeEnabled,
         \A op \in Watched : op \in Todo("Remote")' <=> op \in Todo("Remote"),
         JoinOf("Landmark") \in Todo("Expression")' <=> JoinOf("Landmark") \in Todo("Expression"),
         \A s \in Services : ~alive[s] => work'[s] = <<>>
  PROVE  JoinInv' /\ ModeInv'
  <1>1. JoinInv'
    BY AllWatched DEF ThreadInv, JoinInv
  <1>2. ModeInv'
    BY AllWatched DEF ModeInv
  <1>. QED  BY <1>1, <1>2

\* A step that does none of them and adds none, and starts and ends no thread.
LEMMA ModeKept ==
  ASSUME NestingInv, ThreadInv, JoinInv, ModeInv, NEW t \in Services, NEW ops, Replaced(work', t, ops),
         running' = running, alive' = alive,
         aiModeEnabled' = aiModeEnabled, alive[t], work[t] # <<>>,
         t = "Remote" => First(t) \notin Watched /\ \A op \in ToSet(ops) : op \notin Watched,
         t = "Expression" => First(t) # JoinOf("Landmark") /\ JoinOf("Landmark") \notin ToSet(ops)
  PROVE  JoinInv' /\ ModeInv'
  <1>1. \A op \in Watched : op \in Todo("Remote")' <=> op \in Todo("Remote")
    BY WatchedKept
  <1>2. JoinOf("Landmark") \in Todo("Expression")' <=> JoinOf("Landmark") \in Todo("Expression")
    BY WatchedKept
  <1>3. \A s \in Services : ~alive[s] => work'[s] = <<>>
    BY EndedStaysEmpty
  <1>. QED  BY <1>1, <1>2, <1>3, ModeUnchanged

\* The kinds of the operations that the invariants are about.
LEMMA WatchedKinds ==
  /\ \A op : op[1] \notin {"mode", "start", "stop", "join"} => op \notin Watched
  /\ \A op : op[1] # "join" => op # JoinOf("Landmark")
  <1>1. \A op \in Watched : op[1] \in {"mode", "start", "stop", "join"}
    BY Kinds DEF Watched
  <1>2. JoinOf("Landmark")[1] = "join"
    BY Kinds
  <1>. QED  BY <1>1, <1>2

\* An operation without a part in a change of the mode is done.
LEMMA ModeDone ==
  ASSUME NestingInv, ThreadInv, JoinInv, ModeInv, NEW t \in Services, Replaced(work', t, <<>>),
         running' = running, alive' = alive,
         aiModeEnabled' = aiModeEnabled, alive[t], work[t] # <<>>,
         First(t)[1] \notin {"mode", "start", "stop", "join"}
  PROVE  JoinInv' /\ ModeInv'
  <1>1. ToSet(<<>>) = {}
    BY Replaces0
  <1>. QED  BY <1>1, WatchedKinds, ModeKept

\* A round begins with no operation of a change of the mode.
LEMMA ModeRound ==
  ASSUME NestingInv, ThreadInv, JoinInv, ModeInv, NEW t \in Services, BeginRound(t)
  PROVE  JoinInv' /\ ModeInv'
  <1>1. PICK round \in Rounds(t) : work' = [work EXCEPT ![t] = round]
    BY DEF BeginRound
  <1>2. /\ alive[t] /\ work[t] = <<>> /\ running' = running /\ alive' = alive
        /\ aiModeEnabled' = aiModeEnabled
    BY DEF BeginRound, threads, data
  <1>3. Replaced(work', t, round)
    BY <1>1, <1>2, RoundReplaced
  <1>4. t # "Tui" => \A op \in ToSet(round) : op \notin Watched
    BY RoundKinds, WatchedKinds
  <1>5. \A op \in Watched : op[1] \notin {"release", "asleep"}
    BY Kinds DEF Watched
  <1>6. \A op \in Watched : \A u \in Services \ {"Tui"} : op \in Todo(u)' <=> op \in Todo(u)
    BY <1>2, <1>3, <1>4, <1>5, Membership
  <1>7. \A s \in Services : ~alive[s] => work'[s] = <<>>
    BY <1>2, <1>3, EndedStaysEmpty
  <1>. QED  BY <1>2, <1>6, <1>7, ModeUnchanged, AllWatched

\* A publication by the remote connection may bring a whole change of the mode.
LEMMA ModePublish ==
  ASSUME NestingInv, SubscribersInv, ThreadInv, JoinInv, ModeInv, NEW t \in Services, LockPublisher(t)
  PROVE  JoinInv' /\ ModeInv'
  <1>. DEFINE a == First(t)
              ops == Publication(a[2], a[3])
  <1>1. /\ work[t] # <<>> /\ a \in Ops(t) /\ a[1] = "publish"
        /\ Of(t) = a[2] /\ Argument(t) = a[3]
    BY NextOperation DEF LockPublisher
  <1>2. Replaced(work', t, ops)
    BY <1>1, WorkAfterStep
  <1>3. /\ running' = running /\ alive' = alive
        /\ aiModeEnabled' = aiModeEnabled /\ alive[t]
    BY DEF LockPublisher, threads, data, At
  <1>. HIDE DEF ops, a
  <1>4. a \notin Watched /\ a # JoinOf("Landmark")
    BY <1>1, WatchedKinds
  <1>5. CASE t \notin {"Expression", "Remote"}
    BY <1>1, <1>2, <1>3, <1>5, ModeKept
  <1>6. CASE t = "Expression"
    <2>1. ToSet(ops) \subseteq
               {StopOf("Perception"), StopOf("Landmark"), StartOf("Perception"),
                StartOf("Landmark"), Store("Controller"), Release("Expression", "_mutex")}
      BY <1>1, <1>6, ExpressionPublishes DEF ops
    <2>2. JoinOf("Landmark") \notin ToSet(ops)
      BY <2>1, Kinds
    <2>. QED  BY <1>1, <1>2, <1>3, <1>4, <1>6, <2>2, ModeKept DEF a
  <1>7. CASE t = "Remote"
    <2>1. /\ Rank(a) = 11
          /\ \/ ToSet(ops) \subseteq {Push(0), Store("Controller"), Release("Remote", "_mutex")}
             \/ ToSet(ops) = {StartOf("Expression"), SetAIMode("on"), StartOf("Perception"),
                              StartOf("Landmark"), Release("Remote", "_mutex")}
             \/ ToSet(ops) = {StopOf("Expression"), SetAIMode("off"), StartOf("Perception"),
                              StopOf("Landmark"), Release("Remote", "_mutex")}
      BY <1>1, <1>7, RemotePublishes DEF ops
    <2>2. \A op \in Watched : Rank(op) < 11
      BY Ranks DEF Watched
    <2>3. \A op \in Watched : op \notin Todo("Remote")
      BY <1>7, <2>1, <2>2, NothingDeeper DEF a
    <2>4. \A op \in Watched : op \in Todo("Remote")' <=> op \in ToSet(ops)
      BY <1>1, <1>2, <1>4, <1>7, <2>3, WatchedKept DEF a
    <2>5. JoinOf("Landmark") \in Todo("Expression")' <=> JoinOf("Landmark") \in Todo("Expression")
      BY <1>1, <1>2, <1>7, WatchedKept
    <2>6. \A s \in Services : ~alive[s] => work'[s] = <<>>
      BY <1>2, <1>3, EndedStaysEmpty
    <2>7. JoinInv'
      BY <1>3, <2>3, <2>5, <2>6, AllWatched DEF ThreadInv, JoinInv
    <2>8. CASE ToSet(ops) \subseteq {Push(0), Store("Controller"), Release("Remote", "_mutex")}
      <3>1. \A op \in ToSet(ops) : op \notin Watched
        BY <2>8, Kinds, WatchedKinds
      <3>. QED  BY <1>1, <1>2, <1>3, <1>4, <1>7, <3>1, ModeKept DEF a
    <2>9. CASE ToSet(ops) = {StartOf("Expression"), SetAIMode("on"), StartOf("Perception"),
                             StartOf("Landmark"), Release("Remote", "_mutex")}
      <3>1. /\ StartOf("Expression") \in Todo("Remote")' /\ SetAIMode("on") \in Todo("Remote")'
            /\ StartOf("Landmark") \in Todo("Remote")'
        BY <2>4, <2>9, AllWatched
      <3>2. SetAIMode("off") \notin Todo("Remote")'
        <4>1. SetAIMode("off") \notin ToSet(ops)
          BY <2>9, Kinds, Arguments
        <4>. QED  BY <2>4, <4>1, AllWatched
      <3>. QED  BY <1>3, <2>7, <3>1, <3>2 DEF ModeInv
    <2>10. CASE ToSet(ops) = {StopOf("Expression"), SetAIMode("off"), StartOf("Perception"),
                              StopOf("Landmark"), Release("Remote", "_mutex")}
      <3>1. /\ StopOf("Expression") \in Todo("Remote")' /\ SetAIMode("off") \in Todo("Remote")'
            /\ StopOf("Landmark") \in Todo("Remote")'
        BY <2>4, <2>10, AllWatched
      <3>2. /\ SetAIMode("on") \notin Todo("Remote")' /\ StartOf("Expression") \notin Todo("Remote")'
            /\ StartOf("Landmark") \notin Todo("Remote")'
        <4>1. SetAIMode("on") \notin ToSet(ops)
          BY <2>10, Kinds, Arguments
        <4>2. \A op \in ToSet(ops) : op[1] = "start" => op = StartOf("Perception")
          BY <2>10, Kinds
        <4>3. StartOf("Expression") \notin ToSet(ops) /\ StartOf("Landmark") \notin ToSet(ops)
          BY <4>2, Kinds, Whose
        <4>. QED  BY <2>4, <4>1, <4>3, AllWatched
      <3>3. ModeInv => (aiModeEnabled = "off" => ~alive["Expression"])
        BY <2>3, AllWatched DEF ModeInv
      <3>. QED  BY <1>3, <2>7, <3>1, <3>2, <3>3 DEF ModeInv
    <2>. QED  BY <2>1, <2>8, <2>9, <2>10
  <1>. QED  BY <1>5, <1>6, <1>7

\* A thread ends that was told to stop.
LEMMA ModeEnd ==
  ASSUME NestingInv, ThreadInv, JoinInv, ModeInv, NEW t \in Services, EndThread(t)
  PROVE  JoinInv' /\ ModeInv'
  <1>1. /\ work' = work /\ running' = running
        /\ aiModeEnabled' = aiModeEnabled /\ work[t] = <<>> /\ ~running[t]
        /\ alive' = [alive EXCEPT ![t] = FALSE]
    BY DEF EndThread, data
  <1>2. /\ alive' \in [Services -> BOOLEAN]
        /\ \A s \in Services : alive'[s] => alive[s]
        /\ \A s \in Services : s # t => alive'[s] = alive[s]
    BY <1>1 DEF ThreadInv, JoinInv
  <1>3. JoinInv'
    BY <1>1, <1>2 DEF ThreadInv, JoinInv, Todo
  <1>4. ModeInv'
    BY <1>1, <1>2 DEF ModeInv, Todo
  <1>. QED  BY <1>3, <1>4

\* setting the mode, by the remote connection.
LEMMA ModeSwitch ==
  ASSUME NestingInv, SubscribersInv, ThreadInv, JoinInv, ModeInv, NEW t \in Services, SwitchMode(t)
  PROVE  JoinInv' /\ ModeInv'
  <1>1. /\ work[t] # <<>> /\ First(t) \in Ops(t) /\ First(t)[1] = "mode"
        /\ Argument(t) = First(t)[3] /\ First(t) \in Todo(t)
    BY NextOperation DEF SwitchMode
  <1>2. t = "Remote"
    BY <1>1, OnlyBy
  <1>3. First(t) = SetAIMode("on") \/ First(t) = SetAIMode("off")
    <2>1. First(t) \in Ops("Remote")
      BY <1>1, <1>2
    <2>. QED  BY <1>1, <2>1, Kinds DEF Ops
  <1>4. /\ running' = running /\ alive' = alive
        /\ aiModeEnabled' = First(t)[3] /\ alive[t]
    BY <1>1 DEF SwitchMode, threads, At
  <1>5. Replaced(work', t, <<>>)
    BY WorkAfterStep
  <1>6. ToSet(<<>>) = {}
    BY Replaces0
  <1>7. \A op \in Watched \ {First(t)} : op \in Todo("Remote")' <=> op \in Todo("Remote")
    BY <1>1, <1>2, <1>5, <1>6, WatchedKept
  <1>8. JoinOf("Landmark") \in Todo("Expression")' <=> JoinOf("Landmark") \in Todo("Expression")
    BY <1>1, <1>2, <1>5, WatchedKept
  <1>9. \A s \in Services : ~alive[s] => work'[s] = <<>>
    BY <1>4, <1>5, EndedStaysEmpty
  <1>10. /\ Rank(First(t)) = 7 /\ Rank(StartOf("Expression")) = 6 /\ Rank(StopOf("Expression")) = 6
         /\ Rank(JoinOf("Expression")) = 0 /\ Rank(JoinOf("Landmark")) = 0
         /\ Rank(SetAIMode("on")) = 7 /\ Rank(SetAIMode("off")) = 7
    BY <1>3, Ranks
  <1>11. /\ StartOf("Expression") \notin Todo("Remote") /\ StopOf("Expression") \notin Todo("Remote")
         /\ JoinOf("Expression") \notin Todo("Remote") /\ JoinOf("Landmark") \notin Todo("Remote")
    BY <1>2, <1>10, NothingDeeper
  <1>12. /\ \A op \in {SetAIMode("on"), SetAIMode("off")} :
               op = First(t) => op \notin Todo("Remote")'
         /\ \A op \in {SetAIMode("on"), SetAIMode("off")} : op # First(t) => op \notin Todo("Remote")
    <2>1. /\ SetAIMode("on")[1] \notin {"release", "asleep"}
          /\ SetAIMode("off")[1] \notin {"release", "asleep"}
      BY Kinds
    <2>2. \A op \in {SetAIMode("on"), SetAIMode("off")} :
             op = First(t) => op \notin Todo("Remote")'
      <3>1. ASSUME NEW op, op = First(t), op[1] \notin {"release", "asleep"}, Rank(op) = 7
            PROVE  op \notin Todo(t)'
        <4>1. Rank(op) \notin {1, 8, 11}
          BY <3>1
        <4>2. op \in Todo(t)' <=> op \in ToSet(<<>>)
          BY <1>1, <1>5, <3>1, <4>1, Membership
        <4>. QED  BY <1>6, <4>2
      <3>2. \A op \in {SetAIMode("on"), SetAIMode("off")} :
               op[1] \notin {"release", "asleep"} /\ Rank(op) = 7
        BY <1>10, <2>1
      <3>. QED  BY <1>2, <3>1, <3>2
    <2>3. \A op \in {SetAIMode("on"), SetAIMode("off")} : op # First(t) => op \notin Todo("Remote")
      BY <1>2, <1>10, NothingDeeper
    <2>. QED  BY <2>2, <2>3
  <1>13. /\ First(t) # StartOf("Expression") /\ First(t) # StopOf("Expression")
         /\ First(t) # JoinOf("Expression") /\ First(t) # StartOf("Landmark")
         /\ First(t) # StopOf("Landmark") /\ First(t) # JoinOf("Landmark")
    BY <1>1, Kinds
  <1>14. JoinInv'
    BY <1>4, <1>7, <1>8, <1>9, <1>13, AllWatched DEF ThreadInv, JoinInv
  <1>15. CASE First(t) = SetAIMode("on")
    <2>1. aiModeEnabled' = "on"
      BY <1>4, <1>15, Arguments
    <2>2. SetAIMode("on") # SetAIMode("off")
      BY Arguments
    <2>3. /\ SetAIMode("on") \notin Todo("Remote")' /\ SetAIMode("off") \notin Todo("Remote")'
          /\ StartOf("Expression") \notin Todo("Remote")'
      BY <1>7, <1>11, <1>12, <1>13, <1>15, <2>2, AllWatched
    <2>. QED  BY <1>14, <2>1, <2>3 DEF ModeInv
  <1>16. CASE First(t) = SetAIMode("off")
    <2>1. aiModeEnabled' = "off"
      BY <1>4, <1>16, Arguments
    <2>2. SetAIMode("on") # SetAIMode("off")
      BY Arguments
    <2>3. /\ SetAIMode("on") \notin Todo("Remote")' /\ SetAIMode("off") \notin Todo("Remote")'
      BY <1>7, <1>12, <1>16, <2>2, AllWatched
    <2>4. /\ SetAIMode("off") \in Todo("Remote") /\ StopOf("Landmark") \in Todo("Remote")
          /\ StartOf("Landmark") \notin Todo("Remote") /\ ~alive["Expression"]
      BY <1>1, <1>2, <1>11, <1>16 DEF ModeInv
    <2>5. /\ StopOf("Landmark") \in Todo("Remote")' /\ StartOf("Landmark") \notin Todo("Remote")'
          /\ StartOf("Expression") \notin Todo("Remote")'
      BY <1>7, <1>11, <1>13, <2>4, AllWatched
    <2>. QED  BY <1>4, <1>14, <2>1, <2>3, <2>4, <2>5 DEF ModeInv
  <1>. QED  BY <1>3, <1>15, <1>16

\* start(): by the remote connection, by a gesture, or by the terminal, which
\* does not start ExpressionService.
LEMMA ModeStart ==
  ASSUME NestingInv, SubscribersInv, ThreadInv, JoinInv, ModeInv, NEW t \in Services, StartService(t),
         ~meddled'
  PROVE  JoinInv' /\ ModeInv'
  <1>. DEFINE s == Of(t)
  <1>1. /\ work[t] # <<>> /\ First(t) \in Ops(t) /\ First(t)[1] = "start"
        /\ s = First(t)[2] /\ First(t) \in Todo(t)
    BY NextOperation DEF StartService
  <1>2. t \in {"Expression", "Remote", "Tui"}
    BY <1>1, OnlyBy
  <1>3. /\ First(t) = StartOf(s) /\ s \in Services
        /\ t # "Remote" => s # "Expression"
        /\ t = "Tui" => s # "Landmark"
        /\ t = "Remote" => s \in {"Expression", "Landmark", "Perception"}
    <2>1. CASE t = "Expression"
      <3>1. First(t) \in Ops("Expression")
        BY <1>1, <2>1
      <3>2. First(t) = StartOf("Perception") \/ First(t) = StartOf("Landmark")
        BY <1>1, <3>1, Kinds DEF Ops
      <3>. QED  BY <1>1, <2>1, <3>2, Whose
    <2>2. CASE t = "Remote"
      <3>1. First(t) \in Ops("Remote")
        BY <1>1, <2>2
      <3>2. \/ First(t) = StartOf("Perception") \/ First(t) = StartOf("Landmark")
            \/ First(t) = StartOf("Expression")
        BY <1>1, <3>1, Kinds DEF Ops
      <3>. QED  BY <1>1, <2>2, <3>2, Whose
    <2>3. CASE t = "Tui"
      <3>1. First(t) \in Ops("Tui")
        BY <1>1, <2>3
      <3>2. \/ First(t) = StartOf("Controller") \/ First(t) = StartOf("Remote")
            \/ First(t) = StartOf("Perception") \/ First(t) = StartOf("Expression")
        BY <1>1, <3>1, Kinds DEF Ops, Answer, InnerStores, Commands
      <3>3. s # "Expression"
        BY <2>3 DEF StartService, Meddling
      <3>. QED  BY <1>1, <2>3, <3>2, <3>3, Whose
    <2>. QED  BY <1>2, <2>1, <2>2, <2>3
  <1>4. /\ running' = [running EXCEPT ![s] = TRUE] /\ alive' = [alive EXCEPT ![s] = TRUE]
        /\ aiModeEnabled' = aiModeEnabled /\ alive[t]
    BY DEF StartService, data, At
  <1>5. Replaced(work', t, <<>>)
    BY WorkAfterStep
  <1>. HIDE DEF s
  <1>6. ToSet(<<>>) = {}
    BY Replaces0
  <1>7. /\ running' \in [Services -> BOOLEAN] /\ alive' \in [Services -> BOOLEAN]
        /\ running'[s] /\ alive'[s]
        /\ \A u \in Services : u # s => running'[u] = running[u] /\ alive'[u] = alive[u]
    BY <1>3, <1>4 DEF ThreadInv, JoinInv
  <1>8. First(t) # JoinOf("Landmark") /\ First(t) # JoinOf("Expression")
    BY <1>1, Kinds
  <1>9. /\ JoinOf("Landmark") \in Todo("Expression")' <=> JoinOf("Landmark") \in Todo("Expression")
        /\ JoinOf("Landmark") \in Todo("Remote")' <=> JoinOf("Landmark") \in Todo("Remote")
        /\ JoinOf("Expression") \in Todo("Remote")' <=> JoinOf("Expression") \in Todo("Remote")
    BY <1>1, <1>2, <1>5, <1>6, <1>8, WatchedKept, AllWatched
  <1>10. \A u \in Services : ~alive'[u] => work'[u] = <<>>
    BY <1>4, <1>5, <1>7, EndedStaysEmpty
  <1>11. JoinInv'
    BY <1>4, <1>7, <1>9, <1>10 DEF ThreadInv, JoinInv
  <1>12. CASE t = "Tui"
    <2>1. \A op \in Watched : op \in Todo("Remote")' <=> op \in Todo("Remote")
      BY <1>1, <1>5, <1>12, WatchedKept
    <2>2. alive'["Expression"] = alive["Expression"] /\ alive'["Landmark"] = alive["Landmark"]
      BY <1>3, <1>7, <1>12
    <2>3. ModeInv'
      BY <1>4, <2>1, <2>2, AllWatched DEF ModeInv
    <2>. QED  BY <1>11, <2>3
  <1>13. CASE t = "Expression"
    <2>1. \A op \in Watched : op \in Todo("Remote")' <=> op \in Todo("Remote")
      BY <1>1, <1>5, <1>13, WatchedKept
    <2>2. alive'["Expression"] = alive["Expression"]
      BY <1>3, <1>7, <1>13
    <2>3. aiModeEnabled = "off" => SetAIMode("on") \in Todo("Remote")
      BY <1>4, <1>13 DEF ModeInv
    <2>4. ModeInv'
      BY <1>4, <2>1, <2>2, <2>3, AllWatched DEF ModeInv
    <2>. QED  BY <1>11, <2>4
  <1>14. CASE t = "Remote"
    <2>1. \A op \in Watched \ {First(t)} : op \in Todo("Remote")' <=> op \in Todo("Remote")
      BY <1>1, <1>5, <1>6, <1>14, WatchedKept
    <2>2. /\ Rank(StartOf("Landmark")) = 8 /\ Rank(StartOf("Perception")) = 8
          /\ Rank(StartOf("Expression")) = 6 /\ Rank(StopOf("Expression")) = 6
          /\ Rank(JoinOf("Expression")) = 0 /\ Rank(JoinOf("Landmark")) = 0
          /\ Rank(SetAIMode("on")) = 7 /\ Rank(SetAIMode("off")) = 7
      BY Ranks
    <2>3. /\ First(t) # SetAIMode("on") /\ First(t) # SetAIMode("off")
          /\ First(t) # StopOf("Expression") /\ First(t) # StopOf("Landmark")
      BY <1>1, Kinds
    <2>4. CASE s = "Perception"
      <3>1. First(t) # StartOf("Expression") /\ First(t) # StartOf("Landmark")
        BY <1>3, <2>4, Whose
      <3>2. \A op \in Watched : op \in Todo("Remote")' <=> op \in Todo("Remote")
        BY <1>8, <2>1, <2>3, <3>1 DEF Watched
      <3>3. alive'["Expression"] = alive["Expression"] /\ alive'["Landmark"] = alive["Landmark"]
        BY <1>7, <2>4
      <3>4. ModeInv'
        BY <1>4, <3>2, <3>3, AllWatched DEF ModeInv
      <3>. QED  BY <1>11, <3>4
    <2>5. CASE s = "Expression"
      <3>1. First(t) = StartOf("Expression") /\ StartOf("Expression") # StartOf("Landmark")
        BY <1>3, <2>5, Whose
      <3>2. /\ SetAIMode("on") \in Todo("Remote") /\ SetAIMode("off") \notin Todo("Remote")
            /\ StartOf("Landmark") \in Todo("Remote")
        BY <1>1, <1>14, <3>1 DEF ModeInv
      <3>3. /\ SetAIMode("on") \in Todo("Remote")' /\ SetAIMode("off") \notin Todo("Remote")'
            /\ StartOf("Landmark") \in Todo("Remote")'
        BY <2>1, <2>3, <3>1, <3>2, AllWatched
      <3>4. ModeInv'
        BY <1>4, <3>3 DEF ModeInv
      <3>. QED  BY <1>11, <3>4
    <2>6. CASE s = "Landmark"
      <3>1. First(t) = StartOf("Landmark") /\ StartOf("Expression") # StartOf("Landmark")
        BY <1>3, <2>6, Whose
      <3>2. /\ SetAIMode("on") \notin Todo("Remote") /\ SetAIMode("off") \notin Todo("Remote")
            /\ StartOf("Expression") \notin Todo("Remote")
        BY <1>14, <2>2, <3>1, NothingDeeper
      <3>3. aiModeEnabled = "on"
        BY <1>1, <1>14, <3>1, <3>2 DEF ThreadInv, ModeInv
      <3>4. /\ SetAIMode("on") \notin Todo("Remote")' /\ SetAIMode("off") \notin Todo("Remote")'
            /\ StartOf("Expression") \notin Todo("Remote")'
        BY <2>1, <2>3, <3>1, <3>2, AllWatched
      <3>5. ModeInv'
        BY <1>4, <3>3, <3>4 DEF ModeInv
      <3>. QED  BY <1>11, <3>5
    <2>. QED  BY <1>3, <1>14, <2>4, <2>5, <2>6
  <1>. QED  BY <1>2, <1>12, <1>13, <1>14

\* stop(): by the remote connection, by a gesture, or by the terminal, which
\* does not stop ExpressionService.
LEMMA ModeStop ==
  ASSUME NestingInv, SubscribersInv, ThreadInv, JoinInv, ModeInv, NEW t \in Services, StopService(t),
         ~meddled'
  PROVE  JoinInv' /\ ModeInv'
  <1>. DEFINE s == Of(t)
              ops == IF running[s] THEN <<JoinOf(s)>> ELSE <<>>
  <1>1. /\ work[t] # <<>> /\ First(t) \in Ops(t) /\ First(t)[1] = "stop"
        /\ s = First(t)[2] /\ First(t) \in Todo(t)
    BY NextOperation DEF StopService
  <1>2. /\ First(t) = StopOf(s)
        /\ \/ t = "Expression" /\ s \in {"Perception", "Landmark"}
           \/ t = "Remote" /\ s \in {"Expression", "Landmark"}
           \/ t = "Tui" /\ s \in Services \ {"Expression", "Landmark"}
        /\ ToSet(<<JoinOf(s)>>) = {JoinOf(s)}
    BY JoinReplaced DEF StopService, Meddling, Startable
  <1>3. /\ running' = [running EXCEPT ![s] = FALSE] /\ alive' = alive
        /\ aiModeEnabled' = aiModeEnabled /\ alive[t]
    BY DEF StopService, data, At
  <1>4. Replaced(work', t, ops)
    BY WorkAfterStep
  <1>5. ToSet(ops) = IF running[s] THEN {JoinOf(s)} ELSE {}
    BY <1>2, Replaces0, Zenon
  <1>. HIDE DEF s, ops
  <1>6. /\ running' \in [Services -> BOOLEAN] /\ ~running'[s]
        /\ \A u \in Services : u # s => running'[u] = running[u]
        /\ \A u \in Services : running'[u] => running[u]
    BY <1>2, <1>3 DEF ThreadInv, JoinInv
  <1>7. \A u \in Services : ~alive[u] => work'[u] = <<>>
    BY <1>3, <1>4, EndedStaysEmpty
  <1>8. First(t) # JoinOf("Landmark") /\ First(t) # JoinOf("Expression")
    BY <1>1, Kinds
  <1>9. JoinOf("Expression") # JoinOf("Landmark") /\ JoinOf("Perception") # JoinOf("Landmark")
    BY Whose
  <1>10. CASE t = "Tui"
    <2>1. \A op \in Watched : op \in Todo("Remote")' <=> op \in Todo("Remote")
      BY <1>1, <1>4, <1>10, WatchedKept
    <2>2. JoinOf("Landmark") \in Todo("Expression")' <=> JoinOf("Landmark") \in Todo("Expression")
      BY <1>1, <1>4, <1>10, WatchedKept
    <2>3. /\ running'["Expression"] = running["Expression"]
          /\ running'["Landmark"] = running["Landmark"]
      BY <1>2, <1>6, <1>10
    <2>4. JoinInv'
      BY <1>3, <2>1, <2>2, <2>3, AllWatched DEF JoinInv
    <2>5. ModeInv'
      BY <1>3, <2>1, AllWatched DEF ModeInv
    <2>. QED  BY <2>4, <2>5
  <1>11. CASE t = "Expression"
    <2>1. \A op \in Watched : op \in Todo("Remote")' <=> op \in Todo("Remote")
      BY <1>1, <1>4, <1>11, WatchedKept
    <2>2. JoinOf("Landmark") \in Todo("Expression")'
            <=> JoinOf("Landmark") \in ToSet(ops) \/ JoinOf("Landmark") \in Todo("Expression")
      BY <1>1, <1>4, <1>8, <1>11, WatchedKept
    <2>3. ModeInv'
      BY <1>3, <2>1, AllWatched DEF ModeInv
    <2>4. running'["Expression"] = running["Expression"]
      BY <1>2, <1>6, <1>11
    <2>5. CASE s = "Perception"
      <3>1. running'["Landmark"] = running["Landmark"]
        BY <1>6, <2>5
      <3>2. JoinInv'
        BY <1>3, <1>6, <1>7, <2>1, <2>2, <2>4, <3>1, AllWatched DEF ThreadInv, JoinInv
      <3>. QED  BY <2>3, <3>2
    <2>6. CASE s = "Landmark"
      <3>1. running["Landmark"] => JoinOf("Landmark") \in Todo("Expression")'
        BY <1>5, <2>2, <2>6
      <3>2. JoinInv'
        BY <1>3, <1>6, <1>7, <2>1, <2>2, <2>4, <3>1, AllWatched DEF ThreadInv, JoinInv
      <3>. QED  BY <2>3, <3>2
    <2>. QED  BY <1>2, <1>11, <2>5, <2>6
  <1>12. CASE t = "Remote"
    <2>1. \A op \in Watched \ {First(t)} :
             op \in Todo("Remote")' <=> op \in ToSet(ops) \/ op \in Todo("Remote")
      BY <1>1, <1>4, <1>12, WatchedKept
    <2>2. JoinOf("Landmark") \in Todo("Expression")' <=> JoinOf("Landmark") \in Todo("Expression")
      BY <1>1, <1>4, <1>12, WatchedKept
    <2>3. /\ Rank(StopOf("Landmark")) = 8 /\ Rank(StopOf("Expression")) = 6
          /\ Rank(JoinOf("Expression")) = 0 /\ Rank(JoinOf("Landmark")) = 0
          /\ Rank(SetAIMode("on")) = 7 /\ Rank(SetAIMode("off")) = 7
          /\ Rank(StartOf("Expression")) = 6
      BY Ranks
    <2>4. JoinOf("Landmark") \notin Todo("Remote") /\ JoinOf("Expression") \notin Todo("Remote")
      BY <1>2, <1>12, <2>3, NothingDeeper
    <2>5. /\ First(t) # SetAIMode("on") /\ First(t) # SetAIMode("off")
          /\ First(t) # StartOf("Expression") /\ First(t) # StartOf("Landmark")
      BY <1>1, Kinds
    <2>6. /\ SetAIMode("on") \notin ToSet(ops) /\ SetAIMode("off") \notin ToSet(ops)
          /\ StartOf("Expression") \notin ToSet(ops) /\ StartOf("Landmark") \notin ToSet(ops)
          /\ StopOf("Expression") \notin ToSet(ops) /\ StopOf("Landmark") \notin ToSet(ops)
      <3>1. JoinOf(s)[1] = "join"
        BY DEF JoinOf
      <3>. QED  BY <1>5, <3>1, Kinds
    <2>7. \A op \in {SetAIMode("on"), SetAIMode("off"), StartOf("Expression"), StartOf("Landmark")} :
             op \in Todo("Remote")' <=> op \in Todo("Remote")
      BY <2>1, <2>5, <2>6, AllWatched
    <2>8. /\ JoinOf("Landmark") \in Todo("Remote")' <=> JoinOf("Landmark") \in ToSet(ops)
          /\ JoinOf("Expression") \in Todo("Remote")' <=> JoinOf("Expression") \in ToSet(ops)
      BY <1>8, <2>1, <2>4, AllWatched
    <2>9. CASE s = "Expression"
      <3>1. First(t) = StopOf("Expression") /\ StopOf("Expression") # StopOf("Landmark")
        BY <1>2, <2>9, Whose
      <3>2. StopOf("Landmark") \in Todo("Remote")' <=> StopOf("Landmark") \in Todo("Remote")
        BY <2>1, <2>6, <3>1, AllWatched
      <3>3. alive["Expression"] => JoinOf("Expression") \in Todo("Remote")'
        BY <1>5, <2>4, <2>8, <2>9 DEF ThreadInv, JoinInv
      <3>4. running'["Landmark"] = running["Landmark"]
        BY <1>6, <2>9
      <3>5. JoinInv'
        BY <1>3, <1>6, <1>7, <2>2, <2>4, <3>3, <3>4 DEF ThreadInv, JoinInv
      <3>6. ModeInv'
        BY <1>3, <2>4, <2>7, <3>2, <3>3 DEF ModeInv
      <3>. QED  BY <3>5, <3>6
    <2>10. CASE s = "Landmark"
      <3>1. First(t) = StopOf("Landmark")
        BY <1>2, <2>10
      <3>2. /\ SetAIMode("on") \notin Todo("Remote") /\ SetAIMode("off") \notin Todo("Remote")
            /\ StartOf("Expression") \notin Todo("Remote")
        BY <1>12, <2>3, <3>1, NothingDeeper
      <3>3. running'["Expression"] = running["Expression"]
        BY <1>6, <2>10
      <3>4. \/ ~alive["Landmark"] \/ JoinOf("Landmark") \in Todo("Remote")'
            \/ JoinOf("Landmark") \in Todo("Expression")
        BY <1>5, <2>4, <2>8, <2>10 DEF ThreadInv, JoinInv
      <3>5. JoinInv'
        BY <1>3, <1>6, <1>7, <2>2, <2>4, <3>3, <3>4 DEF ThreadInv, JoinInv
      <3>6. JoinOf("Landmark") \in Todo("Expression") => alive["Expression"]
        BY NothingDeeper DEF ThreadInv, JoinInv
      <3>7. aiModeEnabled = "off" => ~alive["Expression"]
        BY <3>2 DEF ModeInv
      <3>8. aiModeEnabled = "off" => ~alive["Landmark"] \/ JoinOf("Landmark") \in Todo("Remote")'
        BY <3>4, <3>6, <3>7
      <3>9. ModeInv'
        BY <1>3, <2>7, <3>2, <3>7, <3>8 DEF ModeInv
      <3>. QED  BY <3>5, <3>9
    <2>. QED  BY <1>2, <1>12, <2>9, <2>10
  <1>. QED  BY <1>2, <1>11, <1>12, <1>10

\* join() returns when the thread has ended.
LEMMA ModeJoin ==
  ASSUME NestingInv, SubscribersInv, ThreadInv, JoinInv, ModeInv, NEW t \in Services, JoinService(t)
  PROVE  JoinInv' /\ ModeInv'
  <1>. DEFINE s == Of(t)
  <1>1. /\ work[t] # <<>> /\ First(t) \in Ops(t) /\ First(t)[1] = "join"
        /\ s = First(t)[2] /\ ~alive[s]
    BY NextOperation DEF JoinService
  <1>2. t \in {"Expression", "Remote", "Tui"}
    BY <1>1, OnlyBy
  <1>3. /\ t = "Expression" => First(t) \in {JoinOf("Perception"), JoinOf("Landmark")}
        /\ t = "Remote" => First(t) \in {JoinOf("Expression"), JoinOf("Landmark")}
    <2>1. CASE t = "Expression"
      <3>1. First(t) \in Ops("Expression")
        BY <1>1, <2>1
      <3>. QED  BY <1>1, <2>1, <3>1, Kinds DEF Ops
    <2>2. CASE t = "Remote"
      <3>1. First(t) \in Ops("Remote")
        BY <1>1, <2>2
      <3>. QED  BY <1>1, <2>2, <3>1, Kinds DEF Ops
    <2>. QED  BY <2>1, <2>2
  <1>4. /\ running' = running /\ alive' = alive
        /\ aiModeEnabled' = aiModeEnabled /\ alive[t]
    BY DEF JoinService, threads, data, At
  <1>5. Replaced(work', t, <<>>)
    BY WorkAfterStep
  <1>. HIDE DEF s
  <1>6. ToSet(<<>>) = {}
    BY Replaces0
  <1>7. \A u \in Services : ~alive[u] => work'[u] = <<>>
    BY <1>4, <1>5, EndedStaysEmpty
  <1>8. /\ First(t) = JoinOf("Landmark") => ~alive["Landmark"]
        /\ First(t) = JoinOf("Expression") => ~alive["Expression"]
    BY <1>1, Whose
  <1>9. /\ First(t) # SetAIMode("on") /\ First(t) # SetAIMode("off")
        /\ First(t) # StartOf("Expression") /\ First(t) # StopOf("Expression")
        /\ First(t) # StartOf("Landmark") /\ First(t) # StopOf("Landmark")
    BY <1>1, Kinds
  <1>10. CASE t = "Tui"
    <2>1. /\ \A op \in Watched : op \in Todo("Remote")' <=> op \in Todo("Remote")
          /\ JoinOf("Landmark") \in Todo("Expression")' <=> JoinOf("Landmark") \in Todo("Expression")
      BY <1>1, <1>5, <1>10, WatchedKept
    <2>. QED  BY <1>4, <1>7, <2>1, ModeUnchanged
  <1>11. CASE t = "Expression"
    <2>1. \A op \in Watched : op \in Todo("Remote")' <=> op \in Todo("Remote")
      BY <1>1, <1>5, <1>11, WatchedKept
    <2>2. alive["Landmark"] => (JoinOf("Landmark") \in Todo("Expression")'
                                  <=> JoinOf("Landmark") \in Todo("Expression"))
      BY <1>1, <1>5, <1>6, <1>8, <1>11, WatchedKept
    <2>3. JoinInv'
      BY <1>4, <1>7, <2>1, <2>2, AllWatched DEF ThreadInv, JoinInv
    <2>4. ModeInv'
      BY <1>4, <2>1, AllWatched DEF ModeInv
    <2>. QED  BY <2>3, <2>4
  <1>12. CASE t = "Remote"
    <2>1. \A op \in Watched \ {First(t)} : op \in Todo("Remote")' <=> op \in Todo("Remote")
      BY <1>1, <1>5, <1>6, <1>12, WatchedKept
    <2>2. JoinOf("Landmark") \in Todo("Expression")' <=> JoinOf("Landmark") \in Todo("Expression")
      BY <1>1, <1>5, <1>12, WatchedKept
    <2>3. \A op \in Watched \ {JoinOf("Landmark"), JoinOf("Expression")} :
             op \in Todo("Remote")' <=> op \in Todo("Remote")
      BY <1>9, <2>1 DEF Watched
    <2>4. /\ alive["Landmark"] => (JoinOf("Landmark") \in Todo("Remote")'
                                     <=> JoinOf("Landmark") \in Todo("Remote"))
          /\ alive["Expression"] => (JoinOf("Expression") \in Todo("Remote")'
                                       <=> JoinOf("Expression") \in Todo("Remote"))
      BY <1>8, <2>1, AllWatched
    <2>5. JoinInv'
      BY <1>4, <1>7, <2>2, <2>4 DEF ThreadInv, JoinInv
    <2>6. \A op \in {SetAIMode("on"), SetAIMode("off"), StartOf("Expression"),
                     StopOf("Expression"), StartOf("Landmark"), StopOf("Landmark")} :
             op \in Todo("Remote")' <=> op \in Todo("Remote")
      BY <1>9, <2>1, AllWatched
    <2>7. ModeInv'
      BY <1>4, <2>4, <2>6 DEF ModeInv
    <2>. QED  BY <2>5, <2>7
  <1>. QED  BY <1>2, <1>11, <1>12, <1>10

\* The terminal's meddling is not forgotten.
LEMMA MeddledStays == ThreadInv /\ [Next]_vars => (meddled => meddled')
  BY DEF Next, Step, Perform, vars, threads, BeginRound, EndThread, LockPublisher, StoreData, TryLockData,
         PushResponse, WaitForResponse, WakeSpuriously, ServeQueue, PopResponse, SwitchMode,
         StartService, StopService, JoinService, ChangeSubscription

\* The threads in every step.
LEMMA ThreadStep ==
  NestingInv /\ SubscribersInv /\ ThreadInv /\ [Next]_vars => ThreadInv'
  <1>. SUFFICES ASSUME NestingInv, SubscribersInv, ThreadInv, [Next]_vars PROVE ThreadInv'
    OBVIOUS
  <1>1. CASE UNCHANGED vars
    BY <1>1 DEF vars, ThreadInv
  <1>2. ASSUME NEW t \in Services, Step(t) \/ WakeSpuriously(t)
        PROVE  ThreadInv'
    <2>0. \A k : At(t, k) => /\ alive[t] /\ work[t] # <<>> /\ First(t) \in Ops(t)
                             /\ First(t)[1] = k /\ Of(t) = First(t)[2]
                             /\ Argument(t) = First(t)[3]
      BY NextOperation
    <2>1. CASE EndThread(t)
      BY <2>1 DEF EndThread, ThreadInv, data
    <2>2. CASE ~EndThread(t)
      <3>1. PICK ops : Replaced(work', t, ops)
        BY <1>2, <2>2, WorkAfterStep, Zenon DEF Step, Perform
      <3>2. alive[t]
        BY <1>2, <2>2 DEF Step, Perform, BeginRound, LockPublisher, StoreData, TryLockData, PushResponse,
              WaitForResponse, WakeSpuriously, ServeQueue, PopResponse, SwitchMode, StartService,
              StopService, JoinService, ChangeSubscription, At
      <3>3. \A s \in Services : ~alive[s] => work'[s] = <<>>
        BY <3>1, <3>2, EndedStaysEmpty
      <3>4. CASE UNCHANGED threads /\ aiModeEnabled' = aiModeEnabled
        BY <3>3, <3>4 DEF threads, ThreadInv
      <3>5. CASE SwitchMode(t)
        <4>1. Argument(t) \in {"on", "off"}
          <5>1. First(t) \in Ops(t) /\ First(t)[1] = "mode" /\ Argument(t) = First(t)[3]
            BY <2>0, <3>5 DEF SwitchMode
          <5>2. t = "Remote"
            BY <5>1, OnlyBy
          <5>3. First(t) \in Ops("Remote")
            BY <5>1, <5>2
          <5>4. First(t) = SetAIMode("on") \/ First(t) = SetAIMode("off")
            BY <5>1, <5>3, Kinds DEF Ops
          <5>. QED  BY <5>1, <5>4, Arguments
        <4>. QED  BY <3>3, <3>5, <4>1 DEF SwitchMode, threads, ThreadInv
      <3>6. CASE StartService(t)
        <4>1. Of(t) \in Services
          <5>1. First(t) \in Ops(t) /\ First(t)[1] = "start" /\ Of(t) = First(t)[2]
            BY <2>0, <3>6 DEF StartService
          <5>. QED  BY <5>1, Kinds, Whose DEF Ops, Answer, InnerStores, Commands
        <4>2. /\ running' = [running EXCEPT ![Of(t)] = TRUE]
              /\ alive' = [alive EXCEPT ![Of(t)] = TRUE]
              /\ aiModeEnabled' = aiModeEnabled
              /\ terminated' = (~running[Of(t)] /\ Joinable(Of(t)))
              /\ meddled' = (meddled \/ Meddling(t))
          BY <3>6 DEF StartService, data
        <4>3. terminated' \in BOOLEAN /\ meddled' \in BOOLEAN
          BY <4>2
        <4>4. /\ running' \in [Services -> BOOLEAN] /\ alive' \in [Services -> BOOLEAN]
              /\ \A s \in Services : s # Of(t) => running'[s] = running[s] /\ alive'[s] = alive[s]
              /\ alive'[Of(t)]
          BY <4>1, <4>2 DEF ThreadInv
        <4>. QED  BY <3>3, <4>2, <4>3, <4>4 DEF ThreadInv
      <3>7. CASE StopService(t)
        <4>1. /\ running' = [running EXCEPT ![Of(t)] = FALSE] /\ alive' = alive
              /\ terminated' = terminated /\ aiModeEnabled' = aiModeEnabled
              /\ meddled' = (meddled \/ Meddling(t))
          BY <3>7 DEF StopService, data
        <4>2. meddled' \in BOOLEAN
          BY <4>1
        <4>3. /\ running' \in [Services -> BOOLEAN]
              /\ \A s \in Services : running'[s] => running[s]
          BY <4>1 DEF ThreadInv
        <4>. QED  BY <3>3, <4>1, <4>2, <4>3 DEF ThreadInv
      <3>8. \/ UNCHANGED threads /\ aiModeEnabled' = aiModeEnabled
            \/ SwitchMode(t) \/ StartService(t) \/ StopService(t)
        BY <1>2, <2>2 DEF Step, Perform, BeginRound, LockPublisher, StoreData, TryLockData, PushResponse,
              WaitForResponse, WakeSpuriously, ServeQueue, PopResponse, JoinService,
              ChangeSubscription, data
      <3>. QED  BY <3>4, <3>5, <3>6, <3>7, <3>8
    <2>. QED  BY <2>1, <2>2
  <1>. QED  BY <1>1, <1>2 DEF Next

\* The joins and the mode in every step.
LEMMA ModeStep ==
  NestingInv /\ SubscribersInv /\ ThreadInv /\ UnmeddledInv /\ [Next]_vars => UnmeddledInv'
  <1>. SUFFICES ASSUME NestingInv, SubscribersInv, ThreadInv, JoinInv, ModeInv, [Next]_vars,
                       ~meddled'
                PROVE  JoinInv' /\ ModeInv'
    BY MeddledStays DEF UnmeddledInv
  <1>1. CASE UNCHANGED vars
    BY <1>1 DEF vars, JoinInv, ModeInv, Todo
  <1>2. ASSUME NEW t \in Services, Step(t) \/ WakeSpuriously(t)
        PROVE  JoinInv' /\ ModeInv'
    <2>0. NestingInv => \A k : At(t, k) => alive[t] /\ work[t] # <<>> /\ First(t)[1] = k
      BY NextOperation
    <2>1. CASE EndThread(t)
      BY <2>1, ModeEnd
    <2>2. CASE BeginRound(t)
      BY <2>2, ModeRound
    <2>3. CASE LockPublisher(t)
      BY <2>3, ModePublish
    <2>4. CASE SwitchMode(t)
      BY <2>4, ModeSwitch
    <2>5. CASE StartService(t)
      BY <2>5, ModeStart
    <2>6. CASE StopService(t)
      BY <2>6, ModeStop
    <2>7. CASE JoinService(t)
      BY <2>7, ModeJoin
    <2>8. CASE \/ StoreData(t) \/ PushResponse(t) \/ PopResponse(t) \/ ChangeSubscription(t)
               \/ WakeSpuriously(t)
      <3>1. Replaced(work', t, <<>>)
        BY <2>8, WorkAfterStep, Zenon
      <3>2. /\ running' = running /\ alive' = alive
            /\ aiModeEnabled' = aiModeEnabled
            /\ \E k \in {"store", "push", "pop", "subscribe", "unsubscribe", "asleep"} : At(t, k)
        BY <2>8 DEF StoreData, PushResponse, PopResponse, ChangeSubscription, WakeSpuriously,
              threads, data
      <3>3. /\ alive[t] /\ work[t] # <<>>
            /\ First(t)[1] \notin {"mode", "start", "stop", "join"}
        BY <2>0, <3>2
      <3>. QED  BY <3>1, <3>2, <3>3, ModeDone
    <2>9. CASE TryLockData(t)
      <3>1. /\ running' = running /\ alive' = alive
            /\ aiModeEnabled' = aiModeEnabled /\ At(t, "answer")
        BY <2>9 DEF TryLockData, threads, data
      <3>2. alive[t] /\ work[t] # <<>> /\ First(t) \in Ops(t) /\ First(t)[1] = "answer"
        BY <3>1, NextOperation
      <3>3. t \notin {"Expression", "Remote"}
        BY <3>2, OnlyBy
      <3>. QED  BY <2>9, <3>1, <3>2, <3>3, WorkAfterStep, ModeKept
    <2>10. CASE WaitForResponse(t)
      <3>1. /\ running' = running /\ alive' = alive
            /\ aiModeEnabled' = aiModeEnabled /\ At(t, "wait")
        BY <2>10 DEF WaitForResponse, threads, data
      <3>2. alive[t] /\ work[t] # <<>> /\ First(t) \in Ops(t) /\ First(t)[1] = "wait"
        BY <3>1, NextOperation
      <3>3. t = "Expression" /\ First(t) # JoinOf("Landmark")
        BY <3>2, OnlyBy, WatchedKinds
      <3>4. JoinOf("Landmark") \notin ToSet(<<Asleep>>)
        <4>1. ToSet(<<Asleep>>) = {Asleep}
          BY DEF ToSet
        <4>. QED  BY <4>1, Kinds
      <3>. QED  BY <2>10, <3>1, <3>2, <3>3, <3>4, WorkAfterStep, ModeKept
    <2>11. CASE ServeQueue(t)
      <3>1. /\ running' = running /\ alive' = alive
            /\ aiModeEnabled' = aiModeEnabled /\ At(t, "serve")
        BY <2>11 DEF ServeQueue, threads, data
      <3>2. alive[t] /\ work[t] # <<>> /\ First(t)[1] = "serve"
        BY <3>1, NextOperation
      <3>3. CASE gestures = 0
        BY <2>11, <3>1, <3>2, <3>3, WorkAfterStep, ModeDone
      <3>4. CASE gestures # 0
        <4>. DEFINE ops == Gesture \o <<Pop, Serve>>
        <4>1. /\ t = "Expression"
              /\ ToSet(ops) = {Publish("Expression", "StopPerceptionRequest"),
                               Publish("Expression", "ControlData"),
                               Publish("Expression", "StartPerceptionRequest"), Pop, Serve}
          BY <3>1, GestureReplaced
        <4>2. Replaced(work', t, ops)
          BY <2>11, <3>4, WorkAfterStep
        <4>. HIDE DEF ops
        <4>3. JoinOf("Landmark") \notin ToSet(ops) /\ First(t) # JoinOf("Landmark")
          BY <3>2, <4>1, Kinds
        <4>. QED  BY <3>1, <3>2, <4>1, <4>2, <4>3, ModeKept
      <3>. QED  BY <3>3, <3>4
    <2>. QED  BY <1>2, <2>1, <2>2, <2>3, <2>4, <2>5, <2>6, <2>7, <2>8, <2>9, <2>10, <2>11 DEF Step, Perform
  <1>. QED  BY <1>1, <1>2 DEF Next

\* At the start the mode is on and no thread has to end.
LEMMA ModeInit == Init => ThreadInv /\ UnmeddledInv
  <1>. SUFFICES ASSUME Init PROVE ThreadInv /\ JoinInv /\ ModeInv
    BY DEF UnmeddledInv
  <1>1. Todo("Remote") = {} /\ Todo("Expression") = {}
    BY DEF Init, Todo, ToSet
  <1>. QED  BY <1>1 DEF Init, ThreadInv, JoinInv, ModeInv

\* PublisherLocks: when AIModeOffCall has been published, neither a gesture nor
\* the tracker moves the robot until AIModeOnCall, unless the terminal started
\* or stopped ExpressionService.
THEOREM RemoteKeepsBody == Spec => []RemoteHasBody
  <1>1. Init => NestingInv /\ SubscribersInv /\ ThreadInv /\ UnmeddledInv
    BY NestingInit, ModeInit
  <1>2. NestingInv /\ SubscribersInv /\ ThreadInv /\ UnmeddledInv /\ [Next]_vars
          => NestingInv' /\ SubscribersInv' /\ ThreadInv' /\ UnmeddledInv'
    BY NestingStep, ThreadStep, ModeStep
  <1>. QED  BY <1>1, <1>2, ModeSettled, PTL DEF Spec

\* No service is in a list of subscribers twice, and no response is popped that
\* is not there.
LEMMA LocksTyped == SubscribersInv /\ ThreadInv /\ CountInv => TypeOK
  <1>. SUFFICES ASSUME SubscribersInv, ThreadInv, CountInv PROVE TypeOK
    OBVIOUS
  <1>1. gestures \in 0 .. MaxInputs
    <2>1. Bringing("VoiceAgent") \in Nat /\ Bringing("Tui") \in Nat
      BY BringingRange
    <2>. QED  BY <2>1, MaxInputsIsNatural DEF CountInv
  <1>2. \A s \in Services : IsInjective(subscribers[s])
    <2>1. /\ IsInjective(<<"Perception", "Controller", "Landmark">>)
          /\ IsInjective(<<"Landmark", "Tui">>) /\ IsInjective(<<"Landmark", "Tui", "Remote">>)
          /\ IsInjective(<<"Expression", "Controller">>)
      BY DEF IsInjective
    <2>2. /\ IsInjective(<<"Landmark", "VoiceAgent", "Tui">>)
          /\ IsInjective(<<"Landmark", "VoiceAgent", "Tui", "Remote">>)
          /\ IsInjective(<<"Expression", "Perception", "Controller", "Landmark">>)
      BY DEF IsInjective
    <2>3. IsInjective(subscribers["Expression"]) /\ IsInjective(subscribers["Remote"])
      BY <2>1, <2>2, Zenon DEF SubscribersInv
    <2>4. IsInjective(subscribers["Perception"]) /\ IsInjective(subscribers["Controller"])
      BY <2>1, <2>2, Zenon DEF SubscribersInv
    <2>5. \A s \in {"Landmark", "VoiceAgent", "Tui"} : IsInjective(subscribers[s])
      BY <2>1, Zenon DEF SubscribersInv
    <2>. QED  BY <2>3, <2>4, <2>5
  <1>. QED  BY <1>1, <1>2 DEF TypeOK, ThreadInv

\* PublisherLocks: its variables have their types; in particular no subscriber
\* is called twice and the queue of responses never underflows.
THEOREM LocksTypeCorrect == Spec => []TypeOK
  <1>1. Init => NestingInv /\ SubscribersInv /\ ThreadInv /\ CountInv
    BY NestingInit, ModeInit, CountInit
  <1>2. NestingInv /\ SubscribersInv /\ ThreadInv /\ CountInv /\ [Next]_vars
          => NestingInv' /\ SubscribersInv' /\ ThreadInv' /\ CountInv'
    BY NestingStep, ThreadStep, CountStep
  <1>. QED  BY <1>1, <1>2, LocksTyped, PTL DEF Spec

-----------------------------------------------------------------------------
(* The queue of StateMachine.                                              *)

\* Every step keeps the inductive invariant.
LEMMA LoopStep == LoopInv /\ [LoopNext]_loopVars => LoopInv'
  <1>. SUFFICES ASSUME LoopInv, [LoopNext]_loopVars PROVE LoopInv'
    OBVIOUS
  <1>. USE LimitsAssumption DEF LoopInv, LoopTypeOK, LoopLockInv, QueueInv, NoLostWakeup
  <1>1. CASE PushEvent
    BY <1>1 DEF PushEvent
  <1>2. CASE NotifyPush
    BY <1>2 DEF NotifyPush, Woken
  <1>3. CASE Stop
    BY <1>3 DEF Stop
  <1>4. CASE NotifyStop
    BY <1>4 DEF NotifyStop, Woken
  <1>5. CASE Join
    BY <1>5 DEF Join
  <1>6. CASE CheckRunning
    BY <1>6 DEF CheckRunning
  <1>7. CASE PostTimer
    BY <1>7 DEF PostTimer
  <1>8. CASE LockQueue
    BY <1>8 DEF LockQueue
  <1>9. CASE TestPredicate
    BY <1>9 DEF TestPredicate, Predicate
  <1>10. CASE Block
    BY <1>10 DEF Block
  <1>11. CASE Relock
    BY <1>11 DEF Relock, Overdue
  <1>12. CASE WaitTimesOut
    BY <1>12 DEF WaitTimesOut, Overdue
  <1>13. CASE PopEvent
    BY <1>13 DEF PopEvent, AfterPop
  <1>14. CASE Dispatch
    <2>1. CASE UNCHANGED <<timers, armed>>
      BY <1>14, <2>1 DEF Dispatch
    <2>2. CASE armed < MaxTimers /\ armed' = armed + 1 /\ timers' = timers + 1
      <3>1. timers' <= armed'
        BY <2>2, <1>14 DEF Dispatch
      <3>2. timers' \in 0 .. MaxTimers /\ armed' \in 0 .. MaxTimers /\ due' \in 0 .. timers'
        BY <2>2, <3>1, <1>14 DEF Dispatch
      <3>. QED  BY <1>14, <2>2, <3>2 DEF Dispatch
    <2>. QED  BY <1>14, <2>1, <2>2 DEF Dispatch
  <1>15. CASE WakeLoop
    BY <1>15 DEF WakeLoop
  <1>16. CASE Clock
    BY <1>16 DEF Clock
  <1>17. CASE UNCHANGED loopVars
    BY <1>17 DEF loopVars
  <1>. QED
    BY <1>1, <1>2, <1>3, <1>4, <1>5, <1>6, <1>7, <1>8, <1>9,
       <1>10, <1>11, <1>12, <1>13, <1>14, <1>15, <1>16, <1>17
    DEF LoopNext, Worker, Caller

\* The invariant of the worker's lock and of the counts.
THEOREM LoopInvariant == LoopSpec => []LoopInv
  <1>1. LoopInit => LoopInv
    BY LimitsAssumption DEF LoopInit, LoopInv, LoopTypeOK, LoopLockInv, QueueInv, NoLostWakeup
  <1>. QED  BY <1>1, LoopStep, PTL DEF LoopSpec

\* The queue, the timers and the worker of StateMachine keep their types: a pop
\* never finds the queue empty, and no more timers are due than were armed.
THEOREM LoopTypeCorrect == LoopSpec => []LoopTypeOK
  <1>1. LoopInv => LoopTypeOK
    BY DEF LoopInv
  <1>. QED  BY LoopInvariant, <1>1, PTL

\* When the worker of StateMachine::loop sleeps on a queue that is not empty,
\* the notification of the postEvent that filled it is still to come.
THEOREM WakeupNeverLost == LoopSpec => []NoLostWakeup
  <1>1. LoopInv => NoLostWakeup
    BY DEF LoopInv
  <1>. QED  BY LoopInvariant, <1>1, PTL
=============================================================================
