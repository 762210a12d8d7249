-------------------------- MODULE GuardNodesProofs -------------------------
(***************************************************************************)
(* How far the guarded nodes, messages and behaviours lag behind the       *)
(* robot, for any set of managed nodes, any depth of the queues and any    *)
(* timeout.                                                                *)
(***************************************************************************)
EXTENDS GuardNodesProps, FiniteSetTheorems, SequenceTheorems, TLAPS

Last(queue) == queue[Len(queue)]

\* What is followed of the robot: its value, the messages that tell of it and the
\* guard's view of it.
Value == IF watched = "state" THEN state ELSE mode
Wire  == IF watched = "state" THEN stateWire ELSE modeWire
Seen  == IF watched = "state" THEN seenState ELSE seenMode
Age   == IF watched = "state" THEN stateAge ELSE modeAge

RightValue(v) == IF watched = "state" THEN v = RequiredState
                                      ELSE RequireAutonomous => v = "autonomous"

Believing == RightValue(Seen) /\ Fresh(Age)

\* The guard holds the nodes active, or is about to change them.
Engaged == currentlyActive \/ ~Idle

Blocking == program = "lifecycle" /\ Flaky # {}

\* For how long the switch in progress may still block.
Ahead == Range(todo) \cap Flaky
Left == ServiceWait * Cardinality(Ahead) - waited

\* One message may keep the nodes active for this long.
Serving == UpdateTimeout + 2 * SwitchTime

\* For how long the message served last may still do so.
Rem ==
  CASE Believing                                       -> Serving - Age
    [] ~Believing /\ ~Idle /\ ~currentlyActive         -> Left + SwitchTime
    [] ~Believing /\ ~Idle /\ currentlyActive          -> Left
    [] ~Believing /\ Idle /\ currentlyActive           -> SwitchTime + IF "check" \in due THEN 0 ELSE 1
    [] ~Believing /\ Idle /\ ~currentlyActive          -> 0

HistTypeOK == TypeOK /\ watched \in {"state", "mode"} /\ wrong \in 0 .. Lag + 1

\* The clock stands while the robot is right; only a robot that is up republishes.
ClockOK ==
  /\ Right => wrong = 0
  /\ "state" \in due \/ "mode" \in due => up

\* A switch is where the flag and the nodes say it is.
SwitchOK ==
  /\ waited > 0 => todo # << >> /\ Head(todo) \in Flaky
  /\ program # "lifecycle" => Idle /\ ~currentlyActive /\ "check" \notin due
  /\ program = "lifecycle" => answer # "passed"
  /\ ~Idle /\ "check" \notin due => (Allowed <=> ~currentlyActive)
  /\ ~Engaged => active \subseteq Flaky
  /\ ~Idle /\ currentlyActive => active \ Flaky \subseteq Range(todo)

\* A guard that never blocks: a message is as old as its period.
PromptOK ==
  ~Blocking =>
    /\ Believing => wrong <= Age
    /\ \A i \in DOMAIN Wire : RightValue(Wire[i]) => wrong = 0
    /\ ~Idle => "check" \notin due
    /\ Engaged => wrong <= UpdateTimeout + 1
    /\ Idle /\ currentlyActive /\ "check" \notin due => wrong <= UpdateTimeout
    /\ answer = "passed" => wrong <= UpdateTimeout

\* A guard that blocks: every right message still in its queue may be served once.
BudgetOK ==
  Blocking /\ ~Right =>
    /\ Believing \/ Engaged => wrong + Rem <= Lag
    /\ \A i \in DOMAIN Wire : RightValue(Wire[i]) => wrong + Rem + i * Serving <= Lag

GuardInv == HistTypeOK /\ ClockOK /\ SwitchOK /\ PromptOK /\ BudgetOK

----------------------------------------------------------------------------
(* Queues.                                                                 *)

LEMMA DepthIsNat == Depth \in Nat /\ Depth >= 1
BY NodesAssumption

LEMMA QueueIsSeq ==
  ASSUME NEW V, NEW q
  PROVE  q \in QueueOf(V) <=> q \in Seq(V) /\ Len(q) <= Depth
<1>1. ASSUME q \in QueueOf(V) PROVE q \in Seq(V) /\ Len(q) <= Depth
  <2>1. PICK n \in 0 .. Depth : q \in [1 .. n -> V]
    BY <1>1 DEF QueueOf
  <2>2. q \in Seq(V)
    BY <2>1, SeqDef, DepthIsNat
  <2>3. Len(q) = n
    BY <2>1, <2>2, LenProperties, DepthIsNat
  <2>4. QED
    BY <2>1, <2>2, <2>3, DepthIsNat
<1>2. ASSUME q \in Seq(V), Len(q) <= Depth PROVE q \in QueueOf(V)
  BY <1>2, LenProperties, DepthIsNat DEF QueueOf
<1>3. QED
  BY <1>1, <1>2

LEMMA EmptyQueue ==
  ASSUME NEW V
  PROVE  << >> \in QueueOf(V)
<1>1. << >> \in Seq(V) /\ Len(<< >>) <= Depth
  BY DepthIsNat
<1>2. QED
  BY <1>1, QueueIsSeq

LEMMA QueueDomain ==
  ASSUME NEW V, NEW q \in QueueOf(V)
  PROVE  DOMAIN q = 1 .. Len(q) /\ Len(q) \in 0 .. Depth /\ (q # << >> => Len(q) > 0)
<1>1. q \in Seq(V) /\ Len(q) <= Depth
  BY QueueIsSeq
<1>2. QED
  BY <1>1, LenProperties, EmptySeq, DepthIsNat

\* What is delivered, and what stays.
LEMMA TailOfQueue ==
  ASSUME NEW V, NEW q \in QueueOf(V), q # << >>
  PROVE  /\ Head(q) \in V /\ Head(q) = q[1] /\ 1 \in DOMAIN q
         /\ Tail(q) \in QueueOf(V)
         /\ Tail(q) # << >> => Last(Tail(q)) = Last(q)
         /\ Tail(q) = << >> => Head(q) = Last(q)
         /\ \A i \in DOMAIN Tail(q) : i + 1 \in DOMAIN q /\ Tail(q)[i] = q[i + 1]
<1>1. q \in Seq(V) /\ Len(q) <= Depth /\ DOMAIN q = 1 .. Len(q)
  BY QueueIsSeq, QueueDomain
<1>2. /\ Head(q) \in V /\ Tail(q) \in Seq(V) /\ Len(Tail(q)) = Len(q) - 1
      /\ \A i \in 1 .. Len(Tail(q)) : Tail(q)[i] = q[i + 1]
  BY <1>1, HeadTailProperties
<1>3. Len(q) \in Nat \ {0} /\ Head(q) = q[1]
  BY <1>1, EmptySeq
<1>4. Tail(q) \in QueueOf(V)
  <2>1. Len(Tail(q)) <= Depth
    BY <1>1, <1>2, <1>3, DepthIsNat
  <2>2. QED
    BY <1>2, <2>1, QueueIsSeq
<1>5. DOMAIN Tail(q) = 1 .. Len(q) - 1
  BY <1>2, <1>4, QueueDomain
<1>6. ASSUME Tail(q) # << >> PROVE Last(Tail(q)) = Last(q)
  <2>1. Len(Tail(q)) \in 1 .. Len(Tail(q))
    BY <1>2, <1>6, EmptySeq
  <2>2. Tail(q)[Len(Tail(q))] = q[Len(Tail(q)) + 1]
    BY <1>2, <2>1
  <2>3. Len(Tail(q)) + 1 = Len(q)
    BY <1>2, <1>3
  <2>4. QED
    BY <2>2, <2>3 DEF Last
<1>7. ASSUME Tail(q) = << >> PROVE Head(q) = Last(q)
  <2>1. Len(q) = 1
    BY <1>2, <1>3, <1>7, EmptySeq
  <2>2. QED
    BY <1>3, <2>1 DEF Last
<1>8. ASSUME NEW i \in DOMAIN Tail(q) PROVE i + 1 \in DOMAIN q /\ Tail(q)[i] = q[i + 1]
  <2>1. i \in 1 .. Len(q) - 1 /\ i \in 1 .. Len(Tail(q))
    BY <1>2, <1>5
  <2>2. i + 1 \in 1 .. Len(q)
    BY <1>3, <2>1
  <2>3. QED
    BY <1>1, <1>2, <2>1, <2>2
<1>9. 1 \in DOMAIN q
  BY <1>1, <1>3
<1>10. QED
  BY <1>2, <1>3, <1>4, <1>6, <1>7, <1>8, <1>9

\* What is published is the last of the queue, and what was there moves forward.
LEMMA PublishedIsLast ==
  ASSUME NEW V, NEW q \in QueueOf(V), NEW e \in V,
         NEW r, r = KeepLast(Append(q, e))
  PROVE  /\ r \in QueueOf(V) /\ r # << >> /\ Last(r) = e
         /\ \A i \in DOMAIN r :
              \/ i = Len(r) /\ r[i] = e
              \/ i < Depth /\ \E j \in DOMAIN q : i <= j /\ r[i] = q[j]
<1> DEFINE a == Append(q, e)
<1>1. q \in Seq(V) /\ Len(q) \in 0 .. Depth /\ DOMAIN q = 1 .. Len(q)
  BY QueueIsSeq, QueueDomain
<1>2. /\ a \in Seq(V) /\ a # << >> /\ Len(a) = Len(q) + 1
      /\ \A i \in 1 .. Len(q) : a[i] = q[i]
      /\ a[Len(q) + 1] = e
  BY <1>1, AppendProperties
<1>3. r = KeepLast(a)
  OBVIOUS
<1> HIDE DEF a
<1>4. CASE Len(q) < Depth
  <2>1. r = a
    <3>1. ~(Len(a) > Depth)
      BY <1>1, <1>2, <1>4, DepthIsNat
    <3>2. QED
      BY <1>3, <3>1 DEF KeepLast
  <2>2. r \in QueueOf(V)
    BY <1>1, <1>2, <1>4, <2>1, QueueIsSeq, DepthIsNat
  <2>3. DOMAIN r = 1 .. Len(q) + 1 /\ Len(r) = Len(q) + 1
    BY <1>2, <2>1, LenProperties
  <2>4. Last(r) = e
    BY <1>2, <2>1, <2>3 DEF Last
  <2>5. ASSUME NEW i \in DOMAIN r
        PROVE  \/ i = Len(r) /\ r[i] = e
               \/ i < Depth /\ \E j \in DOMAIN q : i <= j /\ r[i] = q[j]
    <3>1. CASE i = Len(q) + 1
      BY <1>2, <2>1, <2>3, <3>1
    <3>2. CASE i # Len(q) + 1
      <4>1. i \in 1 .. Len(q) /\ i < Depth
        BY <1>1, <1>4, <2>3, <3>2, DepthIsNat
      <4>2. r[i] = q[i] /\ i \in DOMAIN q /\ i <= i
        BY <1>1, <1>2, <2>1, <4>1
      <4>3. QED
        BY <4>1, <4>2
    <3>3. QED
      BY <3>1, <3>2
  <2>6. QED
    BY <1>2, <2>1, <2>2, <2>4, <2>5
<1>5. CASE Len(q) = Depth
  <2>1. r = Tail(a)
    <3>1. Len(a) > Depth
      BY <1>1, <1>2, <1>5, DepthIsNat
    <3>2. QED
      BY <1>3, <3>1 DEF KeepLast
  <2>2. /\ r \in Seq(V) /\ Len(r) = Depth
        /\ \A i \in 1 .. Len(r) : r[i] = a[i + 1]
    BY <1>2, <1>5, <2>1, HeadTailProperties, DepthIsNat
  <2>3. r \in QueueOf(V) /\ DOMAIN r = 1 .. Depth
    BY <2>2, QueueIsSeq, QueueDomain, DepthIsNat
  <2>4. r[Depth] = e /\ Last(r) = e
    <3>1. Depth \in 1 .. Len(r)
      BY <2>2, DepthIsNat
    <3>2. r[Depth] = a[Depth + 1]
      BY <2>2, <3>1
    <3>3. QED
      BY <1>2, <1>5, <2>2, <3>2 DEF Last
  <2>5. r # << >>
    BY <2>2, DepthIsNat
  <2>6. ASSUME NEW i \in DOMAIN r
        PROVE  \/ i = Len(r) /\ r[i] = e
               \/ i < Depth /\ \E j \in DOMAIN q : i <= j /\ r[i] = q[j]
    <3>1. CASE i = Depth
      BY <2>2, <2>4, <3>1
    <3>2. CASE i # Depth
      <4>1. i \in 1 .. Depth - 1 /\ i < Depth /\ i + 1 \in 1 .. Len(q) /\ i <= i + 1
        BY <1>5, <2>3, <3>2, DepthIsNat
      <4>2. r[i] = q[i + 1] /\ i + 1 \in DOMAIN q
        BY <1>1, <1>2, <2>2, <2>3, <4>1
      <4>3. QED
        BY <4>1, <4>2
    <3>3. QED
      BY <3>1, <3>2
  <2>7. QED
    BY <2>3, <2>4, <2>5, <2>6
<1>6. Len(q) < Depth \/ Len(q) = Depth
  <2>1. Len(q) \in 0 .. Depth
    BY <1>1
  <2>2. QED
    BY <2>1, DepthIsNat
<1>7. QED
  BY <1>4, <1>5, <1>6

----------------------------------------------------------------------------
(* The managed nodes and those still to be asked.                          *)

LEMMA ManagedIsSeq ==
  /\ Managed \in Seq(Nodes) /\ DOMAIN Managed = 1 .. Len(Managed) /\ Len(Managed) \in Nat
  /\ Range(Managed) = Nodes
<1>1. Managed \in Seq(Nodes)
  BY NodesAssumption DEF Nodes
<1>2. QED
  BY <1>1, LenProperties DEF Nodes, Range

LEMMA FlakyIsFinite ==
  /\ IsFiniteSet(Nodes) /\ Flaky \subseteq Nodes /\ IsFiniteSet(Flaky)
  /\ Cardinality(Flaky) \in Nat /\ (Flaky # {} => Cardinality(Flaky) >= 1)
<1>1. IsFiniteSet(Nodes)
  <2>1. Managed \in Surjection(1 .. Len(Managed), Nodes)
    <3>1. Managed \in [1 .. Len(Managed) -> Nodes]
      BY ManagedIsSeq, LenProperties
    <3>2. \A n \in Nodes : \E i \in 1 .. Len(Managed) : Managed[i] = n
      BY ManagedIsSeq DEF Nodes
    <3>3. QED
      BY <3>1, <3>2 DEF Surjection
  <2>2. IsFiniteSet(1 .. Len(Managed))
    BY ManagedIsSeq, FS_Interval
  <2>3. QED
    BY <2>1, <2>2, FS_Surjection
<1>2. Flaky \subseteq Nodes
  BY NodesAssumption DEF Nodes
<1>3. IsFiniteSet(Flaky)
  BY <1>1, <1>2, FS_Subset
<1>4. Cardinality(Flaky) \in Nat /\ (Flaky # {} => Cardinality(Flaky) # 0)
  BY <1>3, FS_CardinalityType, FS_EmptySet
<1>5. QED
  BY <1>1, <1>2, <1>3, <1>4

\* ServiceWait times a number of nodes, as far as it is needed.
LEMMA WaitTimes ==
  ASSUME NEW c \in Nat
  PROVE  /\ ServiceWait * c \in Nat
         /\ c >= 1 => ServiceWait * c >= ServiceWait /\ ServiceWait * (c - 1) = ServiceWait * c - ServiceWait
         /\ \A d \in Nat : c <= d => ServiceWait * c <= ServiceWait * d
<1>1. ServiceWait \in Nat /\ ServiceWait >= 1
  BY NodesAssumption
<1>2. ServiceWait * c \in Nat
  BY <1>1
<1>3. ASSUME NEW d \in Nat, c <= d PROVE ServiceWait * c <= ServiceWait * d
  <2>1. PICK k \in Nat : d = c + k
    <3>1. d - c \in Nat /\ d = c + (d - c)
      BY <1>3
    <3>2. QED
      BY <3>1
  <2>2. ServiceWait * d = ServiceWait * c + ServiceWait * k /\ ServiceWait * k \in Nat
    BY <1>1, <2>1
  <2>3. QED
    BY <1>2, <2>2
<1>4. c >= 1 => ServiceWait * c >= ServiceWait /\ ServiceWait * (c - 1) = ServiceWait * c - ServiceWait
  BY <1>1
<1>5. QED
  BY <1>2, <1>3, <1>4

LEMMA SwitchTimeIsNat ==
  SwitchTime \in Nat /\ (Flaky # {} => SwitchTime >= 1)
<1>1. ServiceWait \in Nat /\ ServiceWait >= 1
  BY NodesAssumption
<1>2. SwitchTime \in Nat /\ (Cardinality(Flaky) >= 1 => SwitchTime >= ServiceWait)
  BY FlakyIsFinite, WaitTimes DEF SwitchTime
<1>3. QED
  BY <1>1, <1>2, FlakyIsFinite

LEMMA ServingIsNat ==
  /\ UpdateTimeout \in Nat
  /\ Serving \in Nat /\ Serving = UpdateTimeout + 2 * SwitchTime
BY SwitchTimeIsNat, GuardAssumption DEF Serving

\* What i messages may add up to.
LEMMA ServingTimes ==
  ASSUME NEW i \in Nat
  PROVE  /\ i * Serving \in Nat /\ (i + 1) * Serving = i * Serving + Serving
         /\ \A j \in Nat : i <= j => i * Serving <= j * Serving
         /\ 1 * Serving = Serving
<1> DEFINE T == Serving
<1>1. T \in Nat
  BY ServingIsNat
<1> HIDE DEF T
<1>2. i * T \in Nat /\ (i + 1) * T = i * T + T /\ 1 * T = T
  BY <1>1
<1>3. ASSUME NEW j \in Nat, i <= j PROVE i * T <= j * T
  <2>1. PICK k \in Nat : j = i + k
    <3>1. j - i \in Nat /\ j = i + (j - i)
      BY <1>3
    <3>2. QED
      BY <3>1
  <2>2. j * T = i * T + k * T /\ k * T \in Nat
    BY <1>1, <2>1
  <2>3. QED
    BY <1>2, <2>2
<1>4. QED
  BY <1>2, <1>3 DEF T

LEMMA LagIsNat ==
  /\ Lag \in Nat /\ UpdateTimeout \in Nat
  /\ Blocking => Lag = (Depth + 1) * Serving
  /\ ~Blocking => Lag >= UpdateTimeout /\ (program = "lifecycle" => Lag = UpdateTimeout + 1)
<1>1. UpdateTimeout \in Nat
  BY GuardAssumption
<1>2. CASE program # "lifecycle"
  BY <1>1, <1>2 DEF Lag, Blocking
<1>3. CASE program = "lifecycle" /\ Flaky = {}
  BY <1>1, <1>3 DEF Lag, Blocking
<1>4. CASE program = "lifecycle" /\ Flaky # {}
  <2>1. Depth + 1 \in Nat
    BY DepthIsNat
  <2>2. (Depth + 1) * Serving \in Nat
    BY <2>1, ServingTimes
  <2>3. Lag = (Depth + 1) * Serving
    BY <1>4 DEF Lag, Serving
  <2>4. QED
    BY <1>1, <1>4, <2>2, <2>3 DEF Blocking
<1>5. QED
  BY <1>2, <1>3, <1>4

LEMMA TodoIsSeq ==
  ASSUME TypeOK
  PROVE  todo \in Seq(Nodes) /\ Range(todo) \subseteq Nodes
<1>1. PICK i \in 0 .. Len(Managed) : todo = SubSeq(Managed, i + 1, Len(Managed))
  BY DEF TypeOK
<1>2. \A k \in i + 1 .. Len(Managed) : Managed[k] \in Nodes
  BY ManagedIsSeq, ElementOfSeq
<1>3. todo \in Seq(Nodes)
  BY <1>1, <1>2, ManagedIsSeq, SubSeqProperties
<1>4. QED
  BY <1>3, RangeOfSeq

\* No node is asked twice.
LEMMA TodoStep ==
  ASSUME TypeOK, todo # << >>
  PROVE  /\ Head(todo) \in Nodes
         /\ \E i \in 0 .. Len(Managed) : Tail(todo) = SubSeq(Managed, i + 1, Len(Managed))
         /\ Range(todo) = {Head(todo)} \cup Range(Tail(todo))
         /\ Head(todo) \notin Range(Tail(todo))
<1> DEFINE n == Len(Managed)
<1>1. PICK i \in 0 .. n : todo = SubSeq(Managed, i + 1, n)
  BY DEF TypeOK
<1>2. n \in Nat /\ Managed \in Seq(Nodes) /\ DOMAIN Managed = 1 .. n
  BY ManagedIsSeq
<1> HIDE DEF n
<1>3. i < n
  <2>1. SUFFICES ASSUME i = n PROVE FALSE
    BY <1>2
  <2>2. SubSeq(Managed, i + 1, n) = << >>
    BY <1>2, <2>1, SubSeqEmpty
  <2>3. QED
    BY <1>1, <2>2
<1>4. i + 1 \in 1 .. Len(Managed) /\ n \in i + 1 .. Len(Managed)
  BY <1>2, <1>3 DEF n
<1>5. Head(todo) = Managed[i + 1] /\ Tail(todo) = SubSeq(Managed, i + 2, n)
  <2>1. /\ Head(SubSeq(Managed, i + 1, n)) = Managed[i + 1]
        /\ Tail(SubSeq(Managed, i + 1, n)) = SubSeq(Managed, i + 1 + 1, n)
    BY <1>2, <1>4, HeadTailOfSubSeq
  <2>2. i + 1 + 1 = i + 2
    OBVIOUS
  <2>3. QED
    BY <1>1, <2>1, <2>2
<1>6. i + 1 \in 0 .. n /\ i + 2 = (i + 1) + 1 /\ i + 1 \in 1 .. n
  BY <1>2, <1>3
<1>7. Head(todo) \in Nodes
  BY <1>2, <1>5, <1>6, ElementOfSeq DEF n
<1>8. /\ todo \in Seq(Nodes) /\ Tail(todo) \in Seq(Nodes)
      /\ Len(todo) = n - i /\ Len(Tail(todo)) = n - i - 1
      /\ \A k \in 1 .. n - i : todo[k] = Managed[i + k]
      /\ \A k \in 1 .. n - i - 1 : Tail(todo)[k] = Managed[i + k + 1]
  <2>1. \A k \in i + 1 .. n : Managed[k] \in Nodes
    BY <1>2, ElementOfSeq DEF n
  <2>2. /\ todo \in Seq(Nodes) /\ Len(todo) = n - i
        /\ \A k \in 1 .. n - i : todo[k] = Managed[i + k]
    <3>1. /\ SubSeq(Managed, i + 1, n) \in Seq(Nodes)
          /\ Len(SubSeq(Managed, i + 1, n)) = IF i + 1 <= n THEN n - (i + 1) + 1 ELSE 0
          /\ \A k \in 1 .. n - (i + 1) + 1 : SubSeq(Managed, i + 1, n)[k] = Managed[i + 1 + k - 1]
      <4>1. i + 1 \in Int /\ n \in Int
        BY <1>2
      <4>2. QED
        BY <2>1, <4>1, SubSeqProperties
    <3>2. n - (i + 1) + 1 = n - i /\ i + 1 <= n
      BY <1>2, <1>3
    <3>3. \A k \in 1 .. n - i : i + 1 + k - 1 = i + k
      OBVIOUS
    <3>4. QED
      BY <1>1, <3>1, <3>2, <3>3
  <2>3. /\ Tail(todo) \in Seq(Nodes) /\ Len(Tail(todo)) = n - i - 1
        /\ \A k \in 1 .. n - i - 1 : Tail(todo)[k] = todo[k + 1]
    BY <2>2, HeadTailProperties
  <2>4. ASSUME NEW k \in 1 .. n - i - 1 PROVE Tail(todo)[k] = Managed[i + k + 1]
    <3>1. k + 1 \in 1 .. n - i /\ i + (k + 1) = i + k + 1
      BY <1>2
    <3>2. QED
      BY <2>2, <2>3, <3>1
  <2>5. QED
    BY <2>2, <2>3, <2>4
<1>9. DOMAIN todo = 1 .. n - i /\ DOMAIN Tail(todo) = 1 .. n - i - 1
  BY <1>8, LenProperties
<1>10. Range(todo) = {Managed[k] : k \in i + 1 .. n}
  <2>1. \A k \in DOMAIN todo : i + k \in i + 1 .. n /\ todo[k] = Managed[i + k]
    BY <1>2, <1>8, <1>9
  <2>2. \A k \in i + 1 .. n : k - i \in DOMAIN todo /\ todo[k - i] = Managed[k]
    <3> TAKE k \in i + 1 .. n
    <3>1. k - i \in 1 .. n - i /\ i + (k - i) = k
      BY <1>2
    <3>2. QED
      BY <1>8, <1>9, <3>1
  <2>3. ASSUME NEW x PROVE x \in Range(todo) <=> x \in {Managed[k] : k \in i + 1 .. n}
    <3>1. x \in Range(todo) <=> \E k \in DOMAIN todo : x = todo[k]
      BY Zenon DEF Range
    <3>2. x \in {Managed[k] : k \in i + 1 .. n} <=> \E k \in i + 1 .. n : x = Managed[k]
      OBVIOUS
    <3>3. QED
      BY <2>1, <2>2, <3>1, <3>2, Zenon
  <2>4. QED
    BY <2>3, Zenon
<1>11. Range(Tail(todo)) = {Managed[k] : k \in i + 2 .. n}
  <2>1. \A k \in DOMAIN Tail(todo) : i + k + 1 \in i + 2 .. n /\ Tail(todo)[k] = Managed[i + k + 1]
    BY <1>2, <1>8, <1>9
  <2>2. \A k \in i + 2 .. n : k - i - 1 \in DOMAIN Tail(todo) /\ Tail(todo)[k - i - 1] = Managed[k]
    <3> TAKE k \in i + 2 .. n
    <3>1. k - i - 1 \in 1 .. n - i - 1 /\ i + (k - i - 1) + 1 = k
      BY <1>2
    <3>2. QED
      BY <1>8, <1>9, <3>1
  <2>3. ASSUME NEW x PROVE x \in Range(Tail(todo)) <=> x \in {Managed[k] : k \in i + 2 .. n}
    <3>1. x \in Range(Tail(todo)) <=> \E k \in DOMAIN Tail(todo) : x = Tail(todo)[k]
      BY Zenon DEF Range
    <3>2. x \in {Managed[k] : k \in i + 2 .. n} <=> \E k \in i + 2 .. n : x = Managed[k]
      OBVIOUS
    <3>3. QED
      BY <2>1, <2>2, <3>1, <3>2, Zenon
  <2>4. QED
    BY <2>3, Zenon
<1>12. i + 1 .. n = {i + 1} \cup (i + 2 .. n)
  BY <1>2, <1>3
<1>13. Range(todo) = {Head(todo)} \cup Range(Tail(todo))
  BY <1>5, <1>10, <1>11, <1>12
<1>14. Head(todo) \notin Range(Tail(todo))
  <2>1. SUFFICES ASSUME NEW k \in i + 2 .. n, Managed[i + 1] = Managed[k] PROVE FALSE
    BY <1>5, <1>11
  <2>2. k \in DOMAIN Managed /\ i + 1 \in DOMAIN Managed /\ k # i + 1
    BY <1>2, <1>6
  <2>3. QED
    BY <2>1, <2>2, NodesAssumption
<1>15. QED
  BY <1>5, <1>6, <1>7, <1>13, <1>14 DEF n

----------------------------------------------------------------------------
(* Types.                                                                  *)

\* The nodes still to be asked are the last of the managed ones.
TodoOK == \E i \in 0 .. Len(Managed) : todo = SubSeq(Managed, i + 1, Len(Managed))

LEMMA TodoIsLast ==
  /\ todo = << >> => TodoOK
  /\ todo = Managed => TodoOK
  /\ todo' = Managed => TodoOK'
<1>1. SubSeq(Managed, Len(Managed) + 1, Len(Managed)) = << >>
  BY ManagedIsSeq, SubSeqEmpty
<1>2. SubSeq(Managed, 0 + 1, Len(Managed)) = Managed
  BY ManagedIsSeq, SubSeqFull
<1>3. Len(Managed) \in 0 .. Len(Managed) /\ 0 \in 0 .. Len(Managed)
  BY ManagedIsSeq
<1>4. QED
  BY <1>1, <1>2, <1>3, Zenon DEF TodoOK

LEMMA StatesAndModes ==
  /\ RequiredState \in States /\ "other" \in States /\ FirstMode \in Modes \cup {"none"}
  /\ RequiredState # "none" /\ "none" \notin States
BY GuardAssumption DEF States, Modes

LEMMA InitTypeOK == Init => TypeOK
<1> SUFFICES ASSUME Init PROVE TypeOK
  OBVIOUS
<1>1. /\ stateWire \in QueueOf(States) /\ modeWire \in QueueOf(Modes)
  BY EmptyQueue DEF Init
<1>2. TodoOK
  BY TodoIsLast DEF Init
<1>3. /\ Nodes \ Flaky \subseteq serving /\ serving \subseteq Nodes /\ active \subseteq Nodes
  BY DEF Init
<1>4. /\ seenState \in States \cup {"none"} /\ seenMode \in Modes \cup {"none"}
      /\ stateAge \in 0 .. UpdateTimeout + 1 /\ modeAge \in 0 .. UpdateTimeout + 1
  BY StatesAndModes, GuardAssumption DEF Init, GuardInit
<1>5. waited \in 0 .. ServiceWait
  BY NodesAssumption DEF Init
<1>6. QED
  BY <1>1, <1>2, <1>3, <1>4, <1>5 DEF TypeOK, TodoOK, Init

\* The type invariant in three parts: of the robot, of the guard, of the nodes.
RobotTypeOK ==
  /\ program \in {"lifecycle", "topic", "tree"}
  /\ state \in States /\ mode \in Modes /\ up \in BOOLEAN
  /\ stateWire \in QueueOf(States) /\ modeWire \in QueueOf(Modes)
  /\ due \subseteq {"state", "mode", "check"}
  /\ answer \in {"none", "passed", "refused"}
GuardTypeOK ==
  /\ seenState \in States \cup {"none"} /\ seenMode \in Modes \cup {"none"}
  /\ stateAge \in 0 .. UpdateTimeout + 1 /\ modeAge \in 0 .. UpdateTimeout + 1
SwitchTypeOK ==
  /\ currentlyActive \in BOOLEAN
  /\ TodoOK
  /\ waited \in 0 .. ServiceWait
  /\ Nodes \ Flaky \subseteq serving /\ serving \subseteq Nodes /\ active \subseteq Nodes

LEMMA TypeIsParts ==
  /\ TypeOK <=> RobotTypeOK /\ GuardTypeOK /\ SwitchTypeOK
  /\ TypeOK' <=> RobotTypeOK' /\ GuardTypeOK' /\ SwitchTypeOK'
BY Zenon DEF TypeOK, RobotTypeOK, GuardTypeOK, SwitchTypeOK, TodoOK

LEMMA RobotTypesKept ==
  ASSUME RobotTypeOK, UNCHANGED <<program, robotVars, wireVars, answer>>,
         due' \subseteq {"state", "mode", "check"}
  PROVE  RobotTypeOK'
<1>1. UNCHANGED <<program, state, mode, up, stateWire, modeWire, answer>>
  BY DEF robotVars, wireVars
<1>2. QED
  BY <1>1, Zenon DEF RobotTypeOK, QueueOf, States, Modes

LEMMA GuardTypesKept ==
  ASSUME GuardTypeOK, UNCHANGED guardVars
  PROVE  GuardTypeOK'
<1>1. UNCHANGED <<seenState, seenMode, stateAge, modeAge>>
  BY DEF guardVars
<1>2. QED
  BY <1>1, Zenon DEF GuardTypeOK, States, Modes

LEMMA SwitchTypesKept ==
  ASSUME SwitchTypeOK, UNCHANGED <<switchVars, nodeVars>>
  PROVE  SwitchTypeOK'
<1>1. UNCHANGED <<currentlyActive, todo, waited, serving, active>>
  BY DEF switchVars, nodeVars
<1>2. QED
  BY <1>1, Zenon DEF SwitchTypeOK, TodoOK, Nodes

LEMMA TypeStep == TypeOK /\ Next => TypeOK'
<1> SUFFICES ASSUME TypeOK, Next PROVE TypeOK'
  OBVIOUS
<1>1. RobotTypeOK /\ GuardTypeOK /\ SwitchTypeOK
  BY TypeIsParts
<1>2. ASSUME NEW V, NEW q \in QueueOf(V), NEW e \in V PROVE KeepLast(Append(q, e)) \in QueueOf(V)
  BY PublishedIsLast
<1>3. CASE RobotChanges
  <2>1. state' \in States /\ mode' \in Modes
    BY <1>3 DEF RobotChanges, States, Modes
  <2>2. stateWire' \in QueueOf(States) /\ modeWire' \in QueueOf(Modes)
    BY <1>1, <1>2, <1>3, <2>1 DEF RobotChanges, RobotTypeOK
  <2>3. UNCHANGED <<program, up, due, answer>> /\ UNCHANGED <<switchVars, nodeVars>> /\ UNCHANGED guardVars
    BY <1>3, Zenon DEF RobotChanges
  <2>4. RobotTypeOK'
    BY <1>1, <2>1, <2>2, <2>3, Zenon DEF RobotTypeOK, QueueOf, States, Modes
  <2>5. QED
    BY <1>1, <2>3, <2>4, GuardTypesKept, SwitchTypesKept, TypeIsParts
<1>4. CASE Republish
  <2>1. stateWire' \in QueueOf(States) /\ modeWire' \in QueueOf(Modes)
    BY <1>1, <1>2, <1>4 DEF Republish, RobotTypeOK
  <2>2. UNCHANGED <<program, state, mode, up, answer>> /\ UNCHANGED <<switchVars, nodeVars>> /\ UNCHANGED guardVars
    BY <1>4, Zenon DEF Republish, robotVars
  <2>3. due' \subseteq due
    BY <1>4 DEF Republish
  <2>4. RobotTypeOK'
    BY <1>1, <2>1, <2>2, <2>3, Zenon DEF RobotTypeOK, QueueOf, States, Modes
  <2>5. QED
    BY <1>1, <2>2, <2>4, GuardTypesKept, SwitchTypesKept, TypeIsParts
<1>5. CASE RobotCrash
  <2>1. /\ UNCHANGED <<program, stateWire, modeWire, answer>> /\ up' = FALSE
        /\ state' \in States /\ mode' \in Modes
        /\ due' \subseteq due /\ UNCHANGED <<switchVars, nodeVars>> /\ UNCHANGED guardVars
    BY <1>5 DEF RobotCrash, wireVars, States, Modes
  <2>2. RobotTypeOK'
    BY <1>1, <2>1, Zenon DEF RobotTypeOK, QueueOf, States, Modes
  <2>3. QED
    BY <1>1, <2>1, <2>2, GuardTypesKept, SwitchTypesKept, TypeIsParts
<1>6. CASE RobotRestart
  <2>1. state' \in States /\ mode' \in Modes /\ up' = TRUE
    BY <1>6, StatesAndModes DEF RobotRestart
  <2>2. stateWire' \in QueueOf(States) /\ modeWire' \in QueueOf(Modes)
    BY <1>1, <1>2, <1>6, <2>1 DEF RobotRestart, RobotTypeOK
  <2>3. UNCHANGED <<program, due, answer>> /\ UNCHANGED <<switchVars, nodeVars>> /\ UNCHANGED guardVars
    BY <1>6, Zenon DEF RobotRestart
  <2>4. RobotTypeOK'
    BY <1>1, <2>1, <2>2, <2>3, Zenon DEF RobotTypeOK, QueueOf, States, Modes
  <2>5. QED
    BY <1>1, <2>3, <2>4, GuardTypesKept, SwitchTypesKept, TypeIsParts
<1>7. CASE \E n \in Flaky : ServiceChanges(n)
  <2>1. PICK n \in Flaky : ServiceChanges(n)
    BY <1>7
  <2>2. /\ UNCHANGED <<program, robotVars, wireVars, answer>> /\ UNCHANGED due
        /\ UNCHANGED <<currentlyActive, todo, waited>> /\ UNCHANGED guardVars
    BY <2>1, Zenon DEF ServiceChanges, switchVars
  <2>3. active' \subseteq active /\ (serving' = serving \ {n} \/ serving' = serving \cup {n})
    BY <2>1 DEF ServiceChanges
  <2>4. n \in Nodes
    BY FlakyIsFinite
  <2>5. Nodes \ Flaky \subseteq serving' /\ serving' \subseteq Nodes /\ active' \subseteq Nodes
    BY <1>1, <2>3, <2>4 DEF SwitchTypeOK
  <2>6. SwitchTypeOK'
    BY <1>1, <2>2, <2>5, Zenon DEF SwitchTypeOK, TodoOK, Nodes
  <2>7. due' \subseteq {"state", "mode", "check"}
    BY <1>1, <2>2 DEF RobotTypeOK
  <2>8. QED
    BY <1>1, <2>2, <2>6, <2>7, GuardTypesKept, RobotTypesKept, TypeIsParts
<1>8. CASE DeliverState
  <2>1. /\ seenState' = Head(stateWire) /\ stateAge' = 0 /\ UNCHANGED <<seenMode, modeAge>>
        /\ stateWire # << >> /\ stateWire' = Tail(stateWire)
        /\ UNCHANGED <<program, state, mode, up, modeWire, due, answer>> /\ UNCHANGED <<switchVars, nodeVars>>
    BY <1>8 DEF DeliverState, StateCallback, robotVars
  <2>2. Head(stateWire) \in States /\ Tail(stateWire) \in QueueOf(States)
    BY <1>1, <2>1, TailOfQueue DEF RobotTypeOK
  <2>3. RobotTypeOK'
    BY <1>1, <2>1, <2>2, Zenon DEF RobotTypeOK, QueueOf, States, Modes
  <2>4. GuardTypeOK'
    BY <1>1, <2>1, <2>2, GuardAssumption DEF GuardTypeOK, States, Modes
  <2>5. QED
    BY <1>1, <2>1, <2>3, <2>4, SwitchTypesKept, TypeIsParts
<1>9. CASE DeliverMode
  <2>1. /\ seenMode' = Head(modeWire) /\ modeAge' = 0 /\ UNCHANGED <<seenState, stateAge>>
        /\ modeWire # << >> /\ modeWire' = Tail(modeWire)
        /\ UNCHANGED <<program, state, mode, up, stateWire, due, answer>> /\ UNCHANGED <<switchVars, nodeVars>>
    BY <1>9 DEF DeliverMode, ModeCallback, robotVars
  <2>2. Head(modeWire) \in Modes /\ Tail(modeWire) \in QueueOf(Modes)
    BY <1>1, <2>1, TailOfQueue DEF RobotTypeOK
  <2>3. RobotTypeOK'
    BY <1>1, <2>1, <2>2, Zenon DEF RobotTypeOK, QueueOf, States, Modes
  <2>4. GuardTypeOK'
    BY <1>1, <2>1, <2>2, GuardAssumption DEF GuardTypeOK, States, Modes
  <2>5. QED
    BY <1>1, <2>1, <2>3, <2>4, SwitchTypesKept, TypeIsParts
<1>10. CASE CheckCallback
  <2>1. /\ UNCHANGED <<program, robotVars, wireVars, answer>> /\ UNCHANGED guardVars
        /\ UNCHANGED <<waited, serving, active>> /\ due' \subseteq due
    BY <1>10 DEF CheckCallback, nodeVars
  <2>2. todo' = Managed \/ todo' = todo
    BY <1>10 DEF CheckCallback
  <2>3. TodoOK'
    BY <1>1, <2>2, TodoIsLast, Zenon DEF SwitchTypeOK, TodoOK
  <2>4. currentlyActive' \in BOOLEAN
    BY <1>1, <1>10 DEF CheckCallback, SwitchOver, SwitchTypeOK
  <2>5. SwitchTypeOK'
    BY <1>1, <2>1, <2>3, <2>4, Zenon DEF SwitchTypeOK, Nodes
  <2>6. due' \subseteq {"state", "mode", "check"}
    BY <1>1, <2>1 DEF RobotTypeOK
  <2>7. QED
    BY <1>1, <2>1, <2>5, <2>6, GuardTypesKept, RobotTypesKept, TypeIsParts
<1>11. CASE Ask \/ GiveUp
  <2>1. /\ UNCHANGED <<program, robotVars, wireVars, answer>> /\ UNCHANGED due /\ UNCHANGED guardVars
        /\ UNCHANGED serving /\ todo # << >> /\ todo' = Tail(todo) /\ waited' = 0
    BY <1>11 DEF Ask, GiveUp, nodeVars, Serves, Idle
  <2>2. Head(todo) \in Nodes /\ TodoOK'
    BY <2>1, TodoStep, Zenon DEF TodoOK
  <2>3. active' \subseteq active \cup {Head(todo)}
    BY <1>11 DEF Ask, GiveUp, nodeVars
  <2>4. currentlyActive' \in BOOLEAN
    BY <1>1, <1>11 DEF Ask, GiveUp, SwitchOver, SwitchTypeOK
  <2>5. waited' \in 0 .. ServiceWait
    BY <2>1, NodesAssumption
  <2>6. active' \subseteq Nodes
    BY <1>1, <2>2, <2>3 DEF SwitchTypeOK
  <2>7. SwitchTypeOK'
    BY <1>1, <2>1, <2>2, <2>4, <2>5, <2>6, Zenon DEF SwitchTypeOK, Nodes
  <2>8. due' \subseteq {"state", "mode", "check"}
    BY <1>1, <2>1 DEF RobotTypeOK
  <2>9. QED
    BY <1>1, <2>1, <2>7, <2>8, GuardTypesKept, RobotTypesKept, TypeIsParts
<1>12. CASE MessageCallback \/ BtTick
  <2>1. /\ UNCHANGED <<program, state, mode, up, stateWire, modeWire, due>>
        /\ UNCHANGED <<switchVars, nodeVars>> /\ UNCHANGED guardVars
    BY <1>12, Zenon DEF MessageCallback, BtTick, robotVars, wireVars
  <2>2. answer' \in {"none", "passed", "refused"}
    BY <1>12 DEF MessageCallback, BtTick, Answers
  <2>3. RobotTypeOK'
    BY <1>1, <2>1, <2>2, Zenon DEF RobotTypeOK, QueueOf, States, Modes
  <2>4. QED
    BY <1>1, <2>1, <2>3, GuardTypesKept, SwitchTypesKept, TypeIsParts
<1>13. CASE Tick
  <2>1. /\ UNCHANGED <<program, state, mode, up, stateWire, modeWire>>
        /\ UNCHANGED <<currentlyActive, todo, serving, active>>
        /\ UNCHANGED <<seenState, seenMode>>
    BY <1>13, Zenon DEF Tick, robotVars, wireVars, nodeVars, GuardTick
  <2>2. due' \subseteq {"state", "mode", "check"} /\ answer' = "none"
    BY <1>13 DEF Tick
  <2>3. RobotTypeOK'
    BY <1>1, <2>1, <2>2, Zenon DEF RobotTypeOK, QueueOf, States, Modes
  <2>4. stateAge' \in 0 .. UpdateTimeout + 1 /\ modeAge' \in 0 .. UpdateTimeout + 1
    BY <1>1, <1>13, GuardAssumption DEF Tick, GuardTick, GuardOlder, GuardTypeOK
  <2>5. GuardTypeOK'
    BY <1>1, <2>1, <2>4, Zenon DEF GuardTypeOK, States, Modes
  <2>6. waited' \in 0 .. ServiceWait
    BY <1>1, <1>13, NodesAssumption DEF Tick, Blocked, SwitchTypeOK
  <2>7. SwitchTypeOK'
    BY <1>1, <2>1, <2>6, Zenon DEF SwitchTypeOK, TodoOK, Nodes
  <2>8. QED
    BY <2>3, <2>5, <2>7, TypeIsParts
<1>14. QED
  BY <1>3, <1>4, <1>5, <1>6, <1>7, <1>8, <1>9, <1>10, <1>11, <1>12, <1>13 DEF Next, Untimed

LEMMA TypeStutter == TypeOK /\ UNCHANGED vars => TypeOK'
<1> SUFFICES ASSUME TypeOK, UNCHANGED vars PROVE TypeOK'
  OBVIOUS
<1>1. /\ UNCHANGED <<program, robotVars, wireVars, answer>> /\ UNCHANGED due
      /\ UNCHANGED <<switchVars, nodeVars>> /\ UNCHANGED guardVars
  BY DEF vars
<1>2. due' \subseteq {"state", "mode", "check"}
  BY <1>1 DEF TypeOK
<1>3. QED
  BY <1>1, <1>2, TypeIsParts, RobotTypesKept, GuardTypesKept, SwitchTypesKept

\* Every variable of the guard programs keeps its type (lifecycle_guard_node.cpp,
\* topic_guard_node.cpp, bt_condition_node.cpp): the queues stay within their depth,
\* a switch asks the last of the managed nodes, in their order, and the view of the
\* guard is never more than one past its timeout.
THEOREM GuardTypeCorrect == HSpec => []TypeOK
<1>1. HInit => TypeOK
  BY InitTypeOK DEF HInit
<1>2. TypeOK /\ [HNext]_hvars => TypeOK'
  BY TypeStep, TypeStutter DEF HNext, Next, hvars
<1>3. QED
  BY <1>1, <1>2, PTL DEF HSpec

----------------------------------------------------------------------------
(* The view of the guard.                                                  *)

Values == IF watched = "state" THEN States ELSE Modes

LEMMA ViewTypes ==
  /\ HistTypeOK => /\ Value \in Values /\ Wire \in QueueOf(Values)
                   /\ Age \in 0 .. UpdateTimeout + 1
                   /\ Right <=> up /\ RightValue(Value)
  /\ HistTypeOK' => /\ Value' \in Values' /\ Wire' \in QueueOf(Values')
                    /\ Age' \in 0 .. UpdateTimeout + 1
                    /\ Right' <=> up' /\ RightValue(Value)'
<1>1. TypeOK => /\ state \in States /\ mode \in Modes
                /\ stateWire \in QueueOf(States) /\ modeWire \in QueueOf(Modes)
                /\ stateAge \in 0 .. UpdateTimeout + 1 /\ modeAge \in 0 .. UpdateTimeout + 1
  BY DEF TypeOK
<1>2. TypeOK' => /\ state' \in States /\ mode' \in Modes
                 /\ stateWire' \in QueueOf(States) /\ modeWire' \in QueueOf(Modes)
                 /\ stateAge' \in 0 .. UpdateTimeout + 1 /\ modeAge' \in 0 .. UpdateTimeout + 1
  BY DEF TypeOK
<1>3. (Right <=> up /\ RightValue(Value)) /\ (Right' <=> up' /\ RightValue(Value)')
  BY DEF Right, RightValue, Value, StateRight, ModeRight
<1>4. /\ HistTypeOK => Value \in Values /\ Wire \in QueueOf(Values) /\ Age \in 0 .. UpdateTimeout + 1
      /\ HistTypeOK' => Value' \in Values' /\ Wire' \in QueueOf(Values') /\ Age' \in 0 .. UpdateTimeout + 1
  BY <1>1, <1>2, Zenon DEF HistTypeOK, Value, Wire, Age, Values, QueueOf
<1>5. QED
  BY <1>3, <1>4

\* Whatever the guard requires, it believes the half of it that is watched.
LEMMA AllowedIsBelieved ==
  Allowed => Believing
BY DEF Allowed, StateGranted, ModeGranted, Believing, RightValue, Seen, Age

\* A step puts nothing into the queue, or what a robot that is up is now.
Told == Wire' = Wire \/ (up' /\ Wire' = KeepLast(Append(Wire, Value')))

\* A robot that is not right tells nothing that is.
LEMMA ToldView ==
  ASSUME HistTypeOK, HistTypeOK', watched' = watched, Told, ~Right',
         NEW i \in DOMAIN Wire', RightValue(Wire[i])'
  PROVE  \E j \in DOMAIN Wire : i <= j /\ RightValue(Wire[j])
<1>1. /\ Value' \in Values /\ Wire \in QueueOf(Values) /\ Wire' \in QueueOf(Values)
      /\ (Right' <=> up' /\ RightValue(Value)')
  BY ViewTypes DEF Values
<1>2. CASE Wire' = Wire
  <2>1. i \in DOMAIN Wire /\ i <= i
    BY <1>1, <1>2, QueueDomain
  <2>2. QED
    BY <1>2, <2>1 DEF RightValue
<1>3. CASE up' /\ Wire' = KeepLast(Append(Wire, Value'))
  <2>1. \/ i = Len(Wire') /\ Wire'[i] = Value'
        \/ i < Depth /\ \E j \in DOMAIN Wire : i <= j /\ Wire'[i] = Wire[j]
    BY <1>1, <1>3, PublishedIsLast
  <2>2. Wire'[i] # Value'
    BY <1>1, <1>3 DEF RightValue
  <2>3. PICK j \in DOMAIN Wire : i <= j /\ Wire'[i] = Wire[j]
    BY <2>1, <2>2
  <2>4. RightValue(Wire[j])
    BY <2>3 DEF RightValue
  <2>5. QED
    BY <2>3, <2>4
<1>4. QED
  BY <1>2, <1>3 DEF Told

\* What a callback takes from the queue.
Served == Wire # << >> /\ Wire' = Tail(Wire) /\ Seen' = Head(Wire) /\ Age' = 0

\* The robot is as it was.
SameRobot == UNCHANGED <<state, mode, up, due>>

LEMMA RobotIsSame ==
  ASSUME ClockOK, watched' = watched, SameRobot, wrong' = IF Right' THEN 0 ELSE wrong
  PROVE  ClockOK' /\ (Right' <=> Right) /\ (wrong' = 0 \/ wrong' = wrong)
<1>1. Right' <=> Right
  BY DEF Right, StateRight, ModeRight, SameRobot
<1>2. QED
  BY <1>1 DEF ClockOK, SameRobot

LEMMA ServedView ==
  ASSUME HistTypeOK, HistTypeOK', watched' = watched, Served
  PROVE  /\ 1 \in DOMAIN Wire /\ Seen' = Wire[1]
         /\ \A i \in DOMAIN Wire' : i + 1 \in DOMAIN Wire /\ Wire'[i] = Wire[i + 1]
<1>1. Wire \in QueueOf(Values)
  BY ViewTypes
<1>2. Wire # << >> /\ Wire' = Tail(Wire) /\ Seen' = Head(Wire)
  BY DEF Served
<1>3. /\ Head(Wire) = Wire[1] /\ 1 \in DOMAIN Wire
      /\ \A i \in DOMAIN Tail(Wire) : i + 1 \in DOMAIN Wire /\ Tail(Wire)[i] = Wire[i + 1]
  BY <1>1, <1>2, TailOfQueue
<1>4. QED
  BY <1>2, <1>3

----------------------------------------------------------------------------
(* For how long a switch may block.                                        *)

LEMMA AheadIsFinite ==
  ASSUME NEW q
  PROVE  /\ Cardinality(Range(q) \cap Flaky) \in Nat
         /\ Cardinality(Range(q) \cap Flaky) <= Cardinality(Flaky)
         /\ IsFiniteSet(Range(q) \cap Flaky)
<1>1. (Range(q) \cap Flaky) \in SUBSET Flaky
  OBVIOUS
<1> DEFINE A == Range(q) \cap Flaky
<1>2. IsFiniteSet(A) /\ Cardinality(A) <= Cardinality(Flaky)
  BY <1>1, FlakyIsFinite, FS_Subset
<1>3. Cardinality(A) \in Nat
  BY <1>2, FS_CardinalityType
<1>4. QED
  BY <1>2, <1>3

\* The time that is left to a switch that has still q to ask and waited for w.
LEMMA LeftOf ==
  ASSUME NEW q \in Seq(Nodes), NEW w \in 0 .. ServiceWait,
         w > 0 => q # << >> /\ Head(q) \in Flaky
  PROVE  ServiceWait * Cardinality(Range(q) \cap Flaky) - w \in 0 .. SwitchTime
<1> DEFINE c == Cardinality(Range(q) \cap Flaky)
<1>1. c \in Nat /\ c <= Cardinality(Flaky) /\ Cardinality(Flaky) \in Nat
  BY AheadIsFinite, FlakyIsFinite
<1>2. ASSUME w > 0 PROVE c >= 1
  <2>1. Head(q) \in Range(q) \cap Flaky
    <3>1. DOMAIN q = 1 .. Len(q) /\ Len(q) \in Nat \ {0} /\ Head(q) = q[1]
      BY <1>2, LenProperties, EmptySeq
    <3>2. QED
      BY <1>2, <3>1 DEF Range
  <2>2. c # 0
    BY <2>1, AheadIsFinite, FS_EmptySet
  <2>3. QED
    BY <1>1, <2>2
<1> HIDE DEF c
<1>3. ServiceWait \in Nat /\ ServiceWait * c \in Nat /\ SwitchTime \in Nat
  BY <1>1, WaitTimes, NodesAssumption, SwitchTimeIsNat
<1>4. ServiceWait * c <= SwitchTime /\ (c >= 1 => ServiceWait * c >= ServiceWait)
  BY <1>1, WaitTimes DEF SwitchTime
<1>5. ServiceWait * c - w \in 0 .. SwitchTime
  BY <1>2, <1>3, <1>4
<1>6. QED
  BY <1>5 DEF c

WaitOK == waited > 0 => todo # << >> /\ Head(todo) \in Flaky

LEMMA LeftBounds ==
  /\ HistTypeOK /\ WaitOK => Left \in 0 .. SwitchTime
  /\ HistTypeOK' /\ WaitOK' => Left' \in 0 .. SwitchTime
<1>1. ASSUME HistTypeOK, WaitOK PROVE Left \in 0 .. SwitchTime
  <2>1. todo \in Seq(Nodes) /\ waited \in 0 .. ServiceWait
    BY <1>1, TodoIsSeq DEF HistTypeOK, TypeOK
  <2>2. waited > 0 => todo # << >> /\ Head(todo) \in Flaky
    BY <1>1 DEF WaitOK
  <2>3. ServiceWait * Cardinality(Range(todo) \cap Flaky) - waited \in 0 .. SwitchTime
    BY <2>1, <2>2, LeftOf
  <2>4. QED
    BY <2>3 DEF Left, Ahead
<1>2. ASSUME HistTypeOK', WaitOK' PROVE Left' \in 0 .. SwitchTime
  <2>1. todo' \in Seq(Nodes) /\ waited' \in 0 .. ServiceWait
    <3>1. PICK i \in 0 .. Len(Managed) : todo' = SubSeq(Managed, i + 1, Len(Managed))
      BY <1>2 DEF HistTypeOK, TypeOK
    <3>2. \A k \in i + 1 .. Len(Managed) : Managed[k] \in Nodes
      BY ManagedIsSeq, ElementOfSeq
    <3>3. todo' \in Seq(Nodes)
      BY <3>1, <3>2, ManagedIsSeq, SubSeqProperties
    <3>4. QED
      BY <1>2, <3>3 DEF HistTypeOK, TypeOK
  <2>2. waited' > 0 => todo' # << >> /\ Head(todo') \in Flaky
    BY <1>2 DEF WaitOK
  <2>3. ServiceWait * Cardinality(Range(todo') \cap Flaky) - waited' \in 0 .. SwitchTime
    BY <2>1, <2>2, LeftOf
  <2>4. QED
    BY <2>3 DEF Left, Ahead
<1>3. QED
  BY <1>1, <1>2

\* A turn of the loop takes no time that was not counted.
LEMMA LeftAfterTurn ==
  ASSUME HistTypeOK, WaitOK, todo # << >>, todo' = Tail(todo), waited' = 0
  PROVE  Left' <= Left
<1> DEFINE a == Cardinality(Range(todo) \cap Flaky)
           b == Cardinality(Range(Tail(todo)) \cap Flaky)
<1>1. a \in Nat /\ b \in Nat /\ IsFiniteSet(Range(Tail(todo)) \cap Flaky)
  BY AheadIsFinite
<1>2. /\ Range(todo) = {Head(todo)} \cup Range(Tail(todo)) /\ Head(todo) \notin Range(Tail(todo))
      /\ waited \in 0 .. ServiceWait
  BY TodoStep DEF HistTypeOK, TypeOK
<1>3. ASSUME Head(todo) \in Flaky PROVE a = b + 1
  <2>1. Range(todo) \cap Flaky = (Range(Tail(todo)) \cap Flaky) \cup {Head(todo)}
    BY <1>2, <1>3
  <2>2. QED
    BY <1>1, <1>2, <2>1, FS_AddElement
<1>4. ASSUME Head(todo) \notin Flaky PROVE a = b /\ waited = 0
  <2>1. Range(todo) \cap Flaky = Range(Tail(todo)) \cap Flaky
    BY <1>2, <1>4
  <2>2. waited = 0
    BY <1>2, <1>4, NodesAssumption DEF WaitOK
  <2>3. QED
    BY <2>1, <2>2
<1>5. Left = ServiceWait * a - waited /\ Left' = ServiceWait * b - 0
  BY DEF Left, Ahead
<1> HIDE DEF a, b
<1>6. ServiceWait * a \in Nat /\ ServiceWait * b \in Nat /\ ServiceWait \in Nat
  BY <1>1, WaitTimes, NodesAssumption
<1>7. a = b + 1 => ServiceWait * b = ServiceWait * a - ServiceWait
  <2>1. SUFFICES ASSUME a = b + 1 PROVE ServiceWait * b = ServiceWait * a - ServiceWait
    OBVIOUS
  <2>2. a >= 1 /\ a - 1 = b
    BY <1>1, <2>1
  <2>3. ServiceWait * (a - 1) = ServiceWait * a - ServiceWait
    BY <1>1, <2>2, WaitTimes
  <2>4. QED
    BY <2>2, <2>3
<1>8. QED
  BY <1>2, <1>3, <1>4, <1>5, <1>6, <1>7

\* A tick takes one tick of it.
LEMMA LeftAfterTick ==
  ASSUME HistTypeOK, todo # << >>, Head(todo) \in Flaky, waited < ServiceWait,
         todo' = todo, waited' = waited + 1
  PROVE  Left >= 1 /\ Left' = Left - 1
<1>1. WaitOK /\ HistTypeOK
  BY DEF WaitOK
<1>2. todo \in Seq(Nodes) /\ waited \in 0 .. ServiceWait /\ ServiceWait \in Nat
  BY TodoIsSeq, NodesAssumption DEF HistTypeOK, TypeOK
<1>3. waited + 1 \in 0 .. ServiceWait
  BY <1>2
<1>4. ServiceWait * Cardinality(Range(todo) \cap Flaky) - (waited + 1) \in 0 .. SwitchTime
  BY <1>2, <1>3, LeftOf
<1>5. Left' = ServiceWait * Cardinality(Range(todo) \cap Flaky) - (waited + 1)
  BY DEF Left, Ahead
<1>6. Left = ServiceWait * Cardinality(Range(todo) \cap Flaky) - waited
  BY DEF Left, Ahead
<1>7. ServiceWait * Cardinality(Range(todo) \cap Flaky) \in Nat /\ SwitchTime \in Nat
  BY AheadIsFinite, WaitTimes, SwitchTimeIsNat
<1>8. QED
  BY <1>2, <1>4, <1>5, <1>6, <1>7

----------------------------------------------------------------------------
(* For how long the last message may keep the nodes active.                *)

LEMMA RemBounds ==
  ASSUME HistTypeOK, WaitOK, Blocking
  PROVE  /\ Rem \in 0 .. Serving
         /\ Believing => Rem = Serving - Age /\ Rem >= 2 * SwitchTime
         /\ SwitchTime + 1 <= 2 * SwitchTime
<1>1. Left \in 0 .. SwitchTime /\ Age \in 0 .. UpdateTimeout + 1
  BY LeftBounds, ViewTypes
<1>2. SwitchTime \in Nat /\ SwitchTime >= 1 /\ UpdateTimeout \in Nat
  BY SwitchTimeIsNat, ServingIsNat DEF Blocking
<1>3. Serving = UpdateTimeout + 2 * SwitchTime
  BY ServingIsNat
<1>4. Believing => Age <= UpdateTimeout
  BY DEF Believing, Fresh
<1>5. Believing => Rem = Serving - Age
  BY DEF Rem
<1>6. ~Believing => Rem \in 0 .. 2 * SwitchTime
  <2>1. CASE ~Believing /\ ~Idle /\ ~currentlyActive
    <3>1. Rem = Left + SwitchTime
      BY <2>1 DEF Rem
    <3>2. QED
      BY <1>1, <1>2, <3>1
  <2>2. CASE ~Believing /\ ~Idle /\ currentlyActive
    <3>1. Rem = Left
      BY <2>2 DEF Rem
    <3>2. QED
      BY <1>1, <1>2, <3>1
  <2>3. CASE ~Believing /\ Idle /\ currentlyActive
    <3>1. Rem = SwitchTime + IF "check" \in due THEN 0 ELSE 1
      BY <2>3 DEF Rem
    <3>2. QED
      BY <1>2, <3>1
  <2>4. CASE ~Believing /\ Idle /\ ~currentlyActive
    <3>1. Rem = 0
      BY <2>4 DEF Rem
    <3>2. QED
      BY <1>2, <3>1
  <2>5. QED
    BY <2>1, <2>2, <2>3, <2>4
<1>7. QED
  BY <1>1, <1>2, <1>3, <1>4, <1>5, <1>6

LEMMA RemIsNatNext ==
  ASSUME HistTypeOK', WaitOK'
  PROVE  Rem' \in Nat
<1>1. Left' \in Nat /\ Age' \in Nat
  <2>1. Left' \in 0 .. SwitchTime /\ Age' \in 0 .. UpdateTimeout + 1
    BY LeftBounds, ViewTypes
  <2>2. QED
    BY <2>1, SwitchTimeIsNat, GuardAssumption
<1>2. SwitchTime \in Nat /\ UpdateTimeout \in Nat /\ Serving = UpdateTimeout + 2 * SwitchTime
  BY SwitchTimeIsNat, ServingIsNat
<1>3. Believing' => Serving - Age' \in Nat
  <2>1. Believing' => Age' <= UpdateTimeout
    BY DEF Believing, Fresh
  <2>2. \A a \in Nat : a <= UpdateTimeout => Serving - a \in Nat
    BY <1>2
  <2>3. QED
    BY <1>1, <2>1, <2>2, Zenon
<1>4. CASE Believing'
  BY <1>3, <1>4 DEF Rem
<1>5. CASE ~Believing' /\ ~Idle' /\ ~currentlyActive'
  <2>1. Rem' = Left' + SwitchTime
    BY <1>5 DEF Rem
  <2>2. \A l \in Nat : l + SwitchTime \in Nat
    BY <1>2
  <2>3. QED
    BY <1>1, <2>1, <2>2, Zenon
<1>6. CASE ~Believing' /\ ~Idle' /\ currentlyActive'
  <2>1. Rem' = Left'
    BY <1>6 DEF Rem
  <2>2. QED
    BY <1>1, <2>1
<1>7. CASE ~Believing' /\ Idle' /\ currentlyActive'
  <2>1. Rem' = SwitchTime + IF "check" \in due' THEN 0 ELSE 1
    BY <1>7 DEF Rem
  <2>2. QED
    BY <1>2, <2>1
<1>8. CASE ~Believing' /\ Idle' /\ ~currentlyActive'
  BY <1>8 DEF Rem
<1>9. QED
  BY <1>4, <1>5, <1>6, <1>7, <1>8

LEMMA SumsFall ==
  /\ \A v, r, w, q, l \in Nat : v + r <= w + q /\ w + q <= l => v + r <= l
  /\ \A v, r, w, q, l, i, j \in Nat :
       v + r <= w + q /\ w + q + j <= l /\ i <= j => v + r + i <= l
OBVIOUS

\* A step that spends no more time than there is left, and puts no message back.
LEMMA BudgetFalls ==
  ASSUME HistTypeOK, HistTypeOK', WaitOK, WaitOK', Blocking, Blocking', ~Right, BudgetOK,
         wrong' + Rem' <= wrong + Rem,
         Believing' \/ Engaged' => Believing \/ Engaged,
         \A i \in DOMAIN Wire' : RightValue(Wire[i])' =>
            \E j \in DOMAIN Wire : i <= j /\ RightValue(Wire[j])
  PROVE  BudgetOK'
<1>1. Lag' = Lag /\ Lag \in Nat
  <2>1. Lag = (Depth + 1) * Serving /\ Lag \in Nat
    BY LagIsNat
  <2>2. Lag' = (Depth + 1) * Serving
    BY DEF Blocking, Lag, Serving
  <2>3. QED
    BY <2>1, <2>2
<1>2. /\ wrong \in Nat /\ wrong' \in Nat /\ Rem \in Nat /\ Rem' \in Nat
  BY <1>1, RemBounds, RemIsNatNext, ServingIsNat DEF HistTypeOK
<1>3. ASSUME Believing' \/ Engaged' PROVE wrong' + Rem' <= Lag
  <2>1. wrong + Rem <= Lag
    BY <1>3 DEF BudgetOK
  <2>2. QED
    BY <1>1, <1>2, <2>1, SumsFall, Zenon
<1>4. ASSUME NEW i \in DOMAIN Wire', RightValue(Wire[i])'
      PROVE  wrong' + Rem' + i * Serving <= Lag
  <2>1. PICK j \in DOMAIN Wire : i <= j /\ RightValue(Wire[j])
    BY <1>4
  <2>2. wrong + Rem + j * Serving <= Lag
    BY <2>1 DEF BudgetOK
  <2>3. i \in Nat /\ j \in Nat
    BY <1>4, ViewTypes, QueueDomain
  <2>4. i * Serving <= j * Serving /\ i * Serving \in Nat /\ j * Serving \in Nat
    BY <2>1, <2>3, ServingTimes
  <2>5. \A m, k \in Nat : wrong + Rem + k <= Lag /\ m <= k => wrong' + Rem' + m <= Lag
    BY <1>1, <1>2, SumsFall, Zenon
  <2>6. QED
    BY <2>2, <2>4, <2>5, Zenon
<1>5. Serving' = Serving
  BY DEF Serving, SwitchTime
<1>6. QED
  BY <1>1, <1>3, <1>4, <1>5 DEF BudgetOK

\* The robot stops being right: all that may go wrong is still to come.
LEMMA BudgetBegins ==
  ASSUME HistTypeOK, HistTypeOK', WaitOK, Blocking, Blocking', wrong' = 0, Rem' = Rem
  PROVE  BudgetOK'
<1>1. Lag' = (Depth + 1) * Serving
  BY DEF Blocking, Lag, Serving
<1>2. Rem \in Nat /\ Rem <= Serving /\ Serving \in Nat /\ Serving' = Serving
  BY RemBounds, ServingIsNat DEF Serving, SwitchTime
<1>3. Depth \in Nat
  BY DepthIsNat
<1>4. (Depth + 1) * Serving = Depth * Serving + Serving /\ Depth * Serving \in Nat
  BY <1>3, ServingTimes
<1>5. ASSUME NEW i \in DOMAIN Wire', RightValue(Wire[i])'
      PROVE  wrong' + Rem' + i * Serving <= Lag'
  <2>1. i \in Nat /\ i <= Depth
    <3>1. Wire' \in QueueOf(Values')
      BY ViewTypes
    <3>2. DOMAIN Wire' = 1 .. Len(Wire') /\ Len(Wire') \in 0 .. Depth
      BY <3>1, QueueDomain
    <3>3. QED
      BY <1>3, <1>5, <3>2
  <2>2. i * Serving <= Depth * Serving /\ i * Serving \in Nat
    BY <1>3, <2>1, ServingTimes
  <2>3. \A r, k, d, t \in Nat : r <= t /\ k <= d => 0 + r + k <= d + t
    OBVIOUS
  <2>4. QED
    BY <1>1, <1>2, <1>4, <2>2, <2>3, Zenon
<1>6. wrong' + Rem' <= Lag'
  BY <1>1, <1>2, <1>4
<1>7. QED
  BY <1>2, <1>5, <1>6 DEF BudgetOK

----------------------------------------------------------------------------
(* The invariant, step by step.  First the steps of the robot, of the      *)
(* services and of those who ask the guard: they tell at most the truth    *)
(* and leave the switch alone.                                             *)

Quiet ==
  /\ UNCHANGED <<program, currentlyActive, todo, waited, seenState, seenMode, stateAge, modeAge>>
  /\ active' \subseteq active
  /\ "check" \in due' <=> "check" \in due
  /\ answer' = "passed" => answer = "passed" \/ (program # "lifecycle" /\ Allowed)
  /\ "state" \in due' \/ "mode" \in due' => up'

LEMMA WaitIsOK == SwitchOK => WaitOK
BY DEF SwitchOK, WaitOK

LEMMA WaitIsOKNext == SwitchOK' => WaitOK'
BY DEF SwitchOK, WaitOK

\* What a step leaves that leaves the guard alone.
LEMMA SameView ==
  ASSUME watched' = watched, UNCHANGED <<seenState, seenMode, stateAge, modeAge>>
  PROVE  /\ Seen' = Seen /\ Age' = Age
         /\ Allowed' <=> Allowed
         /\ Believing' <=> Believing
         /\ RightValue(Seen)' <=> RightValue(Seen)
BY DEF Seen, Age, Allowed, StateGranted, ModeGranted, Believing, RightValue, Fresh

LEMMA QuietStep ==
  ASSUME GuardInv, HistTypeOK', watched' = watched, Quiet, Told,
         wrong' = IF Right' THEN 0 ELSE wrong
  PROVE  GuardInv'
<1>1. HistTypeOK /\ ClockOK /\ SwitchOK /\ PromptOK /\ BudgetOK
  BY DEF GuardInv
<1>2. UNCHANGED <<program, currentlyActive, todo, waited, seenState, seenMode, stateAge, modeAge>>
  BY DEF Quiet
<1>3. /\ Seen' = Seen /\ Age' = Age
      /\ Allowed' <=> Allowed
      /\ Believing' <=> Believing
      /\ RightValue(Seen)' <=> RightValue(Seen)
  BY <1>2, SameView
<1>4. /\ ClockOK'
      /\ ~Right' => \A i \in DOMAIN Wire' :
           RightValue(Wire[i])' => \E j \in DOMAIN Wire : i <= j /\ RightValue(Wire[j])
  <2>1. ClockOK'
    BY DEF ClockOK, Quiet
  <2>2. QED
    BY <1>1, <2>1, ToldView
<1>5. /\ (Idle' <=> Idle) /\ (Engaged' <=> Engaged) /\ (Blocking' <=> Blocking)
      /\ "check" \in due' <=> "check" \in due
  BY <1>2 DEF Idle, Engaged, Blocking, Quiet
<1>6. SwitchOK'
  BY <1>1, <1>2, <1>3, <1>5 DEF SwitchOK, Quiet, Idle, Engaged
<1>7. wrong \in Nat /\ (wrong' = 0 \/ wrong' = wrong)
  BY <1>1, LagIsNat DEF HistTypeOK
<1>8. PromptOK'
  <2>1. SUFFICES ASSUME ~Blocking PROVE PromptOK'
    BY <1>5 DEF PromptOK
  <2>2. wrong' <= wrong /\ wrong' \in Nat /\ UpdateTimeout \in Nat
    BY <1>7, GuardAssumption
  <2>3. ASSUME NEW b \in Nat PROVE wrong <= b => wrong' <= b
    BY <1>7, <2>2
  <2>4. Age \in Nat /\ UpdateTimeout + 1 \in Nat
    BY <1>1, <2>2, ViewTypes
  <2>5. Believing' => wrong' <= Age'
    BY <1>1, <1>3, <2>1, <2>3, <2>4 DEF PromptOK
  <2>6. \A i \in DOMAIN Wire' : RightValue(Wire[i])' => wrong' = 0
    <3>1. CASE Right'
      BY <3>1
    <3>2. CASE ~Right'
      BY <1>1, <1>4, <2>1, <3>2 DEF PromptOK
    <3>3. QED
      BY <3>1, <3>2
  <2>7. answer' = "passed" => wrong' <= UpdateTimeout
    <3>1. Allowed => wrong <= UpdateTimeout
      <4>1. Allowed => Believing /\ Age <= UpdateTimeout
        BY AllowedIsBelieved DEF Believing, Fresh
      <4>2. QED
        BY <1>1, <1>7, <2>1, <2>2, <2>4, <4>1 DEF PromptOK
    <3>2. answer' = "passed" => answer = "passed" \/ Allowed
      BY DEF Quiet
    <3>3. QED
      BY <1>1, <2>1, <2>2, <2>3, <3>1, <3>2 DEF PromptOK
  <2>8. Engaged' => wrong' <= UpdateTimeout + 1
    BY <1>1, <1>5, <2>1, <2>3, <2>4 DEF PromptOK
  <2>9. Idle' /\ currentlyActive' /\ "check" \notin due' => wrong' <= UpdateTimeout
    BY <1>1, <1>2, <1>5, <2>1, <2>2, <2>3 DEF PromptOK
  <2>10. ~Idle' => "check" \notin due'
    BY <1>1, <1>5, <2>1 DEF PromptOK
  <2>11. QED
    BY <2>5, <2>6, <2>7, <2>8, <2>9, <2>10 DEF PromptOK
<1>9. BudgetOK'
  <2>1. SUFFICES ASSUME Blocking, ~Right' PROVE BudgetOK'
    BY <1>5 DEF BudgetOK
  <2>2. Rem' = Rem
    BY <1>2, <1>3, <1>5 DEF Rem, Left, Ahead, Serving, SwitchTime
  <2>3. WaitOK /\ WaitOK'
    BY <1>1, <1>6, WaitIsOK, WaitIsOKNext
  <2>4. CASE Right
    <3>1. wrong' = 0
      BY <1>1, <2>1, <2>4 DEF ClockOK
    <3>2. QED
      BY <1>1, <1>5, <2>1, <2>2, <2>3, <3>1, BudgetBegins
  <2>5. CASE ~Right
    <3>1. \A i \in DOMAIN Wire' : RightValue(Wire[i])' =>
            \E j \in DOMAIN Wire : i <= j /\ RightValue(Wire[j])
      BY <1>4, <2>1
    <3>2. wrong' + Rem' <= wrong + Rem
      <4>1. wrong' = wrong
        BY <2>1
      <4>2. Rem \in Nat
        BY <1>1, <2>1, <2>3, RemBounds, ServingIsNat
      <4>3. QED
        BY <1>7, <2>2, <4>1, <4>2
    <3>3. QED
      BY <1>1, <1>3, <1>5, <2>1, <2>3, <2>5, <3>1, <3>2, BudgetFalls
  <2>6. QED
    BY <2>4, <2>5
<1>10. QED
  BY <1>4, <1>6, <1>8, <1>9 DEF GuardInv

----------------------------------------------------------------------------
(* A message is served, of the half that is watched or of the other one.   *)

\* What the budget asks of a step that does not touch the watched half of the view.
LEMMA SameWireBudget ==
  ASSUME HistTypeOK, HistTypeOK', WaitOK, WaitOK', Blocking, Blocking', BudgetOK,
         watched' = watched, Right' <=> Right, Wire' = Wire,
         wrong' = IF Right' THEN 0 ELSE wrong,
         ~Right => Rem' <= Rem,
         ~Right /\ (Believing' \/ Engaged') => Believing \/ Engaged
  PROVE  BudgetOK'
<1>1. Right' <=> Right
  OBVIOUS
<1>2. SUFFICES ASSUME ~Right' PROVE BudgetOK'
  BY DEF BudgetOK
<1>3. wrong' = wrong /\ ~Right
  BY <1>1, <1>2
<1>4. wrong' + Rem' <= wrong + Rem
  <2>1. wrong \in Nat /\ Rem \in Nat /\ Rem' \in Nat
    BY RemBounds, RemIsNatNext, ServingIsNat, LagIsNat DEF HistTypeOK
  <2>2. \A w, r, q \in Nat : q <= r => w + q <= w + r
    OBVIOUS
  <2>3. QED
    BY <1>3, <2>1, <2>2, Zenon
<1>5. ASSUME NEW i \in DOMAIN Wire', RightValue(Wire[i])'
      PROVE  \E j \in DOMAIN Wire : i <= j /\ RightValue(Wire[j])
  <2>1. i \in DOMAIN Wire /\ RightValue(Wire[i])
    BY <1>5 DEF RightValue
  <2>2. i <= i
    BY <2>1, ViewTypes, QueueDomain
  <2>3. QED
    BY <2>1, <2>2
<1>6. QED
  BY <1>3, <1>4, <1>5, BudgetFalls

\* A step between two switches that leaves the nodes, the flag and the answer alone.
BetweenSwitches ==
  /\ Idle /\ SameRobot
  /\ UNCHANGED <<program, currentlyActive, todo, waited, active, due, answer>>

LEMMA ServeSwitch ==
  ASSUME SwitchOK, BetweenSwitches
  PROVE  /\ SwitchOK' /\ (Blocking' <=> Blocking) /\ (Engaged' <=> Engaged)
         /\ Idle' /\ (Engaged <=> currentlyActive)
<1>1. /\ Idle /\ Idle' /\ UNCHANGED <<program, currentlyActive, todo, waited, active, due, answer>>
  BY DEF BetweenSwitches, Idle
<1>2. (Engaged' <=> Engaged) /\ (Engaged <=> currentlyActive) /\ (Blocking' <=> Blocking)
  BY <1>1 DEF Engaged, Blocking
<1>3. SwitchOK'
  BY <1>1, <1>2 DEF SwitchOK, Idle
<1>4. QED
  BY <1>1, <1>2, <1>3

LEMMA ServeStep ==
  ASSUME GuardInv, HistTypeOK', watched' = watched, BetweenSwitches, Served,
         wrong' = IF Right' THEN 0 ELSE wrong
  PROVE  GuardInv'
<1>1. HistTypeOK /\ ClockOK /\ SwitchOK /\ PromptOK /\ BudgetOK
  BY DEF GuardInv
<1>2. UNCHANGED <<program, currentlyActive, todo, waited, due, answer>> /\ Idle
  BY DEF BetweenSwitches
<1>3. /\ ClockOK' /\ (Right' <=> Right)
      /\ 1 \in DOMAIN Wire /\ Seen' = Wire[1]
      /\ \A i \in DOMAIN Wire' : i + 1 \in DOMAIN Wire /\ Wire'[i] = Wire[i + 1]
  BY <1>1, ServedView, RobotIsSame DEF BetweenSwitches
<1>4. /\ SwitchOK' /\ (Blocking' <=> Blocking) /\ (Engaged' <=> Engaged)
      /\ Idle' /\ (Engaged <=> currentlyActive)
  BY <1>1, ServeSwitch
<1>5. wrong \in Nat /\ (wrong' = 0 \/ wrong' = wrong)
  BY <1>1, LagIsNat DEF HistTypeOK
<1>6. PromptOK'
  <2>1. SUFFICES ASSUME ~Blocking PROVE PromptOK'
    BY <1>4 DEF PromptOK
  <2>2. Believing' => wrong' <= Age'
    <3>1. RightValue(Seen)' => RightValue(Wire[1])
      BY <1>3 DEF RightValue
    <3>2. Believing' => wrong' = 0
      BY <1>1, <1>3, <1>5, <2>1, <3>1 DEF PromptOK, Believing
    <3>3. QED
      BY <3>2 DEF Served
  <2>3. ASSUME NEW i \in DOMAIN Wire', RightValue(Wire[i])' PROVE wrong' = 0
    <3>1. i + 1 \in DOMAIN Wire /\ RightValue(Wire[i + 1])
      BY <1>3, <2>3 DEF RightValue
    <3>2. QED
      BY <1>1, <1>5, <2>1, <3>1 DEF PromptOK
  <2>4. UpdateTimeout \in Nat /\ wrong' <= wrong
    BY <1>5, GuardAssumption
  <2>5. ASSUME NEW b \in Nat PROVE wrong <= b => wrong' <= b
    BY <1>5, <2>4
  <2>6. UpdateTimeout + 1 \in Nat
    BY <2>4
  <2>7. QED
    BY <1>1, <1>2, <1>4, <2>1, <2>2, <2>3, <2>4, <2>5, <2>6 DEF PromptOK
<1>7. BudgetOK'
  <2>1. SUFFICES ASSUME Blocking, ~Right, ~Right', wrong' = wrong PROVE BudgetOK'
    BY <1>3, <1>4 DEF BudgetOK
  <2>2. WaitOK /\ WaitOK'
    BY <1>1, <1>4, WaitIsOK, WaitIsOKNext
  <2>3. /\ Rem \in Nat /\ Serving \in Nat
        /\ Believing => Rem >= 2 * SwitchTime
        /\ SwitchTime + 1 <= 2 * SwitchTime /\ SwitchTime \in Nat
    BY <1>1, <2>1, <2>2, RemBounds, ServingIsNat, SwitchTimeIsNat
  <2>4. CASE RightValue(Wire[1])
    <3>1. Believing' /\ Age' = 0
      BY <1>3, <2>4, GuardAssumption DEF Believing, RightValue, Fresh, Served
    <3>2. Rem' = Serving
      <4>1. Rem' = Serving' - 0
        BY <3>1 DEF Rem
      <4>2. Serving' = Serving
        BY DEF Serving, SwitchTime
      <4>3. QED
        BY <2>3, <4>1, <4>2
    <3>3. Lag' = Lag /\ Lag \in Nat
      BY <1>2, LagIsNat DEF Lag, SwitchTime
    <3>4. wrong + Rem + 1 * Serving <= Lag
      BY <1>1, <1>3, <2>1, <2>4 DEF BudgetOK
    <3>5. wrong + Serving <= Lag
      BY <1>5, <2>3, <3>3, <3>4, ServingTimes
    <3>6. ASSUME NEW i \in DOMAIN Wire', RightValue(Wire[i])'
          PROVE  wrong + Serving + i * Serving <= Lag
      <4>1. i + 1 \in DOMAIN Wire /\ RightValue(Wire[i + 1])
        BY <1>3, <3>6 DEF RightValue
      <4>2. wrong + Rem + (i + 1) * Serving <= Lag
        BY <1>1, <2>1, <4>1 DEF BudgetOK
      <4>3. i \in Nat
        <5>1. Wire' \in QueueOf(Values')
          BY ViewTypes
        <5>2. QED
          BY <3>6, <5>1, QueueDomain
      <4>4. (i + 1) * Serving = i * Serving + Serving /\ i * Serving \in Nat
        BY <4>3, ServingTimes
      <4>5. QED
        BY <1>5, <2>3, <3>3, <4>2, <4>4
    <3>7. Serving' = Serving
      BY DEF Serving, SwitchTime
    <3>8. wrong' + Rem' <= Lag'
      BY <2>1, <3>2, <3>3, <3>5
    <3>9. \A i \in DOMAIN Wire' : RightValue(Wire[i])' => wrong' + Rem' + i * Serving' <= Lag'
      BY <2>1, <3>2, <3>3, <3>6, <3>7
    <3>10. QED
      BY <3>8, <3>9 DEF BudgetOK
  <2>5. CASE ~RightValue(Wire[1])
    <3>1. ~Believing'
      BY <1>3, <2>5 DEF Believing, RightValue
    <3>2. Rem' <= Rem
      <4>1. CASE currentlyActive
        <5>1. Rem' = SwitchTime + IF "check" \in due THEN 0 ELSE 1
          BY <1>2, <1>4, <3>1, <4>1 DEF Rem, SwitchTime
        <5>2. ~Believing => Rem = SwitchTime + IF "check" \in due THEN 0 ELSE 1
          BY <1>2, <4>1 DEF Rem
        <5>3. QED
          BY <2>3, <5>1, <5>2
      <4>2. CASE ~currentlyActive
        <5>1. Rem' = 0
          BY <1>2, <1>4, <3>1, <4>2 DEF Rem
        <5>2. QED
          BY <2>3, <5>1
      <4>3. QED
        BY <4>1, <4>2
    <3>3. wrong' + Rem' <= wrong + Rem
      <4>1. Rem' \in Nat
        BY <2>2, RemIsNatNext
      <4>2. \A w, r, q \in Nat : q <= r => w + q <= w + r
        OBVIOUS
      <4>3. QED
        BY <1>5, <2>1, <2>3, <3>2, <4>1, <4>2, Zenon
    <3>4. ASSUME NEW i \in DOMAIN Wire', RightValue(Wire[i])'
          PROVE  \E j \in DOMAIN Wire : i <= j /\ RightValue(Wire[j])
      <4>1. i + 1 \in DOMAIN Wire /\ RightValue(Wire[i + 1])
        BY <1>3, <3>4 DEF RightValue
      <4>2. i <= i + 1
        <5>1. Wire' \in QueueOf(Values')
          BY ViewTypes
        <5>2. i \in Nat
          BY <3>4, <5>1, QueueDomain
        <5>3. QED
          BY <5>2
      <4>3. QED
        BY <4>1, <4>2
    <3>5. QED
      BY <1>1, <1>4, <2>1, <2>2, <3>1, <3>3, <3>4, BudgetFalls
  <2>6. QED
    BY <2>4, <2>5
<1>8. QED
  BY <1>3, <1>4, <1>6, <1>7 DEF GuardInv

LEMMA OtherStep ==
  ASSUME GuardInv, HistTypeOK', watched' = watched, BetweenSwitches,
         Wire' = Wire, Seen' = Seen, Age' = Age,
         wrong' = IF Right' THEN 0 ELSE wrong
  PROVE  GuardInv'
<1>1. HistTypeOK /\ ClockOK /\ SwitchOK /\ PromptOK /\ BudgetOK
  BY DEF GuardInv
<1>2. UNCHANGED <<program, currentlyActive, todo, waited, due, answer>> /\ Idle
  BY DEF BetweenSwitches
<1>3. /\ ClockOK' /\ (Right' <=> Right) /\ (wrong' = 0 \/ wrong' = wrong)
  BY <1>1, RobotIsSame DEF BetweenSwitches
<1>4. /\ SwitchOK' /\ (Blocking' <=> Blocking) /\ (Engaged' <=> Engaged)
      /\ Idle' /\ (Engaged <=> currentlyActive)
  BY <1>1, ServeSwitch
<1>5. Believing' <=> Believing
  BY DEF Believing, RightValue, Fresh
<1>6. PromptOK'
  <2>1. SUFFICES ASSUME ~Blocking PROVE PromptOK'
    BY <1>4 DEF PromptOK
  <2>2. /\ wrong \in Nat /\ Age \in Nat /\ UpdateTimeout \in Nat /\ UpdateTimeout + 1 \in Nat
    BY <1>1, ViewTypes, LagIsNat DEF HistTypeOK
  <2>3. ASSUME NEW b \in Nat PROVE wrong <= b => wrong' <= b
    BY <1>3, <2>2
  <2>4. Believing' => wrong' <= Age'
    BY <1>1, <1>5, <2>1, <2>2, <2>3 DEF PromptOK
  <2>5. \A i \in DOMAIN Wire' : RightValue(Wire[i])' => wrong' = 0
    BY <1>1, <1>3, <2>1 DEF PromptOK, RightValue
  <2>6. QED
    BY <1>1, <1>2, <1>4, <2>1, <2>2, <2>3, <2>4, <2>5 DEF PromptOK
<1>7. BudgetOK'
  <2>1. SUFFICES ASSUME Blocking, Blocking' PROVE BudgetOK'
    BY <1>4 DEF BudgetOK
  <2>2. WaitOK /\ WaitOK'
    BY <1>1, <1>4, WaitIsOK, WaitIsOKNext
  <2>3. Rem' = Rem
    BY <1>2, <1>4, <1>5 DEF Rem, Left, Ahead, Serving, SwitchTime
  <2>4. Rem' <= Rem
    <3>1. Rem \in Nat
      BY <1>1, <2>1, <2>2, RemBounds, ServingIsNat
    <3>2. \A r \in Nat : r <= r
      OBVIOUS
    <3>3. QED
      BY <2>3, <3>1, <3>2, Zenon
  <2>5. QED
    BY <1>1, <1>3, <1>4, <1>5, <2>1, <2>2, <2>4, SameWireBudget
<1>8. QED
  BY <1>3, <1>4, <1>6, <1>7 DEF GuardInv

----------------------------------------------------------------------------
(* The check, which may start a switch.                                    *)

LEMMA NoNodes == Managed = << >> => Nodes = {} /\ Flaky = {}
<1> SUFFICES ASSUME Managed = << >> PROVE Nodes = {} /\ Flaky = {}
  OBVIOUS
<1>1. DOMAIN Managed = {}
  <2>1. Len(Managed) = 0
    BY EmptySeq
  <2>2. 1 .. 0 = {}
    OBVIOUS
  <2>3. QED
    BY <2>1, <2>2, ManagedIsSeq
<1>2. QED
  BY <1>1, FlakyIsFinite DEF Nodes

LEMMA CheckStarts ==
  ASSUME TypeOK, CheckCallback
  PROVE  /\ Idle /\ "check" \in due /\ "check" \notin due'
         /\ UNCHANGED <<program, waited, active, answer, state, mode, up, stateWire, modeWire>>
         /\ due' \subseteq due
         /\ UNCHANGED <<seenState, seenMode, stateAge, modeAge>>
         /\ \/ /\ Allowed <=> ~currentlyActive
               /\ todo' = Managed
               /\ Managed = << >> => (currentlyActive' <=> Allowed)
               /\ Managed # << >> => (currentlyActive' <=> currentlyActive)
            \/ /\ Allowed <=> currentlyActive
               /\ todo' = todo /\ (currentlyActive' <=> currentlyActive)
<1>1. currentlyActive \in BOOLEAN /\ Allowed \in BOOLEAN
  BY DEF TypeOK, Allowed, StateGranted
<1>2. /\ Idle /\ "check" \in due /\ "check" \notin due'
      /\ UNCHANGED <<program, waited, active, answer, state, mode, up, stateWire, modeWire>>
      /\ due' \subseteq due
      /\ UNCHANGED <<seenState, seenMode, stateAge, modeAge>>
  BY DEF CheckCallback, robotVars, wireVars, nodeVars, guardVars
<1>3. \/ Allowed # currentlyActive /\ todo' = Managed /\ SwitchOver(Managed)
      \/ Allowed = currentlyActive /\ todo' = todo /\ currentlyActive' = currentlyActive
  BY Zenon DEF CheckCallback
<1>4. CASE Allowed # currentlyActive /\ todo' = Managed /\ SwitchOver(Managed)
  <2>1. Allowed <=> ~currentlyActive
    BY <1>1, <1>4, Zenon
  <2>2. /\ Managed = << >> => (currentlyActive' <=> ~currentlyActive)
        /\ Managed # << >> => (currentlyActive' <=> currentlyActive)
    BY <1>4, Zenon DEF SwitchOver
  <2>3. QED
    BY <1>2, <1>4, <2>1, <2>2, Zenon
<1>5. CASE Allowed = currentlyActive /\ todo' = todo /\ currentlyActive' = currentlyActive
  BY <1>1, <1>2, <1>5, Zenon
<1>6. QED
  BY <1>3, <1>4, <1>5

LEMMA CheckStep ==
  ASSUME GuardInv, HistTypeOK', watched' = watched, CheckCallback,
         wrong' = IF Right' THEN 0 ELSE wrong
  PROVE  GuardInv'
<1>1. HistTypeOK /\ ClockOK /\ SwitchOK /\ PromptOK /\ BudgetOK /\ TypeOK
  BY DEF GuardInv, HistTypeOK
<1>2. /\ Idle /\ "check" \in due /\ "check" \notin due'
      /\ UNCHANGED <<program, waited, active, answer, state, mode, up, stateWire, modeWire>>
      /\ due' \subseteq due
      /\ UNCHANGED <<seenState, seenMode, stateAge, modeAge>>
  BY <1>1, CheckStarts
<1>3. Wire' = Wire /\ (Blocking' <=> Blocking)
  BY <1>2 DEF Wire, Blocking
<1>4. /\ Seen' = Seen /\ Age' = Age
      /\ Allowed' <=> Allowed
      /\ Believing' <=> Believing
      /\ RightValue(Seen)' <=> RightValue(Seen)
  BY <1>2, SameView
<1>5. /\ ClockOK' /\ (Right' <=> Right) /\ (wrong' = 0 \/ wrong' = wrong)
  <2>1. Right' <=> Right
    BY <1>2 DEF Right, StateRight, ModeRight
  <2>2. QED
    BY <1>1, <1>2, <2>1 DEF ClockOK
<1>6. program = "lifecycle" /\ waited' = 0 /\ waited = 0
  <2>1. ~(waited > 0) /\ waited \in 0 .. ServiceWait
    BY <1>1, <1>2 DEF SwitchOK, Idle, TypeOK
  <2>2. waited = 0
    BY <2>1, NodesAssumption
  <2>3. QED
    BY <1>1, <1>2, <2>2 DEF SwitchOK
<1>7. Engaged <=> currentlyActive
  BY <1>2 DEF Engaged
<1>8. Believing \/ ~Allowed
  BY AllowedIsBelieved
\* The two outcomes, a switch over at once when there is nothing to manage.
<1>9. \/ /\ Allowed <=> ~currentlyActive
         /\ ~Idle' /\ todo' = Managed /\ (currentlyActive' <=> currentlyActive)
      \/ /\ Idle' /\ (currentlyActive' <=> Allowed)
         /\ Managed = << >> \/ (Allowed <=> currentlyActive)
  BY <1>1, <1>2, CheckStarts DEF Idle
<1>10. SwitchOK'
  <2>1. CASE (Allowed <=> ~currentlyActive) /\ ~Idle' /\ todo' = Managed
             /\ (currentlyActive' <=> currentlyActive)
    <3>1. active \ Flaky \subseteq Range(todo')
      BY <1>1, <2>1, ManagedIsSeq DEF TypeOK
    <3>2. QED
      BY <1>1, <1>2, <1>4, <1>6, <2>1, <3>1 DEF SwitchOK, Idle, Engaged
  <2>2. CASE Idle' /\ (currentlyActive' <=> Allowed) /\ (Managed = << >> \/ (Allowed <=> currentlyActive))
    <3>1. ~currentlyActive' => active \subseteq Flaky
      <4>1. CASE Managed = << >>
        BY <1>1, <4>1, NoNodes DEF TypeOK
      <4>2. CASE Allowed <=> currentlyActive
        BY <1>1, <1>7, <2>2, <4>2 DEF SwitchOK
      <4>3. QED
        BY <2>2, <4>1, <4>2
    <3>2. QED
      BY <1>1, <1>2, <1>6, <2>2, <3>1 DEF SwitchOK, Idle, Engaged
  <2>3. QED
    BY <1>9, <2>1, <2>2
<1>11. Believing' \/ Engaged' => Believing \/ Engaged
  BY <1>4, <1>7, <1>8, <1>9 DEF Engaged
<1>12. PromptOK'
  <2>1. SUFFICES ASSUME ~Blocking PROVE PromptOK'
    BY <1>3 DEF PromptOK
  <2>2. wrong \in Nat
    BY <1>1, LagIsNat DEF HistTypeOK
  <2>3. Allowed => wrong <= UpdateTimeout
    <3>1. Allowed => Believing /\ Age <= UpdateTimeout
      BY AllowedIsBelieved DEF Believing, Fresh
    <3>2. Age \in Nat /\ UpdateTimeout \in Nat
      BY <1>1, ViewTypes, LagIsNat
    <3>3. QED
      BY <1>1, <2>1, <2>2, <3>1, <3>2 DEF PromptOK
  <2>4. UpdateTimeout \in Nat /\ UpdateTimeout + 1 \in Nat /\ Age \in Nat
    BY <1>1, ViewTypes, LagIsNat
  <2>5. ASSUME NEW b \in Nat PROVE wrong <= b => wrong' <= b
    BY <1>5, <2>2
  <2>6. wrong <= UpdateTimeout => wrong <= UpdateTimeout + 1
    BY <2>2, <2>4
  <2>7. Engaged' => wrong' <= UpdateTimeout + 1
    <3>1. Engaged' => Engaged \/ Allowed
      BY <1>7, <1>9 DEF Engaged
    <3>2. QED
      BY <1>1, <2>1, <2>3, <2>4, <2>5, <2>6, <3>1 DEF PromptOK
  <2>8. Idle' /\ currentlyActive' => wrong' <= UpdateTimeout
    BY <1>9, <2>3, <2>4, <2>5
  <2>9. \A i \in DOMAIN Wire' : RightValue(Wire[i])' => wrong' = 0
    BY <1>1, <1>3, <1>5, <2>1 DEF PromptOK, RightValue
  <2>10. Believing' => wrong' <= Age'
    BY <1>1, <1>4, <2>1, <2>4, <2>5 DEF PromptOK
  <2>11. answer' = "passed" => wrong' <= UpdateTimeout
    BY <1>1, <1>2, <1>6 DEF SwitchOK
  <2>12. QED
    BY <1>2, <2>7, <2>8, <2>9, <2>10, <2>11 DEF PromptOK
<1>13. BudgetOK'
  <2>1. SUFFICES ASSUME Blocking, Blocking' PROVE BudgetOK'
    BY <1>3 DEF BudgetOK
  <2>2. WaitOK /\ WaitOK'
    BY <1>1, <1>10, WaitIsOK, WaitIsOKNext
  <2>3. Managed # << >>
    BY <2>1, NoNodes DEF Blocking
  <2>4. Rem \in Nat /\ SwitchTime \in Nat /\ Rem' \in Nat
    BY <1>1, <2>1, <2>2, RemBounds, RemIsNatNext, ServingIsNat, SwitchTimeIsNat
  <2>5. Rem' <= Rem
    <3>1. CASE Believing
      <4>1. Rem' = Rem
        BY <1>4, <3>1 DEF Rem, Serving, SwitchTime
      <4>2. QED
        BY <2>4, <4>1
    <3>2. CASE ~Believing /\ currentlyActive
      <4>1. ~Idle' /\ currentlyActive'
        BY <1>8, <1>9, <2>3, <3>2
      <4>2. Rem' = Left'
        BY <1>4, <3>2, <4>1 DEF Rem
      <4>3. Rem = SwitchTime + 0
        BY <1>2, <3>2 DEF Rem
      <4>4. Left' \in 0 .. SwitchTime
        BY <2>2, LeftBounds
      <4>5. \A l \in 0 .. SwitchTime : l <= SwitchTime + 0
        BY <2>4
      <4>6. QED
        BY <4>2, <4>3, <4>4, <4>5, Zenon
    <3>3. CASE ~Believing /\ ~currentlyActive
      <4>1. Idle' /\ ~currentlyActive'
        BY <1>8, <1>9, <3>3
      <4>2. Rem' = 0 /\ Rem = 0
        BY <1>2, <1>4, <3>3, <4>1 DEF Rem
      <4>3. QED
        BY <4>2
    <3>4. QED
      BY <3>1, <3>2, <3>3
  <2>6. QED
    BY <1>1, <1>3, <1>5, <1>11, <2>1, <2>2, <2>5, SameWireBudget
<1>14. QED
  BY <1>5, <1>10, <1>12, <1>13 DEF GuardInv

----------------------------------------------------------------------------
(* A turn of the loop that switches the nodes.                             *)

LEMMA NoRange == Range(<< >>) = {}
<1>1. DOMAIN << >> = {}
  OBVIOUS
<1>2. QED
  BY <1>1 DEF Range

LEMMA TurnStarts ==
  ASSUME TypeOK, Ask \/ GiveUp
  PROVE  /\ todo # << >> /\ todo' = Tail(todo) /\ waited' = 0
         /\ UNCHANGED <<program, due, answer, state, mode, up, stateWire, modeWire>>
         /\ UNCHANGED <<seenState, seenMode, stateAge, modeAge>>
         /\ Tail(todo) = << >> => (currentlyActive' <=> ~currentlyActive)
         /\ Tail(todo) # << >> => (currentlyActive' <=> currentlyActive)
         /\ active' \subseteq active \cup {Head(todo)}
         /\ currentlyActive => Head(todo) \in Flaky \/ Head(todo) \notin active' \/ GiveUp
<1>1. SwitchOver(Tail(todo))
  BY DEF Ask, GiveUp
<1>2. /\ Tail(todo) = << >> => (currentlyActive' <=> ~currentlyActive)
      /\ Tail(todo) # << >> => (currentlyActive' <=> currentlyActive)
  BY <1>1, Zenon DEF SwitchOver
<1>3. /\ todo # << >> /\ todo' = Tail(todo) /\ waited' = 0
      /\ UNCHANGED <<program, due, answer, state, mode, up, stateWire, modeWire>>
      /\ UNCHANGED <<seenState, seenMode, stateAge, modeAge>>
      /\ active' \subseteq active \cup {Head(todo)}
      /\ currentlyActive => Head(todo) \in Flaky \/ Head(todo) \notin active' \/ GiveUp
  <2>1. CASE Ask
    <3>1. /\ todo # << >> /\ todo' = Tail(todo) /\ waited' = 0
          /\ UNCHANGED <<program, due, answer, state, mode, up, stateWire, modeWire>>
          /\ UNCHANGED <<seenState, seenMode, stateAge, modeAge>>
      BY <2>1 DEF Ask, Serves, robotVars, wireVars, guardVars
    <3>2. /\ active' \subseteq active \cup {Head(todo)}
          /\ currentlyActive => Head(todo) \in Flaky \/ Head(todo) \notin active'
      BY <2>1 DEF Ask
    <3>3. QED
      BY <3>1, <3>2
  <2>2. CASE GiveUp
    BY <2>2 DEF GiveUp, Idle, robotVars, wireVars, nodeVars, guardVars
  <2>3. QED
    BY <2>1, <2>2
<1>4. QED
  BY <1>2, <1>3

LEMMA TurnStep ==
  ASSUME GuardInv, HistTypeOK', watched' = watched, Ask \/ GiveUp,
         wrong' = IF Right' THEN 0 ELSE wrong
  PROVE  GuardInv'
<1>1. HistTypeOK /\ ClockOK /\ SwitchOK /\ PromptOK /\ BudgetOK /\ TypeOK
  BY DEF GuardInv, HistTypeOK
<1>2. /\ todo # << >> /\ todo' = Tail(todo) /\ waited' = 0
      /\ UNCHANGED <<program, due, answer, state, mode, up, stateWire, modeWire>>
      /\ UNCHANGED <<seenState, seenMode, stateAge, modeAge>>
      /\ Tail(todo) = << >> => (currentlyActive' <=> ~currentlyActive)
      /\ Tail(todo) # << >> => (currentlyActive' <=> currentlyActive)
      /\ active' \subseteq active \cup {Head(todo)}
  BY <1>1, TurnStarts
<1>3. Wire' = Wire /\ (Blocking' <=> Blocking)
  BY <1>2 DEF Wire, Blocking
<1>4. /\ Seen' = Seen /\ Age' = Age
      /\ Allowed' <=> Allowed
      /\ Believing' <=> Believing
      /\ RightValue(Seen)' <=> RightValue(Seen)
  BY <1>2, SameView
<1>5. /\ ClockOK' /\ (Right' <=> Right) /\ (wrong' = 0 \/ wrong' = wrong)
  <2>1. Right' <=> Right
    BY <1>2 DEF Right, StateRight, ModeRight
  <2>2. QED
    BY <1>1, <1>2, <2>1 DEF ClockOK
<1>6. ~Idle /\ Engaged /\ program = "lifecycle" /\ (Idle' <=> Tail(todo) = << >>)
  BY <1>1, <1>2 DEF Idle, Engaged, SwitchOK
<1>7. "check" \notin due => (Allowed <=> ~currentlyActive)
  BY <1>1, <1>6 DEF SwitchOK
<1>8. /\ Range(todo) = {Head(todo)} \cup Range(Tail(todo)) /\ Head(todo) \notin Range(Tail(todo))
  BY <1>1, <1>2, TodoStep
\* A deactivation leaves the node that was asked to the services that come and go.
<1>9. currentlyActive => active' \ Flaky \subseteq Range(Tail(todo))
  <2>1. SUFFICES ASSUME currentlyActive PROVE active' \ Flaky \subseteq Range(Tail(todo))
    OBVIOUS
  <2>2. active \ Flaky \subseteq Range(todo)
    BY <1>1, <1>6, <2>1 DEF SwitchOK
  <2>3. Head(todo) \in Flaky \/ Head(todo) \notin active'
    <3>1. CASE GiveUp
      <4>1. waited = ServiceWait
        BY <3>1 DEF GiveUp
      <4>2. waited > 0
        BY <4>1, NodesAssumption
      <4>3. QED
        BY <1>1, <4>2 DEF SwitchOK
    <3>2. CASE ~GiveUp
      BY <1>1, <2>1, <3>2, TurnStarts
    <3>3. QED
      BY <3>1, <3>2
  <2>4. QED
    BY <1>2, <1>8, <2>2, <2>3
<1>10. SwitchOK'
  <2>1. ~Engaged' => active' \subseteq Flaky
    <3>1. SUFFICES ASSUME ~Engaged' PROVE active' \subseteq Flaky
      OBVIOUS
    <3>2. Tail(todo) = << >> /\ currentlyActive
      BY <1>2, <1>6, <3>1 DEF Engaged
    <3>3. Range(Tail(todo)) = {}
      BY <3>2, NoRange
    <3>4. QED
      BY <1>9, <3>2, <3>3
  <2>2. ~Idle' /\ currentlyActive' => active' \ Flaky \subseteq Range(todo')
    BY <1>2, <1>6, <1>9
  <2>3. ~Idle' /\ "check" \notin due' => (Allowed' <=> ~currentlyActive')
    BY <1>2, <1>4, <1>6, <1>7
  <2>4. ~(waited' > 0)
    BY <1>2
  <2>5. program' = "lifecycle" /\ answer' # "passed"
    BY <1>1, <1>2, <1>6 DEF SwitchOK
  <2>6. QED
    BY <2>1, <2>2, <2>3, <2>4, <2>5 DEF SwitchOK
<1>11. Believing' \/ Engaged' => Believing \/ Engaged
  BY <1>6
<1>12. PromptOK'
  <2>1. SUFFICES ASSUME ~Blocking PROVE PromptOK'
    BY <1>3 DEF PromptOK
  <2>2. wrong \in Nat
    BY <1>1, LagIsNat DEF HistTypeOK
  <2>3. UpdateTimeout \in Nat /\ UpdateTimeout + 1 \in Nat /\ Age \in Nat
    BY <1>1, ViewTypes, LagIsNat
  <2>4. ASSUME NEW b \in Nat PROVE wrong <= b => wrong' <= b
    BY <1>5, <2>2
  <2>5. "check" \notin due' /\ wrong' <= UpdateTimeout + 1
    BY <1>1, <1>2, <1>6, <2>1, <2>3, <2>4 DEF PromptOK
  <2>6. Idle' /\ currentlyActive' => wrong' <= UpdateTimeout
    <3>1. SUFFICES ASSUME Idle', currentlyActive' PROVE wrong' <= UpdateTimeout
      OBVIOUS
    <3>2. Allowed
      BY <1>2, <1>6, <1>7, <2>5, <3>1
    <3>3. Believing /\ Age <= UpdateTimeout
      BY <3>2, AllowedIsBelieved DEF Believing, Fresh
    <3>4. wrong <= Age
      BY <1>1, <2>1, <3>3 DEF PromptOK
    <3>5. wrong <= UpdateTimeout
      BY <2>2, <2>3, <3>3, <3>4
    <3>6. QED
      BY <2>3, <2>4, <3>5
  <2>7. \A i \in DOMAIN Wire' : RightValue(Wire[i])' => wrong' = 0
    BY <1>1, <1>3, <1>5, <2>1 DEF PromptOK, RightValue
  <2>8. Believing' => wrong' <= Age'
    BY <1>1, <1>4, <2>1, <2>3, <2>4 DEF PromptOK
  <2>9. answer' = "passed" => wrong' <= UpdateTimeout
    BY <1>1, <1>2, <1>6 DEF SwitchOK
  <2>10. QED
    BY <2>5, <2>6, <2>7, <2>8, <2>9 DEF PromptOK
<1>13. BudgetOK'
  <2>1. SUFFICES ASSUME Blocking, Blocking' PROVE BudgetOK'
    BY <1>3 DEF BudgetOK
  <2>2. WaitOK /\ WaitOK'
    BY <1>1, <1>10, WaitIsOK, WaitIsOKNext
  <2>3. Rem \in Nat /\ SwitchTime \in Nat /\ Rem' \in Nat
    BY <1>1, <2>1, <2>2, RemBounds, RemIsNatNext, ServingIsNat, SwitchTimeIsNat
  <2>4. Left \in Nat /\ Left' \in Nat /\ Left' <= Left
    <3>1. Left \in 0 .. SwitchTime /\ Left' \in 0 .. SwitchTime
      BY <1>1, <2>2, LeftBounds
    <3>2. \A l \in 0 .. SwitchTime : l \in Nat
      BY <2>3
    <3>3. Left' <= Left
      BY <1>1, <1>2, <2>2, LeftAfterTurn
    <3>4. QED
      BY <3>1, <3>2, <3>3, Zenon
  <2>5. /\ \A k, l \in Nat : k <= l => k + SwitchTime <= l + SwitchTime
        /\ \A l \in Nat : SwitchTime + 0 <= l + SwitchTime /\ 0 <= l
    BY <2>3
  <2>6. Rem' <= Rem
    <3>1. CASE Believing
      <4>1. Rem' = Rem
        BY <1>4, <3>1 DEF Rem, Serving, SwitchTime
      <4>2. QED
        BY <2>3, <4>1
    <3>2. CASE ~Believing /\ ~currentlyActive
      <4>1. Rem = Left + SwitchTime
        BY <1>6, <3>2 DEF Rem
      <4>2. CASE Tail(todo) = << >>
        <5>1. "check" \in due'
          BY <1>2, <1>7, <3>2, AllowedIsBelieved
        <5>2. Rem' = SwitchTime + 0
          BY <1>2, <1>4, <1>6, <3>2, <4>2, <5>1 DEF Rem, SwitchTime
        <5>3. QED
          BY <2>4, <2>5, <4>1, <5>2, Zenon
      <4>3. CASE Tail(todo) # << >>
        <5>1. Rem' = Left' + SwitchTime
          BY <1>2, <1>4, <1>6, <3>2, <4>3 DEF Rem, SwitchTime
        <5>2. QED
          BY <2>4, <2>5, <4>1, <5>1, Zenon
      <4>4. QED
        BY <4>2, <4>3
    <3>3. CASE ~Believing /\ currentlyActive
      <4>1. Rem = Left
        BY <1>6, <3>3 DEF Rem
      <4>2. CASE Tail(todo) = << >>
        <5>1. Rem' = 0
          BY <1>2, <1>4, <1>6, <3>3, <4>2 DEF Rem
        <5>2. QED
          BY <2>4, <2>5, <4>1, <5>1, Zenon
      <4>3. CASE Tail(todo) # << >>
        <5>1. Rem' = Left'
          BY <1>2, <1>4, <1>6, <3>3, <4>3 DEF Rem
        <5>2. QED
          BY <2>4, <4>1, <5>1, Zenon
      <4>4. QED
        BY <4>2, <4>3
    <3>4. QED
      BY <3>1, <3>2, <3>3
  <2>7. QED
    BY <1>1, <1>3, <1>5, <1>11, <2>1, <2>2, <2>6, SameWireBudget
<1>14. QED
  BY <1>5, <1>10, <1>12, <1>13 DEF GuardInv

----------------------------------------------------------------------------
(* A tick.                                                                 *)

\* The thread blocks only for a service that may go.
LEMMA BlockedOnFlaky ==
  ASSUME TypeOK, Blocked
  PROVE  todo # << >> /\ Head(todo) \in Flaky /\ waited < ServiceWait
<1>1. todo # << >> /\ Head(todo) \notin serving /\ waited < ServiceWait
  BY DEF Blocked, Idle, Serves
<1>2. Head(todo) \in Nodes
  BY <1>1, TodoStep
<1>3. QED
  BY <1>1, <1>2 DEF TypeOK

LEMMA TickStep ==
  ASSUME GuardInv, HistTypeOK', watched' = watched, Tick,
         wrong' = IF Right THEN 0 ELSE IF wrong > Lag THEN wrong ELSE wrong + 1
  PROVE  GuardInv'
<1>1. HistTypeOK /\ ClockOK /\ SwitchOK /\ PromptOK /\ BudgetOK /\ TypeOK
  BY DEF GuardInv, HistTypeOK
<1>2. /\ UNCHANGED <<program, state, mode, up, stateWire, modeWire, currentlyActive, todo, active>>
      /\ UNCHANGED <<seenState, seenMode>>
      /\ "state" \in due' \/ "mode" \in due' => up
      /\ answer' = "none" /\ (program = "lifecycle" => "check" \in due')
      /\ program # "lifecycle" => "check" \notin due'
      /\ stateAge' = GuardOlder(stateAge) /\ modeAge' = GuardOlder(modeAge)
  BY DEF Tick, robotVars, wireVars, nodeVars, GuardTick
<1>3. /\ Wire' = Wire /\ Seen' = Seen /\ (Blocking' <=> Blocking)
      /\ (Idle' <=> Idle) /\ (Engaged' <=> Engaged) /\ (Right' <=> Right)
      /\ Age' = GuardOlder(Age)
      /\ RightValue(Seen)' <=> RightValue(Seen)
  BY <1>2 DEF Wire, Seen, Age, Blocking, Idle, Engaged, Right, StateRight, ModeRight, RightValue
<1>4. wrong \in Nat /\ Lag \in Nat /\ UpdateTimeout \in Nat
  BY <1>1, LagIsNat DEF HistTypeOK
<1>5. \/ Idle /\ "check" \notin due /\ Wire = << >> /\ waited' = waited
      \/ Blocked /\ waited' = waited + 1
  BY DEF Tick, Wire
<1>6. Blocked => ~Idle /\ Head(todo) \in Flaky /\ waited < ServiceWait /\ program = "lifecycle"
  BY <1>1, BlockedOnFlaky DEF Idle, SwitchOK
<1>7. ClockOK'
  BY <1>1, <1>2, <1>3 DEF ClockOK
<1>8. SwitchOK'
  <2>1. waited' > 0 => todo' # << >> /\ Head(todo') \in Flaky
    <3>1. CASE Idle /\ waited' = waited
      BY <1>1, <1>2, <3>1 DEF SwitchOK
    <3>2. CASE Blocked
      BY <1>2, <1>6, <3>2 DEF Idle
    <3>3. QED
      BY <1>5, <3>1, <3>2
  <2>2. ~(~Idle' /\ "check" \notin due')
    BY <1>1, <1>2, <1>3 DEF SwitchOK
  <2>3. QED
    BY <1>1, <1>2, <1>3, <2>1, <2>2 DEF SwitchOK
<1>9. PromptOK'
  <2>1. SUFFICES ASSUME ~Blocking PROVE PromptOK'
    BY <1>3 DEF PromptOK
  <2>2. Idle /\ "check" \notin due /\ Wire = << >>
    BY <1>5, <1>6, <2>1 DEF Blocking
  <2>3. DOMAIN Wire' = {}
    <3>1. DOMAIN << >> = {}
      OBVIOUS
    <3>2. QED
      BY <1>3, <2>2, <3>1
  <2>4. wrong' <= wrong + 1 /\ wrong' \in Nat
    BY <1>4
  <2>5. Engaged' => wrong' <= UpdateTimeout + 1
    <3>1. Engaged => wrong <= UpdateTimeout
      BY <1>1, <2>1, <2>2 DEF PromptOK, Engaged
    <3>2. wrong <= UpdateTimeout => wrong' <= UpdateTimeout + 1
      BY <1>4, <2>4
    <3>3. QED
      BY <1>3, <3>1, <3>2
  <2>6. "check" \notin due' => ~currentlyActive'
    BY <1>1, <1>2 DEF SwitchOK
  <2>7. Believing' => wrong' <= Age'
    <3>1. Age \in 0 .. UpdateTimeout + 1
      BY <1>1, ViewTypes
    <3>2. Fresh(Age') => Fresh(Age) /\ Age' = Age + 1
      BY <1>3, <1>4, <3>1 DEF Fresh, GuardOlder
    <3>3. Believing' => Believing /\ Age' = Age + 1
      BY <1>3, <3>2 DEF Believing, Fresh
    <3>4. wrong <= Age => wrong' <= Age + 1
      BY <1>4, <2>4, <3>1
    <3>5. QED
      BY <1>1, <2>1, <3>3, <3>4 DEF PromptOK
  <2>8. QED
    BY <1>2, <1>3, <2>2, <2>3, <2>5, <2>6, <2>7 DEF PromptOK
<1>10. BudgetOK'
  <2>1. SUFFICES ASSUME Blocking, Blocking', ~Right, ~Right' PROVE BudgetOK'
    BY <1>3 DEF BudgetOK
  <2>2. WaitOK /\ WaitOK' /\ program = "lifecycle"
    BY <1>1, <1>8, <2>1, WaitIsOK, WaitIsOKNext DEF Blocking
  <2>3. /\ Rem \in Nat /\ SwitchTime \in Nat /\ Rem' \in Nat /\ Serving' = Serving
        /\ Serving \in Nat /\ Serving = UpdateTimeout + 2 * SwitchTime /\ UpdateTimeout \in Nat
    BY <1>1, <2>1, <2>2, RemBounds, RemIsNatNext, ServingIsNat, SwitchTimeIsNat DEF Serving, SwitchTime
  <2>4. CASE Idle /\ "check" \notin due /\ Wire = << >>
    <3>1. \A i \in DOMAIN Wire' : FALSE
      <4>1. DOMAIN << >> = {}
        OBVIOUS
      <4>2. QED
        BY <1>3, <2>4, <4>1
    <3>2. Age \in 0 .. UpdateTimeout + 1 /\ SwitchTime >= 1
      BY <1>1, <2>1, ViewTypes, SwitchTimeIsNat DEF Blocking
    <3>3. wrong' <= wrong + 1 /\ wrong' \in Nat
      BY <1>4, <2>1
    <3>4. Fresh(Age') => Fresh(Age) /\ Age' = Age + 1
      BY <1>3, <1>4, <3>2 DEF Fresh, GuardOlder
    <3>5. Fresh(Age) /\ ~Fresh(Age') => Age = UpdateTimeout
      BY <1>3, <1>4, <3>2 DEF Fresh, GuardOlder
    <3>6. ASSUME Rem >= 1, Rem' <= Rem - 1, Believing \/ Engaged PROVE BudgetOK'
      <4>1. \A v, w, q, r \in Nat : v <= w + 1 /\ r >= 1 /\ q <= r - 1 => v + q <= w + r
        OBVIOUS
      <4>2. wrong' + Rem' <= wrong + Rem
        BY <1>4, <2>3, <3>3, <3>6, <4>1, Zenon
      <4>3. QED
        BY <1>1, <2>1, <2>2, <3>1, <3>6, <4>2, BudgetFalls
    <3>7. CASE Believing'
      <4>1. Believing /\ Age' = Age + 1 /\ Age <= UpdateTimeout
        BY <1>3, <3>4, <3>7 DEF Believing, Fresh
      <4>2. Rem = Serving - Age
        BY <4>1 DEF Rem
      <4>3. Rem' = Serving' - Age'
        BY <3>7 DEF Rem
      <4>4. Rem >= 1 /\ Rem' <= Rem - 1
        BY <2>3, <3>2, <4>1, <4>2, <4>3
      <4>5. QED
        BY <3>6, <4>1, <4>4
    <3>8. CASE ~Believing' /\ Believing
      <4>1. Age = UpdateTimeout
        <5>1. Fresh(Age) /\ ~Fresh(Age')
          BY <1>3, <3>8 DEF Believing, Fresh
        <5>2. QED
          BY <3>5, <5>1
      <4>2. Rem = Serving - Age
        BY <3>8 DEF Rem
      <4>3. Rem' = SwitchTime \/ Rem' = 0
        <5>1. CASE currentlyActive
          <6>1. Rem' = SwitchTime + 0
            BY <1>2, <1>3, <2>2, <2>4, <3>8, <5>1 DEF Rem, SwitchTime
          <6>2. QED
            BY <2>3, <6>1
        <5>2. CASE ~currentlyActive
          BY <1>2, <1>3, <2>4, <3>8, <5>2 DEF Rem
        <5>3. QED
          BY <5>1, <5>2
      <4>4. Rem >= 1 /\ Rem' <= Rem - 1
        BY <2>3, <3>2, <4>1, <4>2, <4>3
      <4>5. QED
        BY <3>6, <3>8, <4>4
    <3>9. CASE ~Believing' /\ ~Believing /\ currentlyActive
      <4>1. Rem = SwitchTime + 1
        BY <2>4, <3>9 DEF Rem
      <4>2. Rem' = SwitchTime + 0
        BY <1>2, <1>3, <2>2, <2>4, <3>9 DEF Rem, SwitchTime
      <4>3. Rem >= 1 /\ Rem' <= Rem - 1 /\ Engaged
        BY <2>3, <3>9, <4>1, <4>2 DEF Engaged
      <4>4. QED
        BY <3>6, <4>3
    <3>10. CASE ~Believing' /\ ~Believing /\ ~currentlyActive
      <4>1. ~Engaged'
        BY <1>3, <2>4, <3>10 DEF Engaged
      <4>2. QED
        BY <3>1, <3>10, <4>1 DEF BudgetOK
    <3>11. QED
      BY <3>7, <3>8, <3>9, <3>10
  <2>5. CASE Blocked /\ waited' = waited + 1
    <3>1. /\ ~Idle /\ ~Idle' /\ Engaged
          /\ Left >= 1 /\ Left' = Left - 1
      BY <1>1, <1>2, <1>3, <1>6, <2>5, LeftAfterTick DEF Idle, Engaged
    <3>2. Left \in 0 .. SwitchTime /\ Left' \in 0 .. SwitchTime
      BY <1>1, <2>2, LeftBounds
    <3>3. Age \in 0 .. UpdateTimeout + 1
      BY <1>1, ViewTypes
    <3>4. Rem >= 1 /\ Rem' <= Rem - 1
      <4>1. CASE Believing /\ Believing'
        <5>1. Age <= UpdateTimeout /\ Age' = Age + 1
          BY <1>3, <2>3, <3>3, <4>1 DEF Believing, Fresh, GuardOlder
        <5>2. Rem = Serving - Age
          BY <4>1 DEF Rem
        <5>3. Rem' = Serving - (Age + 1)
          BY <2>3, <4>1, <5>1 DEF Rem
        <5>4. SwitchTime >= 1
          BY <2>1, SwitchTimeIsNat DEF Blocking
        <5>5. QED
          BY <2>3, <3>3, <5>1, <5>2, <5>3, <5>4
      <4>2. CASE Believing /\ ~Believing'
        <5>1. Age = UpdateTimeout
          <6>1. Age <= UpdateTimeout /\ ~(GuardOlder(Age) <= UpdateTimeout)
            BY <1>3, <4>2 DEF Believing, Fresh
          <6>2. QED
            BY <2>3, <3>3, <6>1 DEF GuardOlder
        <5>2. Rem = 2 * SwitchTime
          <6>1. Rem = Serving - Age
            BY <4>2 DEF Rem
          <6>2. QED
            BY <2>3, <5>1, <6>1
        <5>3. Rem' = Left' + SwitchTime \/ Rem' = Left'
          BY <3>1, <4>2 DEF Rem, SwitchTime
        <5>4. \A k, l \in 0 .. SwitchTime : l >= 1 /\ k = l - 1 =>
                /\ k + SwitchTime <= 2 * SwitchTime - 1
                /\ k <= 2 * SwitchTime - 1
                /\ 2 * SwitchTime >= 1
          BY <2>3
        <5>5. QED
          BY <3>1, <3>2, <5>2, <5>3, <5>4, Zenon
      <4>3. CASE ~Believing
        <5>1. ~Believing'
          <6>1. Fresh(Age)' => Fresh(Age)
            BY <1>3, <2>3, <3>3 DEF Fresh, GuardOlder
          <6>2. QED
            BY <1>3, <4>3, <6>1 DEF Believing
        <5>2. \/ Rem = Left + SwitchTime /\ Rem' = Left' + SwitchTime
              \/ Rem = Left /\ Rem' = Left'
          BY <1>2, <3>1, <4>3, <5>1 DEF Rem, SwitchTime
        <5>3. \A k, l \in 0 .. SwitchTime : l >= 1 /\ k = l - 1 =>
                /\ k + SwitchTime <= (l + SwitchTime) - 1 /\ l + SwitchTime >= 1
                /\ k <= l - 1
          BY <2>3
        <5>4. QED
          BY <3>1, <3>2, <5>2, <5>3, Zenon
      <4>4. QED
        BY <4>1, <4>2, <4>3
    <3>5. wrong' + Rem' <= wrong + Rem
      <4>1. wrong' <= wrong + 1 /\ wrong' \in Nat
        BY <1>4, <2>1
      <4>2. \A v, w, q, r \in Nat : v <= w + 1 /\ r >= 1 /\ q <= r - 1 => v + q <= w + r
        OBVIOUS
      <4>3. QED
        BY <1>4, <2>3, <3>4, <4>1, <4>2, Zenon
    <3>6. ASSUME NEW i \in DOMAIN Wire', RightValue(Wire[i])'
          PROVE  \E j \in DOMAIN Wire : i <= j /\ RightValue(Wire[j])
      <4>1. i \in DOMAIN Wire /\ RightValue(Wire[i])
        BY <1>3, <3>6 DEF RightValue
      <4>2. i <= i
        BY <1>1, <4>1, ViewTypes, QueueDomain
      <4>3. QED
        BY <4>1, <4>2
    <3>7. QED
      BY <1>1, <2>1, <2>2, <3>1, <3>5, <3>6, BudgetFalls
  <2>6. QED
    BY <1>5, <2>4, <2>5
<1>11. QED
  BY <1>7, <1>8, <1>9, <1>10 DEF GuardInv

----------------------------------------------------------------------------
(* The invariant holds.                                                    *)

LEMMA InitGuardInv == HInit => GuardInv
<1> SUFFICES ASSUME HInit PROVE GuardInv
  OBVIOUS
<1>1. Init /\ TypeOK /\ watched \in {"state", "mode"}
  BY InitTypeOK DEF HInit
<1>2. /\ stateWire = << >> /\ modeWire = << >> /\ due = {} /\ ~currentlyActive /\ todo = << >>
      /\ waited = 0 /\ active = {} /\ answer = "none" /\ seenState = "none" /\ seenMode = FirstMode
  BY <1>1 DEF Init, GuardInit
<1>3. wrong = IF Right THEN 0 ELSE Lag + 1
  BY DEF HInit
<1>4. HistTypeOK
  BY <1>1, <1>3, LagIsNat DEF HistTypeOK
<1>5. Wire = << >> /\ up /\ DOMAIN Wire = {}
  <2>1. DOMAIN << >> = {}
    OBVIOUS
  <2>2. QED
    BY <1>1, <1>2, <2>1 DEF Wire, Init
<1>6. RightValue(Seen) => Right
  BY <1>2, <1>5, GuardAssumption DEF RightValue, Seen, Right, StateRight, ModeRight
<1>7. ClockOK
  BY <1>2, <1>3, <1>5 DEF ClockOK
<1>8. Idle /\ ~Engaged
  BY <1>2 DEF Idle, Engaged
<1>9. SwitchOK
  BY <1>2, <1>8 DEF SwitchOK
<1>10. PromptOK
  <2>1. Believing => wrong = 0 /\ 0 <= Age
    BY <1>3, <1>4, <1>6, ViewTypes DEF Believing
  <2>2. QED
    BY <1>2, <1>5, <1>8, <2>1 DEF PromptOK
<1>11. BudgetOK
  BY <1>5, <1>6, <1>8 DEF BudgetOK, Believing
<1>12. QED
  BY <1>4, <1>7, <1>9, <1>10, <1>11 DEF GuardInv

LEMMA SameProgram == Next => UNCHANGED program
BY DEF Next, Untimed, RobotChanges, Republish, RobotCrash, RobotRestart, ServiceChanges,
       DeliverState, DeliverMode, CheckCallback, Ask, GiveUp, MessageCallback, BtTick, Tick

LEMMA HistTypeStep == HistTypeOK /\ HNext => HistTypeOK'
<1> SUFFICES ASSUME HistTypeOK, HNext PROVE HistTypeOK'
  OBVIOUS
<1>1. TypeOK' /\ UNCHANGED program
  BY TypeStep, SameProgram DEF HistTypeOK, HNext, Next
<1>2. Lag' = Lag /\ Lag \in Nat
  BY <1>1, LagIsNat DEF Lag, SwitchTime
<1>3. wrong' \in 0 .. Lag + 1
  BY <1>2 DEF HistTypeOK, HNext
<1>4. QED
  BY <1>1, <1>2, <1>3 DEF HistTypeOK, HNext

\* The robot, the services and those who ask the guard.
LEMMA QuietSteps ==
  ASSUME GuardInv, HistTypeOK', watched' = watched,
         \/ RobotChanges \/ Republish \/ RobotCrash \/ RobotRestart
         \/ \E n \in Flaky : ServiceChanges(n)
         \/ MessageCallback \/ BtTick
  PROVE  Quiet /\ Told /\ Seen' = Seen
<1>1. watched \in {"state", "mode"}
  BY DEF GuardInv, HistTypeOK
<1>2. "state" \in due \/ "mode" \in due => up
  BY DEF GuardInv, ClockOK
<1>3. CASE RobotChanges
  BY <1>1, <1>2, <1>3 DEF RobotChanges, Quiet, Told, Value, Wire, Seen, switchVars, nodeVars, guardVars
<1>4. CASE Republish
  <2>1. up /\ up' /\ due' \subseteq due
    BY <1>2, <1>4 DEF Republish, robotVars
  <2>2. QED
    BY <1>1, <1>2, <1>4, <2>1 DEF Republish, Quiet, Told, Value, Wire, Seen, robotVars, switchVars, nodeVars, guardVars
<1>5. CASE RobotCrash
  BY <1>1, <1>5 DEF RobotCrash, Quiet, Told, Value, Wire, Seen, wireVars, switchVars, nodeVars, guardVars
<1>6. CASE RobotRestart
  <2>1. /\ stateWire' = stateWire \/ stateWire' = KeepLast(Append(stateWire, state'))
        /\ modeWire' = modeWire \/ modeWire' = KeepLast(Append(modeWire, mode'))
        /\ up'
    BY <1>6 DEF RobotRestart
  <2>2. Told
    BY <1>1, <2>1 DEF Told, Value, Wire
  <2>3. QED
    BY <1>1, <1>6, <2>1, <2>2 DEF RobotRestart, Quiet, Seen, switchVars, nodeVars, guardVars
<1>7. CASE \E n \in Flaky : ServiceChanges(n)
  BY <1>1, <1>2, <1>7 DEF ServiceChanges, Quiet, Told, Value, Wire, Seen, robotVars, wireVars, switchVars, guardVars
<1>8. CASE MessageCallback \/ BtTick
  <2>1. answer' = "passed" => program # "lifecycle" /\ Allowed
    BY <1>8 DEF MessageCallback, BtTick, Answers
  <2>2. UNCHANGED <<robotVars, wireVars, due, switchVars, nodeVars, guardVars, program>>
    BY <1>8 DEF MessageCallback, BtTick
  <2>3. QED
    BY <1>1, <1>2, <2>1, <2>2 DEF Quiet, Told, Value, Wire, Seen, robotVars, wireVars, switchVars, nodeVars, guardVars
<1>9. QED
  BY <1>3, <1>4, <1>5, <1>6, <1>7, <1>8

\* A message arrives on the side that is watched, or on the other.
LEMMA NewsSteps ==
  ASSUME GuardInv, HistTypeOK', watched' = watched, DeliverState \/ DeliverMode
  PROVE  /\ BetweenSwitches
         /\ \/ Served
            \/ Wire' = Wire /\ Seen' = Seen /\ Age' = Age
<1>1. watched \in {"state", "mode"}
  BY DEF GuardInv, HistTypeOK
<1>2. CASE DeliverState
  BY <1>1, <1>2 DEF DeliverState, StateCallback, BetweenSwitches, SameRobot, Served, Wire, Seen, Age,
                    robotVars, switchVars, nodeVars
<1>3. CASE DeliverMode
  BY <1>1, <1>3 DEF DeliverMode, ModeCallback, BetweenSwitches, SameRobot, Served, Wire, Seen, Age,
                    robotVars, switchVars, nodeVars
<1>4. QED
  BY <1>2, <1>3

LEMMA GuardInvStep == GuardInv /\ HNext => GuardInv'
<1> SUFFICES ASSUME GuardInv, HNext PROVE GuardInv'
  OBVIOUS
<1>1. HistTypeOK' /\ watched' = watched
  BY HistTypeStep DEF GuardInv, HNext
<1>2. CASE Untimed /\ wrong' = IF Right' THEN 0 ELSE wrong
  <2>1. CASE \/ RobotChanges \/ Republish \/ RobotCrash \/ RobotRestart
             \/ \E n \in Flaky : ServiceChanges(n)
             \/ MessageCallback \/ BtTick
    BY <1>1, <1>2, <2>1, QuietSteps, QuietStep
  <2>2. CASE DeliverState \/ DeliverMode
    BY <1>1, <1>2, <2>2, NewsSteps, ServeStep, OtherStep
  <2>3. CASE CheckCallback
    BY <1>1, <1>2, <2>3, CheckStep
  <2>4. CASE Ask \/ GiveUp
    BY <1>1, <1>2, <2>4, TurnStep
  <2>5. QED
    BY <1>2, <2>1, <2>2, <2>3, <2>4 DEF Untimed
<1>3. CASE Tick /\ wrong' = IF Right THEN 0 ELSE IF wrong > Lag THEN wrong ELSE wrong + 1
  BY <1>1, <1>3, TickStep
<1>4. QED
  BY <1>2, <1>3 DEF HNext

LEMMA GuardInvStutter == GuardInv /\ UNCHANGED hvars => GuardInv'
<1> SUFFICES ASSUME GuardInv, UNCHANGED hvars PROVE GuardInv'
  OBVIOUS
<1>1. UNCHANGED <<program, state, mode, up, stateWire, modeWire, due, currentlyActive, todo, waited,
                  active, answer, seenState, seenMode, stateAge, modeAge, watched, wrong>>
      /\ UNCHANGED vars
  BY DEF hvars, vars, robotVars, wireVars, switchVars, nodeVars, guardVars
<1>2. HistTypeOK /\ ClockOK
  BY DEF GuardInv
<1>3. HistTypeOK'
  BY <1>1, <1>2, TypeStutter DEF HistTypeOK, Lag, SwitchTime
<1>4. Quiet /\ Told /\ Seen' = Seen
  BY <1>1, <1>2 DEF Quiet, Told, Value, Wire, Seen, ClockOK
<1>5. wrong' = IF Right' THEN 0 ELSE wrong
  BY <1>1, <1>2 DEF ClockOK, Right, StateRight, ModeRight
<1>6. QED
  BY <1>1, <1>3, <1>4, <1>5, QuietStep

LEMMA GuardInvHolds == HSpec => []GuardInv
<1>1. GuardInv /\ [HNext]_hvars => GuardInv'
  BY GuardInvStep, GuardInvStutter
<1>2. QED
  BY InitGuardInv, <1>1, PTL DEF HSpec

LEMMA GuardInvBounds == GuardInv => GuardedOnlyInTime
<1> SUFFICES ASSUME GuardInv, Acting PROVE wrong <= Lag
  BY DEF GuardedOnlyInTime
<1>1. HistTypeOK /\ ClockOK /\ SwitchOK /\ PromptOK /\ BudgetOK
  BY DEF GuardInv
<1>2. wrong \in Nat /\ Lag \in Nat
  BY <1>1, LagIsNat DEF HistTypeOK
<1>3. CASE answer = "passed"
  <2>1. ~Blocking
    BY <1>1, <1>3 DEF SwitchOK, Blocking
  <2>2. wrong <= UpdateTimeout /\ UpdateTimeout \in Nat /\ Lag >= UpdateTimeout
    BY <1>1, <1>3, <2>1, LagIsNat DEF PromptOK
  <2>3. QED
    BY <1>2, <2>2
<1>4. CASE active \ Flaky # {}
  <2>1. Engaged /\ program = "lifecycle"
    BY <1>1, <1>4 DEF SwitchOK, Engaged
  <2>2. CASE ~Blocking
    <3>1. wrong <= UpdateTimeout + 1 /\ Lag = UpdateTimeout + 1
      BY <1>1, <2>1, <2>2, LagIsNat DEF PromptOK
    <3>2. QED
      BY <3>1
  <2>3. CASE Blocking /\ Right
    BY <1>1, <1>2, <2>3 DEF ClockOK
  <2>4. CASE Blocking /\ ~Right
    <3>1. wrong + Rem <= Lag
      BY <1>1, <2>1, <2>4 DEF BudgetOK
    <3>2. Rem \in Nat
      BY <1>1, <2>4, WaitIsOK, RemBounds, ServingIsNat
    <3>3. QED
      BY <1>2, <3>1, <3>2
  <2>5. QED
    BY <2>2, <2>3, <2>4
<1>5. QED
  BY <1>3, <1>4 DEF Acting

\* While a message or tick passes, or a node whose service is always there is active,
\* the robot was right not longer ago than the Lag (lifecycle_guard_node.cpp 45-88,
\* topic_guard_node.cpp 54-69, bt_condition_node.cpp 68-80): for any managed nodes of
\* which any may come and go, any depth of the queues, timeout and wait, with the robot
\* crashing, starting again and changing its mind at any moment.
THEOREM NodesGuardedInTime == HSpec => []GuardedOnlyInTime
<1>1. QED
  BY GuardInvHolds, GuardInvBounds, PTL

=============================================================================
