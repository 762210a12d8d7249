------------------------- MODULE TopicMonitorProofs -------------------------
(***************************************************************************)
(* The safety properties of TopicMonitorProps, for every set of            *)
(* expressions, every rate, window, throttle and period of the checks.     *)
(***************************************************************************)
EXTENDS TopicMonitorProps, FiniteSetTheorems, SequenceTheorems, TLAPS

----------------------------------------------------------------------------
(* Facts about the rate meter's arithmetic.                                *)

LEMMA BoundsOK == Old \in Nat \ {0} /\ Long \in Nat \ {0} /\ Silent \in Nat /\ AliveBound \in Nat
<1>1. MaxGap \in Nat \ {0} /\ Window \in Nat \ {0, 1} /\ CheckPeriod \in Nat \ {0}
  BY TopicAssumption, Zenon
<1>2. \A a, b \in Nat : a * b \in Nat
  OBVIOUS
<1>3. (MaxGap - 1) * Window \in Nat
  BY <1>1, <1>2
<1>4. Long \in Nat \ {0}
  BY <1>3 DEF Long
<1>5. QED
  BY <1>1, <1>4 DEF Old, Silent, AliveBound

\* callback_hz never finds an interval beyond Long.
LEMMA IntervalOK ==
  ASSUME NEW age \in Nat
  PROVE  Min({age, Long}) \in 0 .. Long
<1>1. PICK x \in {age, Long} : \A y \in {age, Long} : x =< y
  <2>1. CASE age =< Long
    BY <2>1, BoundsOK
  <2>2. CASE ~(age =< Long)
    BY <2>2, BoundsOK
  <2>3. QED
    BY <2>1, <2>2
<1>2. /\ Min({age, Long}) \in {age, Long}
      /\ \A y \in {age, Long} : Min({age, Long}) =< y
  BY <1>1 DEF Min
<1>3. QED
  BY <1>2, BoundsOK

TimesOK == times \in Seq(1 .. Long) /\ Len(times) <= Window

LEMMA RecordOK ==
  ASSUME TimesOK, NEW dt \in 1 .. Long
  PROVE  Record(dt) \in Seq(1 .. Long) /\ Len(Record(dt)) <= Window
<1>1. Window \in Nat \ {0}
  BY TopicAssumption
<1>2. CASE Len(times) = Window
  <2>1. times # << >>
    BY <1>1, <1>2
  <2>2. Tail(times) \in Seq(1 .. Long) /\ Len(Tail(times)) = Len(times) - 1
    BY <2>1 DEF TimesOK
  <2>3. Append(Tail(times), dt) \in Seq(1 .. Long) /\ Len(Append(Tail(times), dt)) = Len(times)
    BY <2>2, <1>1, <1>2
  <2>4. QED
    BY <1>1, <1>2, <2>3 DEF Record
<1>3. CASE Len(times) # Window
  <2>1. Len(times) \in Nat /\ Len(times) + 1 <= Window
    BY <1>1, <1>3 DEF TimesOK
  <2>2. Append(times, dt) \in Seq(1 .. Long) /\ Len(Append(times, dt)) = Len(times) + 1
    BY DEF TimesOK
  <2>3. QED
    BY <1>3, <2>1, <2>2 DEF Record
<1>4. QED
  BY <1>2, <1>3

LEMMA TotalOK == TimesOK => Total \in Nat
<1> SUFFICES ASSUME TimesOK PROVE Total \in Nat
  OBVIOUS
<1>1. IsFiniteSet(1 .. Long)
  BY BoundsOK, FS_Interval
<1>2. IsFiniteSet(DOMAIN times)
  <2>1. Len(times) \in Nat /\ DOMAIN times = 1 .. Len(times)
    BY DEF TimesOK
  <2>2. IsFiniteSet(1 .. Len(times))
    BY <2>1, FS_Interval
  <2>3. QED
    BY <2>1, <2>2
<1>3. IsFiniteSet((DOMAIN times) \X (1 .. Long))
  BY <1>1, <1>2, FS_Product
<1>4. IsFiniteSet({tick \in (DOMAIN times) \X (1 .. Long) : tick[2] <= times[tick[1]]})
  BY <1>3, FS_Subset
<1>5. QED
  BY <1>4, FS_CardinalityType DEF Total

\* A rate that is accepted tells of a message within twice the slowest interval.
LEMMA RateOkIsRecent ==
  ASSUME TimesOK, times # << >>, NEW silence \in Int, RateOk(silence)
  PROVE  silence <= 2 * MaxGap
<1> DEFINE n == Len(times)
<1>1. n \in Nat \ {0}
  BY DEF TimesOK
<1>2. Total \in Nat /\ Total <= MaxGap * n /\ silence * n <= 2 * Total
  BY TotalOK DEF RateOk
<1>3. MaxGap \in Nat
  BY TopicAssumption
<1>4. \A a \in Int, g \in Nat, k \in Nat \ {0}, t \in Nat :
        t <= g * k /\ a * k <= 2 * t => a <= 2 * g
  <2> SUFFICES ASSUME NEW a \in Int, NEW g \in Nat, NEW k \in Nat \ {0}, NEW t \in Nat,
                      t <= g * k, a * k <= 2 * t, a >= 2 * g + 1
               PROVE  FALSE
    OBVIOUS
  <2>1. a * k >= (2 * g + 1) * k
    OBVIOUS
  <2>2. (2 * g + 1) * k = 2 * (g * k) + k
    OBVIOUS
  <2>3. QED
    BY <2>1, <2>2
<1>5. QED
  BY <1>1, <1>2, <1>3, <1>4

----------------------------------------------------------------------------
(* Types: what the checks and the callers write, and what is counted.      *)

WiresOK ==
  /\ listening \subseteq Lambdas /\ sent \in BOOLEAN
  /\ pending \subseteq {"hz", "published"} \cup Lambdas

VerdictsOK ==
  /\ satisfied \in [Conditions -> BOOLEAN]
  /\ subscribed \in BOOLEAN /\ enabled \in BOOLEAN
  /\ isAlive \in BOOLEAN /\ isAutonomyAlive \in BOOLEAN
  /\ caller \in {"none", "disable", "clear", "forget", "enable"}

Stages == {"idle", "due", "last", "mean", "reading", "dead", "done"}

ReadersOK ==
  /\ stage \in [Readers -> Stages]
  /\ gap \in [Readers -> {None} \cup (0 .. Old)]
  /\ unread \in [Passes -> SUBSET SafetyCritical]

CountersOK ==
  /\ throttle \in [Lambdas -> 0 .. Throttle]
  /\ interval \in {None} \cup (0 .. Long)
  /\ last \in {None} \cup (0 .. Old)
  /\ checkTimer \in 1 .. CheckPeriod

LEMMA TypeParts ==
  TypeOK <=> WiresOK /\ VerdictsOK /\ ReadersOK /\ CountersOK /\ TimesOK
  BY Zenon DEF TypeOK, WiresOK, VerdictsOK, ReadersOK, Stages, CountersOK, TimesOK

LEMMA ReaderParts ==
  /\ \A check \in Checks : check \in Readers
  /\ \A p \in Passes : p \in Readers /\ p \notin Checks
  BY TopicAssumption DEF Readers

LEMMA ConclusionOK ==
  ASSUME VerdictsOK, NEW check, NEW rateOk \in BOOLEAN, NEW noStats \in BOOLEAN,
         Conclude(check, rateOk, noStats)
  PROVE  /\ satisfied' \in [Conditions -> BOOLEAN]
         /\ isAlive' \in BOOLEAN /\ isAutonomyAlive' \in BOOLEAN
<1>1. satisfied' \in [Conditions -> BOOLEAN]
  BY DEF VerdictsOK, Conclude
<1>2. isAlive' \in BOOLEAN /\ isAutonomyAlive' \in BOOLEAN
  BY Zenon DEF VerdictsOK, Conclude, AllHold
<1>3. QED
  BY <1>1, <1>2

LEMMA WiresStep == WiresOK /\ [Next]_vars => WiresOK'
<1> SUFFICES ASSUME WiresOK, [Next]_vars PROVE WiresOK'
  OBVIOUS
<1> USE DEF WiresOK
<1>1. CASE Publish
  BY <1>1 DEF Publish, filterVars
<1>2. CASE HzReads \/ HzRecords \/ HzRaises
  BY <1>2 DEF HzReads, HzRecords, HzRaises, filterVars
<1>3. ASSUME NEW l \in Lambdas, NEW result \in Results, CallbackFilter(l, result) PROVE WiresOK'
  BY <1>3 DEF CallbackFilter
<1>4. CASE PublishedCb
  BY <1>4 DEF PublishedCb
<1>5. ASSUME NEW check \in Checks, BeginCheck(check) \/ EndCheck(check) PROVE WiresOK'
  BY <1>5 DEF BeginCheck, EndCheck, checkOnly, wireVars
<1>6. ASSUME NEW r \in Readers, ReadLast(r) \/ GetHzRaises(r) PROVE WiresOK'
  BY <1>6 DEF ReadLast, GetHzRaises, getHzOnly, wireVars, filterVars
<1>7. ASSUME NEW p \in Passes, Pass(p) PROVE WiresOK'
  BY <1>7 DEF Pass, PassBegins, PassMeasures, PassReads, PassWrites, passOnly, wireVars,
              filterVars
<1>8. CASE Caller
  BY <1>8 DEF Caller, StopMonitoring, StopDisables, StartMonitoring, StartClears,
              StartForgets, StartEnables, callerOnly, filterVars
<1>9. CASE Tick
  BY <1>9 DEF Tick, filterVars
<1>10. CASE UNCHANGED vars
  BY <1>10 DEF vars, wireVars, filterVars
<1>11. QED
  BY <1>1, <1>2, <1>3, <1>4, <1>5, <1>6, <1>7, <1>8, <1>9, <1>10 DEF Next, Callback

LEMMA VerdictsStep == VerdictsOK /\ [Next]_vars => VerdictsOK'
<1> SUFFICES ASSUME VerdictsOK, [Next]_vars PROVE VerdictsOK'
  OBVIOUS
<1>1. CASE Publish
  BY <1>1 DEF VerdictsOK, Publish, filterVars, rateVars, verdictVars
<1>2. CASE HzReads \/ HzRecords \/ HzRaises
  BY <1>2 DEF VerdictsOK, HzReads, HzRecords, HzRaises, filterVars, rateVars, verdictVars
<1>3. ASSUME NEW l \in Lambdas, NEW result \in Results, CallbackFilter(l, result)
      PROVE  VerdictsOK'
  <2>1. l \in Conditions
    BY DEF Conditions
  <2>2. NowSatisfied(l, result) \in BOOLEAN
    BY <2>1 DEF NowSatisfied, VerdictsOK
  <2>3. satisfied' \in [Conditions -> BOOLEAN]
    BY <1>3, <2>1, <2>2 DEF CallbackFilter, VerdictsOK
  <2>4. QED
    BY <1>3, <2>3 DEF CallbackFilter, VerdictsOK, rateVars, verdictVars
<1>4. CASE PublishedCb
  BY <1>4 DEF VerdictsOK, PublishedCb, rateVars, verdictVars
<1>5. ASSUME NEW check \in Checks, BeginCheck(check) PROVE VerdictsOK'
  <2>1. CASE UNCHANGED <<satisfied, verdictVars>>
    BY <1>5, <2>1 DEF BeginCheck, VerdictsOK, checkOnly, rateVars, verdictVars
  <2>2. CASE Conclude(check, FALSE, TRUE)
    BY <1>5, <2>2, ConclusionOK DEF BeginCheck, VerdictsOK, checkOnly, rateVars
  <2>3. QED
    BY <1>5, <2>1, <2>2 DEF BeginCheck
<1>6. ASSUME NEW check \in Checks, EndCheck(check) PROVE VerdictsOK'
  <2>1. RateOk(gap[check]) \in BOOLEAN
    BY DEF RateOk
  <2>2. Conclude(check, RateOk(gap[check]), FALSE)
    BY <1>6 DEF EndCheck
  <2>3. QED
    BY <1>6, <2>1, <2>2, ConclusionOK DEF EndCheck, VerdictsOK, checkOnly, rateVars
<1>7. ASSUME NEW r \in Readers, ReadLast(r) \/ GetHzRaises(r) PROVE VerdictsOK'
  BY <1>7 DEF VerdictsOK, ReadLast, GetHzRaises, getHzOnly, filterVars, rateVars, verdictVars
<1>8. ASSUME NEW p \in Passes, Pass(p) PROVE VerdictsOK'
  <2>1. isAlive' \in BOOLEAN
    BY <1>8 DEF VerdictsOK, Pass, PassBegins, PassMeasures, PassReads, PassWrites
  <2>2. UNCHANGED passOnly
    BY <1>8 DEF Pass, PassBegins, PassMeasures, PassReads, PassWrites
  <2>3. QED
    BY <2>1, <2>2 DEF VerdictsOK, passOnly, filterVars, rateVars
<1>9. CASE Caller
  BY <1>9 DEF VerdictsOK, Caller, StopMonitoring, StopDisables, StartMonitoring, StartClears,
              StartForgets, StartEnables, callerOnly, filterVars, verdictVars
<1>10. CASE Tick
  BY <1>10 DEF VerdictsOK, Tick, filterVars, verdictVars
<1>11. CASE UNCHANGED vars
  BY <1>11 DEF VerdictsOK, vars, filterVars, rateVars, verdictVars
<1>12. QED
  BY <1>1, <1>2, <1>3, <1>4, <1>5, <1>6, <1>7, <1>8, <1>9, <1>10, <1>11 DEF Next, Callback

\* A step of a reader sets its own stage, and what it has read.
LEMMA ReadersStep == ReadersOK /\ CountersOK /\ [Next]_vars => ReadersOK'
<1> SUFFICES ASSUME ReadersOK, CountersOK, [Next]_vars PROVE ReadersOK'
  OBVIOUS
<1> USE DEF ReadersOK, Stages
<1>1. CASE UNCHANGED readerVars
  BY <1>1 DEF readerVars
<1>2. CASE Publish \/ HzReads \/ HzRecords \/ HzRaises \/ PublishedCb
  BY <1>1, <1>2 DEF Publish, HzReads, HzRecords, HzRaises, PublishedCb
<1>3. ASSUME NEW l \in Lambdas, NEW result \in Results, CallbackFilter(l, result)
      PROVE  ReadersOK'
  BY <1>1, <1>3 DEF CallbackFilter
<1>4. ASSUME NEW check \in Checks, BeginCheck(check) PROVE ReadersOK'
  BY <1>4, ReaderParts DEF BeginCheck, checkOnly
<1>5. ASSUME NEW check \in Checks, EndCheck(check) PROVE ReadersOK'
  BY <1>5, ReaderParts DEF EndCheck, checkOnly
<1>6. ASSUME NEW r \in Readers, ReadLast(r) PROVE ReadersOK'
  BY <1>6 DEF ReadLast, getHzOnly, CountersOK
<1>7. ASSUME NEW r \in Readers, GetHzRaises(r) PROVE ReadersOK'
  <2>1. stage' \in [Readers -> Stages]
    <3>1. (IF r \in Checks THEN "idle" ELSE "done") \in Stages
      OBVIOUS
    <3>2. QED
      BY <1>7, <3>1 DEF GetHzRaises
  <2>2. QED
    BY <1>7, <2>1 DEF GetHzRaises, getHzOnly
<1>8. ASSUME NEW p \in Passes, PassBegins(p) PROVE ReadersOK'
  <2>1. (IF HasTimes THEN "last" ELSE "dead") \in Stages
    OBVIOUS
  <2>2. QED
    BY <1>8, <2>1, ReaderParts DEF PassBegins
<1>9. ASSUME NEW p \in Passes, PassMeasures(p) PROVE ReadersOK'
  BY <1>9, ReaderParts DEF PassMeasures
<1>10. ASSUME NEW p \in Passes, NEW c \in SafetyCritical, PassReads(p, c) PROVE ReadersOK'
  BY <1>10, ReaderParts DEF PassReads
<1>11. ASSUME NEW p \in Passes, PassWrites(p) PROVE ReadersOK'
  BY <1>11, ReaderParts DEF PassWrites
<1>12. CASE Caller
  BY <1>1, <1>12 DEF Caller, StopMonitoring, StopDisables, StartMonitoring, StartClears,
                     StartForgets, StartEnables, callerOnly
<1>13. CASE Tick
  BY <1>13 DEF Tick
<1>14. CASE UNCHANGED vars
  BY <1>1, <1>14 DEF vars
<1>15. QED
  BY <1>2, <1>3, <1>4, <1>5, <1>6, <1>7, <1>8, <1>9, <1>10, <1>11, <1>12, <1>13, <1>14
  DEF Next, Callback, Pass

\* A filter evaluates at the counts 0 and Throttle only.
LEMMA EvaluatesAt ==
  ASSUME NEW n \in 0 .. Throttle
  PROVE  n % Throttle = 0 <=> n \in {0, Throttle}
<1>1. Throttle \in Nat \ {0}
  BY TopicAssumption, Zenon
<1>2. \A T \in Nat \ {0} : \A k \in 0 .. T : k % T = 0 <=> k \in {0, T}
  OBVIOUS
<1>3. QED
  BY <1>1, <1>2

LEMMA CountersStep == CountersOK /\ [Next]_vars => CountersOK'
<1> SUFFICES ASSUME CountersOK, [Next]_vars PROVE CountersOK'
  OBVIOUS
<1> USE DEF CountersOK
<1>0. /\ Throttle \in Nat \ {0} /\ CheckPeriod \in Nat \ {0} /\ Old \in Nat \ {0}
      /\ None = -1 /\ Long \in Nat
  BY TopicAssumption, BoundsOK, Zenon DEF None
<1>1. CASE Publish \/ PublishedCb
  BY <1>1 DEF Publish, PublishedCb, filterVars, rateVars
<1>2. CASE HzReads
  <2>1. interval' \in {None} \cup (0 .. Long)
    <3>1. CASE last = None
      <4>1. interval' = 0
        BY <1>2, <3>1 DEF HzReads
      <4>2. QED
        BY <1>0, <4>1
    <3>2. CASE last # None
      <4>1. last \in Nat /\ interval' = Min({last, Long})
        BY <1>0, <1>2, <3>2 DEF HzReads
      <4>2. QED
        BY <4>1, IntervalOK
    <3>3. QED
      BY <3>1, <3>2
  <2>2. QED
    BY <1>2, <2>1 DEF HzReads, filterVars, rateVars
<1>3. CASE HzRecords \/ HzRaises
  BY <1>0, <1>3 DEF HzRecords, HzRaises, filterVars, rateVars
<1>4. ASSUME NEW l \in Lambdas, NEW result \in Results, CallbackFilter(l, result)
      PROVE  CountersOK'
  <2>1. throttle' \in [Lambdas -> 0 .. Throttle]
    <3>1. CASE throttle[l] % Throttle = 0
      <4>1. throttle' = [throttle EXCEPT ![l] = 1]
        BY <1>4, <3>1 DEF CallbackFilter
      <4>2. QED
        BY <1>0, <4>1
    <3>2. CASE throttle[l] % Throttle # 0
      <4>1. throttle' = [throttle EXCEPT ![l] = throttle[l] + 1]
        BY <1>4, <3>2 DEF CallbackFilter
      <4>2. throttle[l] \in 0 .. Throttle /\ throttle[l] # Throttle
        BY <3>2, EvaluatesAt
      <4>3. throttle[l] + 1 \in 0 .. Throttle
        BY <1>0, <4>2
      <4>4. QED
        BY <4>1, <4>3
    <3>3. QED
      BY <3>1, <3>2
  <2>2. UNCHANGED <<interval, last, checkTimer>>
    BY <1>4 DEF CallbackFilter, rateVars
  <2>3. QED
    BY <2>1, <2>2
<1>5. ASSUME NEW check \in Checks, BeginCheck(check) \/ EndCheck(check) PROVE CountersOK'
  BY <1>5 DEF BeginCheck, EndCheck, checkOnly, wireVars, rateVars
<1>6. ASSUME NEW r \in Readers, ReadLast(r) \/ GetHzRaises(r) PROVE CountersOK'
  BY <1>6 DEF ReadLast, GetHzRaises, getHzOnly, wireVars, filterVars, rateVars
<1>7. ASSUME NEW p \in Passes, Pass(p) PROVE CountersOK'
  BY <1>7 DEF Pass, PassBegins, PassMeasures, PassReads, PassWrites, passOnly, wireVars,
              filterVars, rateVars
<1>8. CASE Caller
  BY <1>8 DEF Caller, StopMonitoring, StopDisables, StartMonitoring, StartClears,
              StartForgets, StartEnables, callerOnly, filterVars
<1>9. CASE Tick
  <2>1. last' \in {None} \cup (0 .. Old)
    BY <1>0, <1>9 DEF Tick, Older
  <2>2. checkTimer' \in 1 .. CheckPeriod
    BY <1>0, <1>9 DEF Tick
  <2>3. QED
    BY <1>9, <2>1, <2>2 DEF Tick, filterVars
<1>10. CASE UNCHANGED vars
  BY <1>10 DEF vars, wireVars, filterVars, rateVars
<1>11. QED
  BY <1>1, <1>2, <1>3, <1>4, <1>5, <1>6, <1>7, <1>8, <1>9, <1>10 DEF Next, Callback

LEMMA TimesStep ==
  ASSUME CountersOK, TimesOK, [Next]_vars
  PROVE  TimesOK'
<1>1. CASE HzRecords /\ interval # 0
  <2>1. interval \in 1 .. Long
    BY <1>1, BoundsOK DEF HzRecords, CountersOK
  <2>2. times' = Record(interval)
    BY <1>1 DEF HzRecords
  <2>3. QED
    BY <2>1, <2>2, RecordOK DEF TimesOK
<1>2. CASE StartClears
  <2>1. times' = << >> /\ Window \in Nat
    BY <1>2, TopicAssumption DEF StartClears
  <2>2. QED
    BY <2>1 DEF TimesOK
<1>3. CASE UNCHANGED times
  BY <1>3 DEF TimesOK
<1>4. ASSUME ~StartClears, ~(HzRecords /\ interval # 0) PROVE UNCHANGED times
  <2>1. CASE Publish \/ PublishedCb
    BY <2>1 DEF Publish, PublishedCb, rateVars
  <2>2. CASE HzReads \/ HzRecords \/ HzRaises
    BY <1>4, <2>2 DEF HzReads, HzRecords, HzRaises, rateVars
  <2>3. ASSUME NEW l \in Lambdas, NEW result \in Results, CallbackFilter(l, result)
        PROVE  UNCHANGED times
    BY <2>3 DEF CallbackFilter, rateVars
  <2>4. ASSUME NEW check \in Checks, BeginCheck(check) \/ EndCheck(check)
        PROVE  UNCHANGED times
    BY <2>4 DEF BeginCheck, EndCheck, checkOnly, rateVars
  <2>5. ASSUME NEW r \in Readers, ReadLast(r) \/ GetHzRaises(r) PROVE UNCHANGED times
    BY <2>5 DEF ReadLast, GetHzRaises, getHzOnly, rateVars
  <2>6. ASSUME NEW p \in Passes, Pass(p) PROVE UNCHANGED times
    BY <2>6 DEF Pass, PassBegins, PassMeasures, PassReads, PassWrites, passOnly, rateVars
  <2>7. CASE Caller
    BY <1>4, <2>7 DEF Caller, StopMonitoring, StopDisables, StartMonitoring,
                      StartForgets, StartEnables
  <2>8. CASE Tick \/ UNCHANGED vars
    BY <2>8 DEF Tick, vars, rateVars
  <2>9. QED
    BY <2>1, <2>2, <2>3, <2>4, <2>5, <2>6, <2>7, <2>8 DEF Next, Callback
<1>5. QED
  BY <1>1, <1>2, <1>3, <1>4

LEMMA TypeStep == TypeOK /\ [Next]_vars => TypeOK'
<1> SUFFICES ASSUME TypeOK, [Next]_vars PROVE TypeOK'
  OBVIOUS
<1>1. WiresOK' /\ VerdictsOK' /\ ReadersOK' /\ CountersOK' /\ TimesOK'
  BY TypeParts, WiresStep, VerdictsStep, ReadersStep, CountersStep, TimesStep
<1>2. QED
  BY <1>1, Zenon DEF TypeOK, WiresOK, VerdictsOK, ReadersOK, Stages, CountersOK, TimesOK

----------------------------------------------------------------------------
(* The inductive invariant.                                                *)

HistTypeOK ==
  /\ silent \in 0 .. Silent /\ bad \in [Lambdas -> 0 .. Throttle]
  /\ failingSince \in [Passes -> SUBSET Lambdas]

\* What is still to be made of a message is of this tick.
WireOK ==
  /\ pending # {} \/ interval # None => sent
  /\ sent => silent = 0
  /\ "published" \in pending => Signal = "published"

\* The rate meter never takes the topic for younger than it is, nor does anybody
\* who has read its age.
NotYounger(age) == age \in 0 .. 2 * MaxGap => silent <= age
MeterOK == NotYounger(last)
GapOK == \A r \in Readers : stage[r] = "mean" => gap[r] \in 0 .. Old /\ NotYounger(gap[r])

\* A filter that holds has skipped every failing message since.
FilterOK == \A l \in Lambdas : satisfied[l] => bad[l] < throttle[l]

\* A pass reads the conditions of a topic that is recent, and has not yet read the
\* condition of an expression that has been failing all the time.
PassOK ==
  \A p \in Passes :
    /\ failingSince[p] \subseteq Failing
    /\ stage[p] = "reading" =>
         silent <= 2 * MaxGap /\ SafetyCritical \cap failingSince[p] \subseteq unread[p]

\* What a verdict may have aged: the time since the last check, or a period if
\* the next one is due.
Slack(check) ==
  IF stage[check] \in {"due", "last", "mean"} THEN CheckPeriod ELSE CheckPeriod - checkTimer

AliveOK ==
  \A check \in Checks :
    Says(check) /\ check \notin leftOver => silent <= 2 * MaxGap + Slack(check)

TopicInv ==
  TypeOK /\ HistTypeOK /\ WireOK /\ MeterOK /\ GapOK /\ FilterOK /\ PassOK /\ AliveOK

LEMMA HistStep == [HNext]_hvars => [Next]_vars
<1>1. ASSUME NEW l \in Lambdas, NEW result \in Results, FilterStep(l, result) PROVE Next
  BY <1>1 DEF Next, Callback, FilterStep
<1>2. ASSUME NEW check \in Checks, CheckStep(check) \/ CheckRaisesStep(check) PROVE Next
  BY <1>2, ReaderParts DEF Next, Callback, CheckStep, CheckRaisesStep
<1>3. ASSUME NEW p \in Passes, PassMeasuresStep(p) \/ PassWritesStep(p) PROVE Next
  BY <1>3 DEF Next, Pass, PassMeasuresStep, PassWritesStep
<1>4. CASE OtherStep
  BY <1>4, ReaderParts DEF Next, Callback, Pass, OtherStep
<1>5. CASE PublishStep \/ TickStep
  BY <1>5 DEF Next, PublishStep, TickStep
<1>6. QED
  BY <1>1, <1>2, <1>3, <1>4, <1>5 DEF HNext, hvars

\* Within a tick, after the message: callbacks are only taken from the wire, and
\* nothing ages.
LEMMA WithinTick ==
  ASSUME [HNext]_hvars, ~PublishStep, ~TickStep
  PROVE  /\ UNCHANGED <<sent, silent, checkTimer>>
         /\ pending' \subseteq pending
         /\ interval' # None => interval # None \/ pending # {}
<1>1. ASSUME NEW l \in Lambdas, NEW result \in Results, FilterStep(l, result)
      PROVE  UNCHANGED <<sent, silent, checkTimer, interval>> /\ pending' \subseteq pending
  BY <1>1 DEF FilterStep, CallbackFilter
<1>2. ASSUME NEW check \in Checks, CheckStep(check) \/ CheckRaisesStep(check)
      PROVE  UNCHANGED <<sent, silent, checkTimer, interval, pending>>
  BY <1>2 DEF CheckStep, CheckRaisesStep, BeginCheck, EndCheck, GetHzRaises, checkOnly,
              getHzOnly, wireVars
<1>3. ASSUME NEW p \in Passes, PassMeasuresStep(p) \/ PassWritesStep(p)
      PROVE  UNCHANGED <<sent, silent, checkTimer, interval, pending>>
  BY <1>3 DEF PassMeasuresStep, PassWritesStep, PassMeasures, PassWrites, passOnly, wireVars
<1>4. CASE OtherStep
  <2>1. silent' = silent
    BY <1>4 DEF OtherStep
  <2>2. CASE HzReads \/ HzRecords \/ HzRaises \/ PublishedCb
    BY <2>1, <2>2 DEF HzReads, HzRecords, HzRaises, PublishedCb
  <2>3. ASSUME NEW r \in Readers, ReadLast(r) \/ GetHzRaises(r)
        PROVE  UNCHANGED <<sent, checkTimer, interval, pending>>
    BY <2>3 DEF ReadLast, GetHzRaises, getHzOnly, wireVars
  <2>4. ASSUME NEW p \in Passes, PassBegins(p) \/ \E c \in SafetyCritical : PassReads(p, c)
        PROVE  UNCHANGED <<sent, checkTimer, interval, pending>>
    BY <2>4 DEF PassBegins, PassReads, passOnly, wireVars
  <2>5. CASE Caller
    BY <2>1, <2>5 DEF Caller, StopMonitoring, StopDisables, StartMonitoring, StartClears,
                      StartForgets, StartEnables, callerOnly
  <2>6. QED
    BY <1>4, <2>1, <2>2, <2>3, <2>4, <2>5, ReaderParts DEF OtherStep
<1>5. CASE UNCHANGED hvars
  BY <1>5 DEF hvars, vars, wireVars
<1>6. QED
  BY <1>1, <1>2, <1>3, <1>4, <1>5 DEF HNext

LEMMA HistTypeStep == HistTypeOK /\ [HNext]_hvars => HistTypeOK'
<1> SUFFICES ASSUME HistTypeOK, [HNext]_hvars PROVE HistTypeOK'
  OBVIOUS
<1>0. Throttle \in Nat \ {0} /\ Silent \in Nat
  BY TopicAssumption, BoundsOK, Zenon
<1>1. CASE PublishStep
  <2>1. silent' \in 0 .. Silent
    BY <1>0, <1>1 DEF PublishStep
  <2>2. QED
    BY <1>1, <2>1 DEF PublishStep, HistTypeOK
<1>2. CASE TickStep
  <2>1. silent' \in 0 .. Silent
    BY <1>0, <1>2 DEF TickStep, HistTypeOK
  <2>2. QED
    BY <1>2, <2>1 DEF TickStep, HistTypeOK
<1>3. ASSUME NEW l \in Lambdas, NEW result \in Results, FilterStep(l, result)
      PROVE  HistTypeOK'
  <2>1. bad' \in [Lambdas -> 0 .. Throttle]
    BY <1>0, <1>3 DEF FilterStep, HistTypeOK
  <2>2. failingSince' \in [Passes -> SUBSET Lambdas]
    BY <1>3 DEF FilterStep, HistTypeOK
  <2>3. QED
    BY <1>3, <2>1, <2>2 DEF FilterStep, HistTypeOK
<1>4. ASSUME NEW check \in Checks, CheckStep(check) \/ CheckRaisesStep(check)
      PROVE  HistTypeOK'
  BY <1>4 DEF CheckStep, CheckRaisesStep, HistTypeOK
<1>5. ASSUME NEW p \in Passes, PassMeasuresStep(p) \/ PassWritesStep(p) PROVE HistTypeOK'
  <2>1. failingSince' \in [Passes -> SUBSET Lambdas]
    BY <1>5 DEF PassMeasuresStep, PassWritesStep, HistTypeOK, Failing
  <2>2. QED
    BY <1>5, <2>1 DEF PassMeasuresStep, PassWritesStep, HistTypeOK
<1>6. CASE OtherStep \/ UNCHANGED hvars
  BY <1>6 DEF OtherStep, hvars, HistTypeOK
<1>7. QED
  BY <1>1, <1>2, <1>3, <1>4, <1>5, <1>6 DEF HNext

LEMMA WireStep == WiresOK /\ WireOK /\ [HNext]_hvars => WireOK'
<1> SUFFICES ASSUME WiresOK, WireOK, [HNext]_hvars PROVE WireOK'
  OBVIOUS
<1>1. CASE PublishStep
  <2>1. "published" \in pending' => Signal = "published"
    <3>1. "published" \notin listening
      BY TopicAssumption DEF WiresOK
    <3>2. QED
      BY <1>1, <3>1 DEF PublishStep, Publish
  <2>2. QED
    BY <1>1, <2>1 DEF PublishStep, Publish, WireOK
<1>2. CASE TickStep
  BY <1>2 DEF TickStep, Tick, NodeFree, WireOK
<1>3. CASE ~PublishStep /\ ~TickStep
  BY <1>3, WithinTick DEF WireOK
<1>4. QED
  BY <1>1, <1>2, <1>3

\* A tick adds at most one to the silence, and as much to the age of a message
\* that is not too old to matter.
LEMMA OlderOK ==
  ASSUME CountersOK, HistTypeOK, MeterOK, TickStep
  PROVE  MeterOK'
<1>0. MaxGap \in Nat \ {0} /\ None = -1 /\ Old = 2 * MaxGap + 1 /\ Silent \in Nat
  BY TopicAssumption, BoundsOK, Zenon DEF None, Old
<1>1. /\ last' = Older(last)
      /\ silent' = (IF silent < Silent THEN silent + 1 ELSE silent)
  BY DEF TickStep, Tick
<1>2. last \in {None} \cup (0 .. Old) /\ silent \in 0 .. Silent
  BY DEF CountersOK, HistTypeOK
<1>3. CASE last \in {None, Old}
  BY <1>0, <1>1, <1>3 DEF Older, MeterOK, NotYounger
<1>4. CASE last \notin {None, Old}
  BY <1>0, <1>1, <1>2, <1>4 DEF Older, MeterOK, NotYounger
<1>5. QED
  BY <1>3, <1>4

\* Only callback_hz and start_monitoring set the time of the last message.
LEMMA LastKept ==
  ASSUME [HNext]_hvars, ~HzRecords, ~StartForgets, ~TickStep
  PROVE  last' = last
<1>1. CASE PublishStep
  BY <1>1 DEF PublishStep, Publish, rateVars
<1>2. ASSUME NEW l \in Lambdas, NEW result \in Results, FilterStep(l, result)
      PROVE  last' = last
  BY <1>2 DEF FilterStep, CallbackFilter, rateVars
<1>3. ASSUME NEW check \in Checks, CheckStep(check) \/ CheckRaisesStep(check)
      PROVE  last' = last
  BY <1>3 DEF CheckStep, CheckRaisesStep, BeginCheck, EndCheck, GetHzRaises, checkOnly,
              getHzOnly, rateVars
<1>4. ASSUME NEW p \in Passes, PassMeasuresStep(p) \/ PassWritesStep(p) PROVE last' = last
  BY <1>4 DEF PassMeasuresStep, PassWritesStep, PassMeasures, PassWrites, passOnly, rateVars
<1>5. CASE OtherStep
  <2>1. CASE HzReads \/ HzRaises \/ PublishedCb
    BY <2>1 DEF HzReads, HzRaises, PublishedCb, rateVars
  <2>2. ASSUME NEW r \in Readers, ReadLast(r) \/ GetHzRaises(r) PROVE last' = last
    BY <2>2 DEF ReadLast, GetHzRaises, getHzOnly, rateVars
  <2>3. ASSUME NEW p \in Passes, PassBegins(p) \/ \E c \in SafetyCritical : PassReads(p, c)
        PROVE  last' = last
    BY <2>3 DEF PassBegins, PassReads, passOnly, rateVars
  <2>4. CASE Caller
    BY <2>4 DEF Caller, StopMonitoring, StopDisables, StartMonitoring, StartClears,
                StartEnables
  <2>5. QED
    BY <1>5, <2>1, <2>2, <2>3, <2>4, ReaderParts DEF OtherStep
<1>6. CASE UNCHANGED hvars
  BY <1>6 DEF hvars, vars, rateVars
<1>7. QED
  BY <1>1, <1>2, <1>3, <1>4, <1>5, <1>6 DEF HNext

LEMMA MeterStep ==
  ASSUME CountersOK, HistTypeOK, WireOK, MeterOK, [HNext]_hvars
  PROVE  MeterOK'
<1>1. CASE PublishStep
  BY <1>1 DEF PublishStep, MeterOK, NotYounger
<1>2. CASE TickStep
  BY <1>2, OlderOK
<1>3. CASE HzRecords /\ ~PublishStep /\ ~TickStep
  <2>1. silent' = 0
    BY <1>3, WithinTick DEF HzRecords, WireOK
  <2>2. QED
    BY <2>1 DEF MeterOK, NotYounger
<1>4. CASE StartForgets
  <2>1. last' = None
    BY <1>4 DEF StartForgets
  <2>2. QED
    BY <2>1 DEF MeterOK, NotYounger, None
<1>5. CASE ~HzRecords /\ ~StartForgets /\ ~PublishStep /\ ~TickStep
  BY <1>5, LastKept, WithinTick DEF MeterOK, NotYounger
<1>6. QED
  BY <1>1, <1>2, <1>3, <1>4, <1>5

----------------------------------------------------------------------------
(* Readers: the checks and the passes.                                     *)

Untouched(r) ==
  /\ stage'[r] = stage[r] /\ gap'[r] = gap[r]
  /\ r \in Passes => unread'[r] = unread[r]

\* Within a tick a reader moves by a step of its own.
LEMMA OneReader ==
  ASSUME ReadersOK, [HNext]_hvars, ~TickStep, NEW r \in Readers
  PROVE  \/ Untouched(r)
         \/ ReadLast(r) \/ GetHzRaises(r)
         \/ r \in Checks /\ CheckStep(r)
         \/ r \in Passes /\ Pass(r)
<1> USE DEF ReadersOK
<1>1. CASE UNCHANGED readerVars
  BY <1>1 DEF readerVars, Untouched
<1>2. CASE PublishStep
  BY <1>1, <1>2 DEF PublishStep, Publish
<1>3. ASSUME NEW l \in Lambdas, NEW result \in Results, FilterStep(l, result)
      PROVE  Untouched(r)
  BY <1>3 DEF FilterStep, CallbackFilter, readerVars, Untouched
<1>4. ASSUME NEW check \in Checks, CheckStep(check), check # r PROVE Untouched(r)
  <2>1. check \in Readers
    BY ReaderParts
  <2>2. CASE BeginCheck(check)
    BY <1>4, <2>1, <2>2 DEF BeginCheck, checkOnly, Untouched
  <2>3. CASE EndCheck(check)
    BY <1>4, <2>1, <2>3 DEF EndCheck, checkOnly, Untouched
  <2>4. QED
    BY <1>4, <2>2, <2>3 DEF CheckStep
<1>5. ASSUME NEW q \in Readers, ReadLast(q) \/ GetHzRaises(q), q # r PROVE Untouched(r)
  BY <1>5 DEF ReadLast, GetHzRaises, getHzOnly, Untouched
<1>6. ASSUME NEW p \in Passes, Pass(p), p # r PROVE Untouched(r)
  <2>1. p \in Readers
    BY ReaderParts
  <2>2. CASE PassBegins(p)
    BY <1>6, <2>1, <2>2 DEF PassBegins, Untouched
  <2>3. CASE PassMeasures(p)
    BY <1>6, <2>1, <2>3 DEF PassMeasures, Untouched
  <2>4. ASSUME NEW c \in SafetyCritical, PassReads(p, c) PROVE Untouched(r)
    BY <1>6, <2>1, <2>4 DEF PassReads, Untouched
  <2>5. CASE PassWrites(p)
    BY <1>6, <2>1, <2>5 DEF PassWrites, Untouched
  <2>6. QED
    BY <1>6, <2>2, <2>3, <2>4, <2>5 DEF Pass
<1>7. ASSUME NEW p \in Passes, PassMeasuresStep(p) \/ PassWritesStep(p) PROVE Pass(p)
  BY <1>7 DEF PassMeasuresStep, PassWritesStep, Pass
<1>8. ASSUME NEW check \in Checks, CheckRaisesStep(check)
      PROVE  check \in Readers /\ GetHzRaises(check)
  BY <1>8, ReaderParts DEF CheckRaisesStep
<1>9. CASE OtherStep
  <2>1. CASE HzReads \/ HzRecords \/ HzRaises \/ PublishedCb
    BY <1>1, <2>1 DEF HzReads, HzRecords, HzRaises, PublishedCb
  <2>2. ASSUME NEW q \in Readers, ReadLast(q) \/ GetHzRaises(q)
        PROVE  Untouched(r) \/ ReadLast(r) \/ GetHzRaises(r)
    BY <1>5, <2>2
  <2>3. ASSUME NEW p \in Passes, PassBegins(p) \/ \E c \in SafetyCritical : PassReads(p, c)
        PROVE  Untouched(r) \/ (r \in Passes /\ Pass(r))
    BY <1>6, <2>3 DEF Pass
  <2>4. CASE Caller
    BY <1>1, <2>4 DEF Caller, StopMonitoring, StopDisables, StartMonitoring, StartClears,
                      StartForgets, StartEnables, callerOnly
  <2>5. QED
    BY <1>9, <2>1, <2>2, <2>3, <2>4, ReaderParts DEF OtherStep
<1>10. CASE UNCHANGED hvars
  BY <1>1, <1>10 DEF hvars, vars
<1>11. QED
  BY <1>2, <1>3, <1>4, <1>5, <1>6, <1>7, <1>8, <1>9, <1>10 DEF HNext

\* Who is to read the intervals has read the time of the last message.
LEMMA ToldAge ==
  ASSUME ReadersOK, [HNext]_hvars, NEW r \in Readers, stage'[r] = "mean"
  PROVE  /\ ~TickStep
         /\ \/ stage[r] = "mean" /\ gap'[r] = gap[r]
            \/ last # None /\ gap'[r] = last
<1> USE DEF ReadersOK
<1>1. ~TickStep
  BY DEF TickStep, Tick
<1>2. CASE Untouched(r)
  BY <1>1, <1>2 DEF Untouched
<1>3. CASE ReadLast(r)
  BY <1>1, <1>3 DEF ReadLast
<1>4. CASE GetHzRaises(r)
  BY <1>4 DEF GetHzRaises
<1>5. CASE CheckStep(r)
  BY <1>5 DEF CheckStep, BeginCheck, EndCheck
<1>6. CASE r \in Passes /\ Pass(r)
  <2>1. stage[r] = "mean" /\ UNCHANGED <<stage, gap>>
    BY <1>6 DEF Pass, PassBegins, PassMeasures, PassReads, PassWrites
  <2>2. QED
    BY <1>1, <2>1
<1>7. QED
  BY <1>1, <1>2, <1>3, <1>4, <1>5, <1>6, OneReader

LEMMA GapStep ==
  ASSUME ReadersOK, CountersOK, HistTypeOK, MeterOK, GapOK, [HNext]_hvars
  PROVE  GapOK'
<1> SUFFICES ASSUME NEW r \in Readers, stage'[r] = "mean"
             PROVE  gap'[r] \in 0 .. Old /\ (gap'[r] \in 0 .. 2 * MaxGap => silent' <= gap'[r])
  BY DEF GapOK, NotYounger
<1>1. silent' \in {0, silent}
  <2>1. CASE PublishStep
    BY <2>1 DEF PublishStep
  <2>2. CASE ~PublishStep
    BY <2>2, ToldAge, WithinTick
  <2>3. QED
    BY <2>1, <2>2
<1>2. gap'[r] \in 0 .. Old /\ (gap'[r] \in 0 .. 2 * MaxGap => silent <= gap'[r])
  <2>1. CASE stage[r] = "mean" /\ gap'[r] = gap[r]
    BY <2>1 DEF GapOK, NotYounger
  <2>2. CASE last # None /\ gap'[r] = last
    BY <2>2 DEF MeterOK, NotYounger, CountersOK
  <2>3. QED
    BY <2>1, <2>2, ToldAge
<1>3. QED
  BY <1>1, <1>2

----------------------------------------------------------------------------
(* Filters.                                                                *)

\* Nobody but its filter touches the condition of an expression.
LEMMA OthersKeepFilters ==
  ASSUME TypeOK, [HNext]_hvars,
         \A l \in Lambdas : \A result \in Results : ~FilterStep(l, result)
  PROVE  /\ UNCHANGED <<throttle, bad>>
         /\ \A l \in Lambdas : satisfied'[l] = satisfied[l]
<1>0. VerdictsOK
  BY TypeParts
<1>1. Signal \notin Lambdas /\ "published" \notin Lambdas
  BY TopicAssumption
<1>2. CASE UNCHANGED <<throttle, satisfied, bad>>
  BY <1>2
<1>3. CASE PublishStep \/ TickStep \/ UNCHANGED hvars
  BY <1>2, <1>3 DEF PublishStep, Publish, TickStep, Tick, hvars, vars, filterVars
<1>4. ASSUME NEW p \in Passes, PassMeasuresStep(p) \/ PassWritesStep(p)
      PROVE  UNCHANGED <<throttle, satisfied, bad>>
  BY <1>4 DEF PassMeasuresStep, PassWritesStep, PassMeasures, PassWrites, passOnly,
              filterVars
<1>5. ASSUME NEW check \in Checks, CheckRaisesStep(check)
      PROVE  UNCHANGED <<throttle, satisfied, bad>>
  BY <1>5 DEF CheckRaisesStep, GetHzRaises, getHzOnly, filterVars
<1>6. ASSUME NEW check \in Checks, NEW rateOk, NEW noStats, Conclude(check, rateOk, noStats)
      PROVE  \A l \in Lambdas : satisfied'[l] = satisfied[l]
  <2>1. CASE check = "absence"
    <3>1. "not published" \notin Lambdas
      BY <1>1, <2>1 DEF Checks
    <3>2. \/ satisfied' = [satisfied EXCEPT !["not published"] = TRUE]
          \/ satisfied' = satisfied
      BY <1>6 DEF Conclude
    <3>3. QED
      BY <1>0, <3>1, <3>2 DEF VerdictsOK, Conditions
  <2>2. CASE check # "absence"
    BY <1>6, <2>2 DEF Conclude
  <2>3. QED
    BY <2>1, <2>2
<1>7. ASSUME NEW check \in Checks, CheckStep(check)
      PROVE  /\ UNCHANGED <<throttle, bad>>
             /\ \A l \in Lambdas : satisfied'[l] = satisfied[l]
  <2>1. UNCHANGED <<throttle, bad>>
    BY <1>7 DEF CheckStep, BeginCheck, EndCheck, checkOnly
  <2>2. \/ Conclude(check, FALSE, TRUE) \/ Conclude(check, RateOk(gap[check]), FALSE)
        \/ satisfied' = satisfied
    BY <1>7 DEF CheckStep, BeginCheck, EndCheck
  <2>3. QED
    BY <1>6, <2>1, <2>2
<1>8. CASE OtherStep
  <2>1. bad' = bad
    BY <1>8 DEF OtherStep
  <2>2. CASE PublishedCb
    <3>1. satisfied' = [satisfied EXCEPT !["published"] = TRUE] /\ throttle' = throttle
      BY <2>2 DEF PublishedCb
    <3>2. \A l \in Lambdas : satisfied'[l] = satisfied[l]
      BY <1>0, <1>1, <3>1 DEF VerdictsOK, Conditions
    <3>3. QED
      BY <2>1, <3>1, <3>2
  <2>3. CASE HzReads \/ HzRecords \/ HzRaises
    BY <1>2, <2>1, <2>3 DEF HzReads, HzRecords, HzRaises, filterVars
  <2>4. ASSUME NEW r \in Readers, ReadLast(r) \/ GetHzRaises(r)
        PROVE  UNCHANGED <<throttle, satisfied>>
    BY <2>4 DEF ReadLast, GetHzRaises, getHzOnly, filterVars
  <2>5. ASSUME NEW p \in Passes, PassBegins(p) \/ \E c \in SafetyCritical : PassReads(p, c)
        PROVE  UNCHANGED <<throttle, satisfied>>
    BY <2>5 DEF PassBegins, PassReads, passOnly, filterVars
  <2>6. CASE Caller
    BY <1>2, <2>1, <2>6 DEF Caller, StopMonitoring, StopDisables, StartMonitoring,
                            StartClears, StartForgets, StartEnables, callerOnly, filterVars
  <2>7. QED
    BY <1>2, <1>8, <2>1, <2>2, <2>3, <2>4, <2>5, <2>6, ReaderParts DEF OtherStep
<1>9. QED
  BY <1>2, <1>3, <1>4, <1>5, <1>7, <1>8 DEF HNext

LEMMA FiltersStep ==
  ASSUME TypeOK, HistTypeOK, FilterOK, [HNext]_hvars
  PROVE  FilterOK'
<1>0. /\ throttle \in [Lambdas -> 0 .. Throttle] /\ bad \in [Lambdas -> 0 .. Throttle]
      /\ satisfied \in [Conditions -> BOOLEAN] /\ Throttle \in Nat \ {0}
  BY TopicAssumption, Zenon DEF TypeOK, HistTypeOK
<1>1. ASSUME NEW l \in Lambdas, NEW result \in Results, FilterStep(l, result) PROVE FilterOK'
  <2> SUFFICES ASSUME NEW k \in Lambdas, satisfied'[k] PROVE bad'[k] < throttle'[k]
    BY DEF FilterOK
  <2>1. l \in Conditions /\ k \in Conditions
    BY DEF Conditions
  <2>2. CASE k # l
    <3>1. satisfied'[k] = satisfied[k]
      BY <1>0, <1>1, <2>1, <2>2 DEF FilterStep, CallbackFilter
    <3>2. bad'[k] = bad[k] /\ throttle'[k] = throttle[k]
      BY <1>0, <1>1, <2>2 DEF FilterStep, CallbackFilter
    <3>3. QED
      BY <3>1, <3>2 DEF FilterOK
  <2>3. CASE k = l
    <3>1. CASE throttle[l] % Throttle = 0
      <4>1. throttle'[l] = 1
        BY <1>0, <1>1, <3>1 DEF FilterStep, CallbackFilter
      <4>2. satisfied'[l] <=> NowSatisfied(l, result)
        BY <1>0, <1>1, <2>1, <3>1 DEF FilterStep, CallbackFilter
      <4>3. result # "false"
        BY <2>3, <4>2 DEF NowSatisfied
      <4>4. bad'[l] = 0
        BY <1>0, <1>1, <4>3 DEF FilterStep
      <4>5. QED
        BY <2>3, <4>1, <4>4
    <3>2. CASE throttle[l] % Throttle # 0
      <4>1. throttle'[l] = throttle[l] + 1
        BY <1>0, <1>1, <3>2 DEF FilterStep, CallbackFilter
      <4>2. satisfied'[l] <=> satisfied[l]
        BY <1>0, <1>1, <2>1, <3>2 DEF FilterStep, CallbackFilter
      <4>3. bad[l] < throttle[l]
        BY <2>3, <4>2 DEF FilterOK
      <4>4. bad'[l] \in {0, bad[l], bad[l] + 1}
        BY <1>0, <1>1 DEF FilterStep
      <4>5. bad[l] \in Nat /\ throttle[l] \in Nat
        BY <1>0
      <4>6. QED
        BY <2>3, <4>1, <4>3, <4>4, <4>5
    <3>3. QED
      BY <3>1, <3>2
  <2>4. QED
    BY <2>2, <2>3
<1>2. CASE \A l \in Lambdas : \A result \in Results : ~FilterStep(l, result)
  <2>1. UNCHANGED <<throttle, bad>> /\ \A l \in Lambdas : satisfied'[l] = satisfied[l]
    BY <1>2, OthersKeepFilters
  <2>2. QED
    BY <2>1 DEF FilterOK
<1>3. QED
  BY <1>1, <1>2

\* An expression that has failed as often as its filter skips does not hold.
LEMMA FailingIsSeen ==
  ASSUME TypeOK, HistTypeOK, FilterOK, NEW l \in Failing
  PROVE  ~satisfied[l]
<1>1. l \in Lambdas /\ bad[l] = Throttle
  BY DEF Failing
<1>2. throttle[l] \in 0 .. Throttle /\ Throttle \in Nat
  <2>1. throttle \in [Lambdas -> 0 .. Throttle] /\ Throttle \in Nat \ {0}
    BY TopicAssumption, Zenon DEF TypeOK
  <2>2. QED
    BY <1>1, <2>1
<1>3. ~(bad[l] < throttle[l])
  BY <1>1, <1>2
<1>4. QED
  BY <1>1, <1>3 DEF FilterOK

----------------------------------------------------------------------------
(* Passes.                                                                 *)

\* The rate is accepted only while the topic is recent.
LEMMA AcceptedIsRecent ==
  ASSUME TypeOK, HistTypeOK, GapOK, NEW r \in Readers, ReadsMean(r), RateOk(gap[r])
  PROVE  silent <= 2 * MaxGap
<1>0. MaxGap \in Nat \ {0} /\ Old \in Nat
  BY TopicAssumption, BoundsOK, Zenon
<1>1. TimesOK /\ times # << >> /\ stage[r] = "mean"
  BY TypeParts DEF ReadsMean
<1>2. gap[r] \in 0 .. Old /\ (gap[r] \in 0 .. 2 * MaxGap => silent <= gap[r])
  BY <1>1 DEF GapOK, NotYounger
<1>3. silent \in Nat
  BY BoundsOK DEF HistTypeOK
<1>4. gap[r] <= 2 * MaxGap
  BY <1>0, <1>1, <1>2, RateOkIsRecent
<1>5. QED
  BY <1>0, <1>2, <1>3, <1>4

\* A pass that reads the conditions has just measured the rate, or goes on.
LEMMA ReadingFrom ==
  ASSUME ReadersOK, [HNext]_hvars, NEW p \in Passes, stage'[p] = "reading"
  PROVE  /\ ~TickStep
         /\ \/ ReadsMean(p) /\ RateOk(gap[p]) /\ unread'[p] = SafetyCritical
            \/ stage[p] = "reading" /\ unread'[p] = unread[p]
            \/ /\ stage[p] = "reading"
               /\ \E c \in SafetyCritical : satisfied[c] /\ unread'[p] = unread[p] \ {c}
<1> USE DEF ReadersOK
<1>0. p \in Readers /\ p \notin Checks
  BY ReaderParts
<1>1. ~TickStep
  BY <1>0 DEF TickStep, Tick
<1>2. CASE Untouched(p)
  BY <1>1, <1>2 DEF Untouched
<1>3. CASE ReadLast(p) \/ GetHzRaises(p)
  BY <1>0, <1>3 DEF ReadLast, GetHzRaises
<1>4. CASE Pass(p)
  <2>1. CASE PassBegins(p) \/ PassWrites(p)
    BY <1>0, <2>1 DEF PassBegins, PassWrites
  <2>2. CASE PassMeasures(p)
    BY <1>0, <1>1, <2>2 DEF PassMeasures
  <2>3. ASSUME NEW c \in SafetyCritical, PassReads(p, c)
        PROVE  stage[p] = "reading" /\ satisfied[c] /\ unread'[p] = unread[p] \ {c}
    BY <1>0, <2>3 DEF PassReads
  <2>4. QED
    BY <1>1, <1>4, <2>1, <2>2, <2>3 DEF Pass
<1>5. QED
  BY <1>0, <1>1, <1>2, <1>3, <1>4, OneReader

\* What has been failing since a pass began to read can only become less.
LEMMA SinceStep ==
  ASSUME HistTypeOK, [HNext]_hvars, NEW p \in Passes, failingSince[p] \subseteq Failing
  PROVE  /\ failingSince'[p] \subseteq Failing'
         /\ ReadsMean(p) \/ failingSince'[p] \subseteq failingSince[p]
<1> USE DEF HistTypeOK
<1>1. ASSUME NEW l \in Lambdas, NEW result \in Results, FilterStep(l, result)
      PROVE  failingSince'[p] = failingSince[p] \cap Failing'
  BY <1>1 DEF FilterStep
<1>2. ASSUME bad' = bad PROVE Failing' = Failing
  BY <1>2 DEF Failing
<1>3. ASSUME NEW q \in Passes, PassMeasuresStep(q) \/ PassWritesStep(q)
      PROVE  /\ bad' = bad
             /\ failingSince'[p] \in {failingSince[p], {}} \/ (ReadsMean(p) /\ failingSince'[p] = Failing)
  BY <1>3 DEF PassMeasuresStep, PassWritesStep, PassMeasures
<1>4. ASSUME NEW check \in Checks, CheckStep(check) \/ CheckRaisesStep(check)
      PROVE  bad' = bad /\ failingSince' = failingSince
  BY <1>4 DEF CheckStep, CheckRaisesStep
<1>5. CASE PublishStep \/ OtherStep \/ TickStep \/ UNCHANGED hvars
  BY <1>2, <1>5 DEF PublishStep, OtherStep, TickStep, hvars
<1>6. QED
  BY <1>1, <1>2, <1>3, <1>4, <1>5 DEF HNext

LEMMA PassStep ==
  ASSUME TypeOK, HistTypeOK, GapOK, FilterOK, PassOK, [HNext]_hvars
  PROVE  PassOK'
<1> SUFFICES ASSUME NEW p \in Passes
             PROVE  /\ failingSince'[p] \subseteq Failing'
                    /\ stage'[p] = "reading" =>
                         /\ silent' <= 2 * MaxGap
                         /\ SafetyCritical \cap failingSince'[p] \subseteq unread'[p]
  BY DEF PassOK
<1>0. p \in Readers /\ ReadersOK /\ MaxGap \in Nat /\ failingSince[p] \subseteq Failing
  BY TopicAssumption, ReaderParts, TypeParts DEF PassOK
<1>1. failingSince'[p] \subseteq Failing'
  BY <1>0, SinceStep
<1>2. ASSUME stage'[p] = "reading" PROVE silent' <= 2 * MaxGap
  <2>1. silent <= 2 * MaxGap
    <3>1. CASE stage[p] = "reading"
      BY <3>1 DEF PassOK
    <3>2. CASE ReadsMean(p) /\ RateOk(gap[p])
      BY <1>0, <3>2, AcceptedIsRecent
    <3>3. QED
      BY <1>0, <1>2, <3>1, <3>2, ReadingFrom
  <2>2. CASE PublishStep
    BY <1>0, <2>2 DEF PublishStep
  <2>3. CASE ~PublishStep
    BY <1>0, <1>2, <2>1, <2>3, ReadingFrom, WithinTick
  <2>4. QED
    BY <2>2, <2>3
<1>3. ASSUME stage'[p] = "reading"
      PROVE  SafetyCritical \cap failingSince'[p] \subseteq unread'[p]
  <2>1. CASE unread'[p] = SafetyCritical
    BY <2>1
  <2>2. CASE stage[p] = "reading" /\ unread'[p] = unread[p]
    BY <1>0, <2>2, SinceStep DEF PassOK, ReadsMean
  <2>3. ASSUME stage[p] = "reading", NEW c \in SafetyCritical, satisfied[c],
               unread'[p] = unread[p] \ {c}
        PROVE  SafetyCritical \cap failingSince'[p] \subseteq unread'[p]
    <3>1. c \notin Failing
      BY <2>3, FailingIsSeen
    <3>2. failingSince'[p] \subseteq failingSince[p]
      BY <1>0, <2>3, SinceStep DEF ReadsMean
    <3>3. QED
      BY <1>0, <2>3, <3>1, <3>2 DEF PassOK
  <2>4. QED
    BY <1>0, <1>3, <2>1, <2>2, <2>3, ReadingFrom
<1>4. QED
  BY <1>1, <1>2, <1>3

----------------------------------------------------------------------------
(* Verdicts.                                                               *)

Recent(check) ==
  Says(check) /\ check \notin leftOver => silent <= 2 * MaxGap + Slack(check)

LEMMA SlackOK ==
  /\ CountersOK => \A check \in Checks : Slack(check) \in 0 .. CheckPeriod
  /\ CountersOK' => \A check \in Checks : Slack(check)' \in 0 .. CheckPeriod
<1>1. CheckPeriod \in Nat \ {0}
  BY TopicAssumption, Zenon
<1>2. \A p \in Nat \ {0} : \A t \in 1 .. p : p \in 0 .. p /\ p - t \in 0 .. p
  OBVIOUS
<1>3. QED
  BY <1>1, <1>2 DEF CountersOK, Slack

\* A topic that has just been measured is recent, whatever the slack.
LEMMA MeasuredIsRecent ==
  ASSUME CountersOK', HistTypeOK', NEW check \in Checks, silent' <= 2 * MaxGap
  PROVE  Recent(check)'
<1>1. MaxGap \in Nat /\ CheckPeriod \in Nat
  BY TopicAssumption, Zenon
<1>2. Slack(check)' \in 0 .. CheckPeriod /\ silent' \in Nat
  BY SlackOK, BoundsOK DEF HistTypeOK
<1>3. QED
  BY <1>1, <1>2 DEF Recent

\* A verdict that is left alone, or falls, within a tick.
LEMMA RecentKept ==
  ASSUME NEW check \in Checks, Recent(check),
         silent' = silent, Slack(check)' = Slack(check),
         Says(check)' => Says(check), check \in leftOver => check \in leftOver'
  PROVE  Recent(check)'
BY DEF Recent

\* In a tick every verdict ages by one, and so does its slack, or its check is due.
LEMMA TickSlack ==
  ASSUME CountersOK, HistTypeOK, TickStep, NEW check \in Checks, Recent(check)
  PROVE  Recent(check)'
<1>0. MaxGap \in Nat \ {0} /\ CheckPeriod \in Nat \ {0} /\ Silent \in Nat
  BY TopicAssumption, BoundsOK, Zenon
<1>1. silent' <= silent + 1 /\ silent \in Nat /\ silent' \in Nat
  BY <1>0 DEF TickStep, HistTypeOK
<1>2. (Says(check)' <=> Says(check)) /\ leftOver' = leftOver
  BY Zenon DEF TickStep, Tick, Says, verdictVars
<1>3. check \in Readers
  BY ReaderParts
<1>4. Slack(check) = CheckPeriod - checkTimer /\ checkTimer \in 1 .. CheckPeriod
  BY <1>3 DEF TickStep, Tick, Slack, CountersOK
<1>5. CASE checkTimer = 1
  <2>1. stage'[check] = "due"
    BY <1>3, <1>5 DEF TickStep, Tick
  <2>2. Slack(check)' = CheckPeriod
    BY <2>1 DEF Slack
  <2>3. QED
    BY <1>0, <1>1, <1>2, <1>4, <1>5, <2>2 DEF Recent
<1>6. CASE checkTimer # 1
  <2>1. stage'[check] = "idle" /\ checkTimer' = checkTimer - 1
    BY <1>3, <1>6 DEF TickStep, Tick
  <2>2. Slack(check)' = CheckPeriod - (checkTimer - 1)
    BY <2>1 DEF Slack
  <2>3. QED
    BY <1>0, <1>1, <1>2, <1>4, <2>2 DEF Recent
<1>7. QED
  BY <1>5, <1>6

\* A check that ends has measured a topic that is recent, or finds it not alive.
LEMMA CheckEnds ==
  ASSUME TypeOK, HistTypeOK, CountersOK', HistTypeOK', GapOK, silent' = silent,
         NEW check \in Checks, CheckStep(check), stage'[check] = "idle"
  PROVE  Recent(check)'
<1>0. check \in Readers
  BY ReaderParts
<1>1. CASE Conclude(check, FALSE, TRUE)
  <2>1. ~Says(check)'
    BY <1>1 DEF Conclude, Says
  <2>2. QED
    BY <2>1 DEF Recent
<1>2. CASE EndCheck(check) /\ RateOk(gap[check])
  <2>1. silent <= 2 * MaxGap
    BY <1>0, <1>2, AcceptedIsRecent DEF EndCheck
  <2>2. QED
    BY <2>1, MeasuredIsRecent
<1>3. CASE EndCheck(check) /\ ~RateOk(gap[check])
  <2>1. Conclude(check, RateOk(gap[check]), FALSE)
    BY <1>3 DEF EndCheck
  <2>2. ~Says(check)'
    BY <1>3, <2>1 DEF Conclude, Says
  <2>3. QED
    BY <2>2 DEF Recent
<1>4. CASE BeginCheck(check) /\ stage' = [stage EXCEPT ![check] = "last"]
  BY <1>0, <1>4, TypeParts DEF ReadersOK
<1>5. QED
  BY <1>1, <1>2, <1>3, <1>4 DEF CheckStep, BeginCheck

\* The steps of the others, and of a check that goes on, leave its verdict alone.
LEMMA CheckGoesOn ==
  ASSUME TypeOK, [HNext]_hvars, ~PublishStep, ~TickStep, NEW check \in Checks,
         Recent(check), CheckStep(check) => stage'[check] # "idle",
         ~CheckRaisesStep(check), \A p \in Passes : ~PassWritesStep(p)
  PROVE  Recent(check)'
<1> USE DEF Says
<1>0. /\ check \in Readers /\ ReadersOK
      /\ silent' = silent /\ checkTimer' = checkTimer
  BY ReaderParts, TypeParts, WithinTick
<1>1. ASSUME stage'[check] = stage[check] PROVE Slack(check)' = Slack(check)
  BY <1>0, <1>1 DEF Slack
<1>2. CASE UNCHANGED <<stage, isAlive, isAutonomyAlive, leftOver>>
  BY <1>0, <1>1, <1>2, RecentKept
<1>3. ASSUME NEW l \in Lambdas, NEW result \in Results, FilterStep(l, result)
      PROVE  UNCHANGED <<stage, isAlive, isAutonomyAlive, leftOver>>
  BY <1>3 DEF FilterStep, CallbackFilter, readerVars, verdictVars
<1>4. ASSUME CheckStep(check) PROVE Recent(check)'
  <2>1. BeginCheck(check) /\ HasTimes
    BY <1>0, <1>4 DEF CheckStep, BeginCheck, EndCheck, ReadersOK
  <2>2. /\ stage[check] = "due" /\ stage'[check] = "last"
        /\ UNCHANGED <<isAlive, isAutonomyAlive>>
    BY <1>0, <2>1 DEF BeginCheck, ReadersOK, verdictVars
  <2>3. leftOver' = leftOver
    BY <1>4, <2>2 DEF CheckStep
  <2>4. Slack(check)' = Slack(check)
    BY <1>0, <2>2 DEF Slack
  <2>5. QED
    BY <1>0, <2>2, <2>3, <2>4, RecentKept
<1>5. ASSUME NEW k \in Checks, CheckStep(k), k # check PROVE Recent(check)'
  <2>1. stage'[check] = stage[check] /\ (check \in leftOver => check \in leftOver')
    BY <1>0, <1>5 DEF CheckStep, BeginCheck, EndCheck, ReadersOK
  <2>2. \/ UNCHANGED <<isAlive, isAutonomyAlive>>
        \/ Conclude(k, FALSE, TRUE) \/ Conclude(k, RateOk(gap[k]), FALSE)
    BY <1>5 DEF CheckStep, BeginCheck, EndCheck, verdictVars
  <2>3. Says(check)' => Says(check)
    <3>1. check = "alive" /\ isAlive' => isAlive
      BY <1>5, <2>2, Zenon DEF Conclude
    <3>2. check = "autonomy" /\ isAutonomyAlive' => isAutonomyAlive
      BY <1>5, <2>2, Zenon DEF Conclude
    <3>3. QED
      BY <3>1, <3>2
  <2>4. QED
    BY <1>0, <1>1, <2>1, <2>3, RecentKept
<1>6. ASSUME NEW k \in Checks, CheckRaisesStep(k), k # check PROVE Recent(check)'
  <2>1. /\ stage'[check] = stage[check] /\ (check \in leftOver => check \in leftOver')
        /\ UNCHANGED <<isAlive, isAutonomyAlive>>
    BY <1>0, <1>6 DEF CheckRaisesStep, GetHzRaises, getHzOnly, verdictVars, ReadersOK
  <2>2. QED
    BY <1>0, <1>1, <2>1, RecentKept
<1>7. ASSUME NEW p \in Passes, PassMeasuresStep(p) PROVE Recent(check)'
  <2>1. /\ stage'[check] = stage[check] /\ leftOver' = leftOver
        /\ UNCHANGED <<isAlive, isAutonomyAlive>>
    BY <1>0, <1>7, ReaderParts DEF PassMeasuresStep, PassMeasures, passOnly, ReadersOK
  <2>2. QED
    BY <1>0, <1>1, <2>1, RecentKept
<1>8. ASSUME OtherStep PROVE Recent(check)'
  <2>0. leftOver' = leftOver
    BY <1>8 DEF OtherStep
  <2>1. CASE HzReads \/ HzRecords \/ HzRaises \/ PublishedCb
    BY <1>2, <2>0, <2>1 DEF HzReads, HzRecords, HzRaises, PublishedCb, readerVars, verdictVars
  <2>2. ASSUME NEW r \in Readers, ReadLast(r) PROVE Recent(check)'
    <3>1. \/ stage'[check] = stage[check]
          \/ stage[check] = "last" /\ stage'[check] = "mean"
      BY <1>0, <2>2 DEF ReadLast, ReadersOK
    <3>2. Slack(check)' = Slack(check)
      BY <1>0, <3>1 DEF Slack
    <3>3. UNCHANGED <<isAlive, isAutonomyAlive>>
      BY <2>2 DEF ReadLast, getHzOnly, verdictVars
    <3>4. QED
      BY <1>0, <2>0, <3>2, <3>3, RecentKept
  <2>3. ASSUME NEW p \in Passes,
               PassBegins(p) \/ GetHzRaises(p) \/ \E c \in SafetyCritical : PassReads(p, c)
        PROVE  Recent(check)'
    <3>1. /\ stage'[check] = stage[check]
          /\ UNCHANGED <<isAlive, isAutonomyAlive>>
      BY <1>0, <2>3, ReaderParts
      DEF PassBegins, GetHzRaises, PassReads, passOnly, getHzOnly, verdictVars, ReadersOK
    <3>2. QED
      BY <1>0, <1>1, <2>0, <3>1, RecentKept
  <2>4. CASE Caller
    BY <1>2, <2>0, <2>4 DEF Caller, StopMonitoring, StopDisables, StartMonitoring,
                            StartClears, StartForgets, StartEnables, callerOnly,
                            readerVars, verdictVars
  <2>5. QED
    BY <1>8, <2>1, <2>2, <2>3, <2>4 DEF OtherStep
<1>9. CASE UNCHANGED hvars
  BY <1>2, <1>9 DEF hvars, vars, readerVars, verdictVars
<1>10. QED
  BY <1>2, <1>3, <1>4, <1>5, <1>6, <1>7, <1>8, <1>9 DEF HNext

LEMMA AliveStep ==
  ASSUME TypeOK, TypeOK', HistTypeOK, HistTypeOK', GapOK, PassOK, AliveOK, [HNext]_hvars
  PROVE  AliveOK'
<1> SUFFICES ASSUME NEW check \in Checks PROVE Recent(check)'
  BY DEF AliveOK, Recent
<1>0. /\ CountersOK /\ CountersOK' /\ MaxGap \in Nat /\ check \in Readers
      /\ Recent(check)
  <2>1. CountersOK /\ CountersOK'
    BY Zenon DEF TypeOK, CountersOK
  <2>2. MaxGap \in Nat \ {0}
    BY TopicAssumption, Zenon
  <2>3. QED
    BY <2>1, <2>2, ReaderParts DEF AliveOK, Recent
<1>1. CASE PublishStep
  <2>1. silent' <= 2 * MaxGap
    BY <1>0, <1>1 DEF PublishStep
  <2>2. QED
    BY <1>0, <2>1, MeasuredIsRecent
<1>2. CASE TickStep
  BY <1>0, <1>2, TickSlack
<1>3. CASE ~PublishStep /\ ~TickStep
  <2>0. silent' = silent
    BY <1>3, WithinTick
  <2>1. CASE CheckStep(check) /\ stage'[check] = "idle"
    BY <1>0, <2>0, <2>1, CheckEnds
  <2>2. CASE CheckRaisesStep(check)
    <3>1. (Says(check)' <=> Says(check)) /\ (Says(check) => check \in leftOver')
      BY <2>2 DEF CheckRaisesStep, GetHzRaises, getHzOnly, verdictVars, Says
    <3>2. QED
      BY <3>1 DEF Recent
  <2>3. ASSUME NEW p \in Passes, PassWritesStep(p) PROVE Recent(check)'
    <3>1. /\ isAutonomyAlive' = isAutonomyAlive /\ checkTimer' = checkTimer
          /\ leftOver' = leftOver \ {"alive"}
      BY <2>3 DEF PassWritesStep, PassWrites, passOnly
    <3>2. stage'[check] = stage[check]
      BY <1>0, <2>3, ReaderParts, TypeParts DEF PassWritesStep, PassWrites, ReadersOK
    <3>3. Slack(check)' = Slack(check)
      BY <3>1, <3>2 DEF Slack
    <3>4. CASE check # "alive"
      <4>1. (Says(check)' => Says(check)) /\ (check \in leftOver => check \in leftOver')
        BY <3>1, <3>4 DEF Says
      <4>2. QED
        BY <1>0, <2>0, <3>3, <4>1, RecentKept
    <3>5. CASE check = "alive" /\ isAlive'
      <4>1. stage[p] = "reading"
        BY <2>3, <3>5 DEF PassWritesStep, PassWrites
      <4>2. silent' <= 2 * MaxGap
        BY <2>0, <4>1 DEF PassOK
      <4>3. QED
        BY <1>0, <4>2, MeasuredIsRecent
    <3>6. CASE check = "alive" /\ ~isAlive'
      BY <3>6 DEF Recent, Says
    <3>7. QED
      BY <3>4, <3>5, <3>6
  <2>4. CASE /\ CheckStep(check) => stage'[check] # "idle"
             /\ ~CheckRaisesStep(check) /\ \A p \in Passes : ~PassWritesStep(p)
    BY <1>0, <1>3, <2>4, CheckGoesOn
  <2>5. QED
    BY <2>1, <2>2, <2>3, <2>4
<1>4. QED
  BY <1>1, <1>2, <1>3

----------------------------------------------------------------------------

LEMMA InitInv == HInit => TopicInv
<1> SUFFICES ASSUME HInit PROVE TopicInv
  OBVIOUS
<1>0. /\ Throttle \in Nat \ {0} /\ CheckPeriod \in Nat \ {0} /\ MaxGap \in Nat \ {0}
      /\ Window \in Nat /\ None = -1 /\ Silent \in Nat
  BY TopicAssumption, BoundsOK, Zenon DEF None
<1>1. /\ Init /\ silent = Silent /\ bad = [l \in Lambdas |-> 0]
      /\ failingSince = [p \in Passes |-> {}]
  BY DEF HInit
<1>2. WiresOK
  BY <1>1 DEF Init, WiresOK
<1>3. VerdictsOK
  BY <1>1 DEF Init, VerdictsOK
<1>4. ReadersOK
  BY <1>1 DEF Init, ReadersOK, Stages
<1>5. CountersOK /\ TimesOK
  BY <1>0, <1>1 DEF Init, CountersOK, TimesOK
<1>6. HistTypeOK
  <2>1. silent \in 0 .. Silent
    BY <1>0, <1>1
  <2>2. bad \in [Lambdas -> 0 .. Throttle] /\ failingSince \in [Passes -> SUBSET Lambdas]
    BY <1>0, <1>1
  <2>3. QED
    BY <2>1, <2>2 DEF HistTypeOK
<1>7. WireOK /\ MeterOK /\ GapOK
  BY <1>0, <1>1 DEF Init, WireOK, MeterOK, GapOK, NotYounger
<1>8. FilterOK
  <2>1. \A l \in Lambdas : l \in Conditions
    BY DEF Conditions
  <2>2. QED
    BY <1>1, <2>1 DEF Init, FilterOK
<1>9. PassOK
  BY <1>1, ReaderParts DEF Init, PassOK
<1>10. AliveOK
  BY <1>1, Zenon DEF Init, AliveOK, Says
<1>11. QED
  BY <1>2, <1>3, <1>4, <1>5, <1>6, <1>7, <1>8, <1>9, <1>10, TypeParts DEF TopicInv

LEMMA InvStep == TopicInv /\ [HNext]_hvars => TopicInv'
<1> SUFFICES ASSUME TopicInv, [HNext]_hvars PROVE TopicInv'
  OBVIOUS
<1>1. TypeOK /\ HistTypeOK /\ WireOK /\ MeterOK /\ GapOK /\ FilterOK /\ PassOK /\ AliveOK
  BY DEF TopicInv
<1>2. WiresOK /\ ReadersOK /\ CountersOK
  BY <1>1, TypeParts
<1>3. TypeOK'
  BY <1>1, HistStep, TypeStep
<1>4. HistTypeOK' /\ WireOK'
  BY <1>1, <1>2, HistTypeStep, WireStep
<1>5. MeterOK' /\ GapOK'
  BY <1>1, <1>2, MeterStep, GapStep
<1>6. FilterOK'
  BY <1>1, FiltersStep
<1>7. PassOK'
  BY <1>1, PassStep
<1>8. AliveOK'
  BY <1>1, <1>3, <1>4, AliveStep
<1>9. QED
  BY <1>3, <1>4, <1>5, <1>6, <1>7, <1>8 DEF TopicInv

LEMMA Invariant == HSpec => []TopicInv
BY InitInv, InvStep, PTL DEF HSpec

\* Every variable of the monitor keeps its type, whatever the messages say and
\* whoever stops and starts it in the middle of a check.
THEOREM TopicTypeCorrect == HSpec => []TypeOK
<1>1. TopicInv => TypeOK
  BY DEF TopicInv
<1>2. QED
  BY <1>1, Invariant, PTL

\* A topic that is called alive has sent a message within twice the slowest
\* accepted interval and one period of the checks, unless the last check raised:
\* what a check has read of the meter before it is emptied, what any number of
\* passes carry from their reading to their writing, and what they leave standing.
THEOREM AliveTopicIsRecent == HSpec => []AliveIsRecent
<1>1. TopicInv => AliveIsRecent
  <2> SUFFICES ASSUME TopicInv, NEW check \in Checks, Says(check), check \notin leftOver
               PROVE  silent <= AliveBound
    BY DEF AliveIsRecent
  <2>1. MaxGap \in Nat /\ CheckPeriod \in Nat \ {0} /\ silent \in Nat
    <3>1. MaxGap \in Nat \ {0} /\ CheckPeriod \in Nat \ {0} /\ Silent \in Nat
      BY TopicAssumption, BoundsOK, Zenon
    <3>2. QED
      BY <3>1 DEF TopicInv, HistTypeOK
  <2>2. Slack(check) \in 0 .. CheckPeriod
    BY TypeParts, SlackOK DEF TopicInv
  <2>3. silent <= 2 * MaxGap + Slack(check)
    BY DEF TopicInv, AliveOK
  <2>4. QED
    BY <2>1, <2>2, <2>3 DEF AliveBound
<1>2. QED
  BY <1>1, Invariant, PTL

\* No check finds the topic alive after as many failing messages in a row as the
\* filter skips, nor does a pass that begins to read after them, in whatever order
\* the messages, the checks and the steps of any number of passes come.
THEOREM BadContentIsAlwaysSeen == HSpec => BadContentIsSeen
<1> DEFINE Seen ==
      /\ isAlive' /\ EndCheck("alive") => SafetyCritical \cap Failing = {}
      /\ \A p \in Passes :
           isAlive' /\ PassWrites(p) => SafetyCritical \cap failingSince[p] = {}
<1>1. TopicInv => Seen
  <2> SUFFICES ASSUME TopicInv PROVE Seen
    OBVIOUS
  <2>1. ASSUME isAlive', EndCheck("alive"), NEW l \in SafetyCritical \cap Failing
        PROVE  FALSE
    <3>1. satisfied[l]
      BY <2>1 DEF EndCheck, Conclude, AllHold
    <3>2. QED
      BY <2>1, <3>1, FailingIsSeen DEF TopicInv
  <2>2. ASSUME NEW p \in Passes, isAlive', PassWrites(p),
               NEW l \in SafetyCritical \cap failingSince[p]
        PROVE  FALSE
    <3>1. stage[p] = "reading" /\ unread[p] = {}
      BY <2>2 DEF PassWrites
    <3>2. QED
      BY <2>2, <3>1 DEF TopicInv, PassOK
  <2>3. QED
    BY <2>1, <2>2
<1>2. TopicInv /\ [HNext]_hvars => [Seen]_hvars
  BY <1>1
<1>3. QED
  BY <1>2, Invariant, PTL DEF HSpec, BadContentIsSeen

----------------------------------------------------------------------------
(* The bounds of the model are beyond the reach of any answer.             *)

\* A silence that has reached Old is refused whatever the window holds, so ages
\* need not be told apart beyond it (ROSTopicHz.py 119-122).
THEOREM OldSilenceIsRefused ==
  ASSUME TimesOK, times # << >>, NEW silence \in Int, silence >= Old
  PROVE  ~RateOk(silence)
<1>1. MaxGap \in Nat /\ Old = 2 * MaxGap + 1
  BY TopicAssumption, Zenon DEF Old
<1>2. QED
  BY <1>1, RateOkIsRecent

\* A window that holds an interval of Long ticks is refused, however short the
\* others and the silence are, so intervals need not be told apart beyond it
\* (ROSTopicHz.py 113-117).
THEOREM LongIntervalSpoils ==
  ASSUME TimesOK, NEW j \in DOMAIN times, times[j] = Long, NEW silence
  PROVE  ~RateOk(silence)
<1> DEFINE n == Len(times)
           Ticks == {tick \in (DOMAIN times) \X (1 .. Long) : tick[2] <= times[tick[1]]}
           Column == {j} \X (1 .. Long)
           Row == (DOMAIN times \ {j}) \X {1}
<1>1. /\ n \in Nat \ {0} /\ n <= Window /\ DOMAIN times = 1 .. n
      /\ \A i \in DOMAIN times : times[i] \in 1 .. Long
  <2>1. times \in Seq(1 .. Long) /\ n <= Window
    BY DEF TimesOK
  <2>2. n \in Nat /\ DOMAIN times = 1 .. n
    BY <2>1
  <2>3. \A i \in 1 .. n : times[i] \in 1 .. Long
    <3>1. \A T : \A s \in Seq(T) : \A i \in 1 .. Len(s) : s[i] \in T
      OBVIOUS
    <3>2. QED
      BY <2>1, <3>1, Zenon
  <2>4. n # 0
    BY <2>2
  <2>5. QED
    BY <2>1, <2>2, <2>3, <2>4
<1>2. MaxGap \in Nat \ {0} /\ Window \in Nat
  BY TopicAssumption
<1>3. IsFiniteSet(Column) /\ Cardinality(Column) = Long
  <2>1. IsFiniteSet({j}) /\ Cardinality({j}) = 1
    BY FS_Singleton
  <2>2. IsFiniteSet(1 .. Long) /\ Cardinality(1 .. Long) = Long
    BY BoundsOK, FS_Interval
  <2>3. /\ IsFiniteSet(Column)
        /\ Cardinality(Column) = Cardinality({j}) * Cardinality(1 .. Long)
    BY <2>1, <2>2, FS_Product, Zenon
  <2>4. Cardinality(Column) = 1 * Long
    BY <2>1, <2>2, <2>3
  <2>5. QED
    BY <2>3, <2>4, BoundsOK
<1>4. IsFiniteSet(Row) /\ Cardinality(Row) = n - 1
  <2>1. IsFiniteSet(DOMAIN times) /\ Cardinality(DOMAIN times) = n
    BY <1>1, FS_Interval
  <2>2. IsFiniteSet(DOMAIN times \ {j}) /\ Cardinality(DOMAIN times \ {j}) = n - 1
    BY <2>1, FS_RemoveElement
  <2>3. IsFiniteSet({1}) /\ Cardinality({1}) = 1
    BY FS_Singleton
  <2>4. /\ IsFiniteSet(Row)
        /\ Cardinality(Row) = Cardinality(DOMAIN times \ {j}) * Cardinality({1})
    BY <2>2, <2>3, FS_Product, Zenon
  <2>5. Cardinality(Row) = (n - 1) * 1
    BY <2>2, <2>3, <2>4
  <2>6. QED
    BY <1>1, <2>4, <2>5
<1>5. IsFiniteSet(Column \cup Row) /\ Cardinality(Column \cup Row) = Long + (n - 1)
  <2>1. Column \cap Row = {}
    OBVIOUS
  <2>2. Cardinality(Column \cap Row) = 0
    BY <2>1, FS_EmptySet
  <2>3. /\ IsFiniteSet(Column \cup Row)
        /\ Cardinality(Column \cup Row)
             = Cardinality(Column) + Cardinality(Row) - Cardinality(Column \cap Row)
    <3> HIDE DEF Column, Row
    <3>1. QED
      BY <1>3, <1>4, FS_Union
  <2>4. QED
    BY <1>1, <1>3, <1>4, <2>2, <2>3, BoundsOK
<1>6. Column \cup Row \subseteq Ticks
  <2>1. Column \subseteq Ticks
    BY BoundsOK
  <2>2. Row \subseteq Ticks
    BY <1>1, BoundsOK
  <2>3. QED
    BY <2>1, <2>2
<1>7. IsFiniteSet(Ticks)
  <2>1. IsFiniteSet(DOMAIN times) /\ IsFiniteSet(1 .. Long)
    BY <1>1, BoundsOK, FS_Interval
  <2>2. IsFiniteSet((DOMAIN times) \X (1 .. Long))
    BY <2>1, FS_Product
  <2>3. QED
    BY <2>2, FS_Subset
<1>8. Total \in Nat /\ Long + (n - 1) <= Total
  <2>1. Total = Cardinality(Ticks)
    BY DEF Total
  <2>2. Cardinality(Column \cup Row) <= Cardinality(Ticks)
    BY <1>6, <1>7, FS_Subset
  <2>3. QED
    BY <1>5, <2>1, <2>2, TotalOK
<1>9. Long + (n - 1) > MaxGap * n
  <2>1. \A g, k, w \in Nat \ {0} : k <= w => (g - 1) * k <= (g - 1) * w
    OBVIOUS
  <2>2. \A g, k \in Nat : (g - 1) * k = g * k - k
    OBVIOUS
  <2>3. (MaxGap - 1) * n <= (MaxGap - 1) * Window
    BY <1>1, <1>2, <2>1
  <2>4. (MaxGap - 1) * n = MaxGap * n - n
    BY <1>1, <1>2, <2>2
  <2>5. \A a, b \in Nat : a * b \in Nat
    OBVIOUS
  <2>6. (MaxGap - 1) * Window \in Nat /\ MaxGap * n \in Nat
    BY <1>1, <1>2, <2>5
  <2>7. QED
    BY <1>1, <2>3, <2>4, <2>6 DEF Long
<1>10. \A a, b, t \in Int : a <= t /\ a > b => ~(t <= b)
  OBVIOUS
<1>11. MaxGap * n \in Int /\ Long + (n - 1) \in Int
  BY <1>1, <1>2, BoundsOK
<1>12. ~(Total <= MaxGap * n)
  BY <1>8, <1>9, <1>10, <1>11
<1>13. QED
  BY <1>12 DEF RateOk

=============================================================================
