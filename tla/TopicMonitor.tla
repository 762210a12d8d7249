---------------------------- MODULE TopicMonitor ----------------------------
(***************************************************************************)
(* One TopicMonitor (TopicMonitor.py) with its rate meter (ROSTopicHz.py), *)
(* its lambda filters (ROSTopicFilter.py) and its subscription for         *)
(* "published" (ROSTopicPub.py): what is_alive and is_autonomy_alive say   *)
(* of the topic.                                                           *)
(*                                                                         *)
(* All callbacks of the monitor's node are in one mutually exclusive       *)
(* group.  Other threads come between any two of their steps: the passes   *)
(* of the SafetyMonitors, which make the alive check themselves            *)
(* (SafetyMonitor.py 72-73), and start_monitor and stop_monitor.  What one *)
(* thread may change while another works with it is read and written       *)
(* statement by statement: only the meter's own callback takes its lock.   *)
(*                                                                         *)
(* An exception is dropped, as MultiThreadedExecutor does in some versions *)
(* of rclpy; where it ends the process, what happened until then is the    *)
(* beginning of a behaviour here.  log_hz_stats measures the rate as well, *)
(* writes nothing and may raise: it changes nothing here, and is left out. *)
(***************************************************************************)
EXTENDS Integers, Sequences, FiniteSets, FiniteSetsExt

CONSTANTS
  Lambdas,           \* the expressions of signal_lambdas
  Signal,            \* condition of signal_when: "published", "not published" or "none"
  SafetyCritical,    \* conditions marked safety_critical
  AutonomyCritical,  \* conditions marked autonomy_critical
  Passes,            \* the SafetyMonitors, whose passes may overlap
  MaxGap,            \* 1 / rate, in ticks
  Window,            \* window_size of the rate meter
  Throttle,          \* N: a filter evaluates one message out of Throttle
  CheckPeriod        \* period of the status checks, in ticks

Conditions == Lambdas \cup ({Signal} \ {"none"})

\* The status checks: timers of the node.
Checks ==
  {"alive", "autonomy"} \cup (IF Signal = "not published" THEN {"absence"} ELSE {})

ASSUME TopicAssumption ==
  /\ Signal \in {"published", "not published", "none"}
  /\ Lambdas \cap {Signal, "hz", "published"} = {}
  /\ SafetyCritical \subseteq Conditions /\ AutonomyCritical \subseteq Conditions
  /\ Passes \cap Checks = {}
  /\ MaxGap \in Nat \ {0} /\ Window \in Nat \ {0, 1}
  /\ Throttle \in Nat \ {0} /\ CheckPeriod \in Nat \ {0}

VARIABLES
  listening,   \* lambdas whose message type was found at start
  sent,        \* the topic has sent a message in this tick
  pending,     \* what it is still to reach: "hz", "published", lambdas
  interval,    \* what callback_hz is about to record, 0 for nothing, or None
  throttle,    \* throttle_counter of each filter
  satisfied,   \* conditions[...]["satisfied"]
  subscribed,  \* the rate meter has a subscription
  enabled,     \* enabled, of the rate meter
  times,       \* the last intervals between messages
  last,        \* age of last_msg_time, or None
  checkTimer,  \* ticks to the next checks
  stage,       \* how far each check and each pass has come
  gap,         \* the age of last_msg_time that each has read in get_hz, or None
  unread,      \* conditions each pass has still to read
  isAlive, isAutonomyAlive,
  caller       \* next statement of start_monitoring or stop_monitoring

wireVars    == <<sent, pending, interval>>
filterVars  == <<listening, throttle, satisfied>>
rateVars    == <<subscribed, enabled, times, last>>
readerVars  == <<stage, gap, unread>>
verdictVars == <<isAlive, isAutonomyAlive>>
vars == <<wireVars, filterVars, rateVars, checkTimer, readerVars, verdictVars, caller>>

None == -1

\* A silence this long is more than twice any accepted mean, and an interval
\* this long spoils the mean of any window, as no other is less than a tick.
Old == 2 * MaxGap + 1
Long == (MaxGap - 1) * Window + 2

Older(age) == IF age \in {None, Old} THEN age ELSE age + 1

Readers == Checks \cup Passes

Results == {"true", "false", "error"}

TypeOK ==
  /\ listening \subseteq Lambdas
  /\ sent \in BOOLEAN
  /\ pending \subseteq {"hz", "published"} \cup Lambdas
  /\ interval \in {None} \cup (0 .. Long)
  /\ throttle \in [Lambdas -> 0 .. Throttle]
  /\ satisfied \in [Conditions -> BOOLEAN]
  /\ subscribed \in BOOLEAN /\ enabled \in BOOLEAN
  /\ times \in Seq(1 .. Long) /\ Len(times) <= Window
  /\ last \in {None} \cup (0 .. Old)
  /\ checkTimer \in 1 .. CheckPeriod
  /\ stage \in [Readers -> {"idle", "due", "last", "mean", "reading", "dead", "done"}]
  /\ gap \in [Readers -> {None} \cup (0 .. Old)]
  /\ unread \in [Passes -> SUBSET SafetyCritical]
  /\ isAlive \in BOOLEAN /\ isAutonomyAlive \in BOOLEAN
  /\ caller \in {"none", "disable", "clear", "forget", "enable"}

Init ==
  /\ listening \in SUBSET Lambdas
  /\ sent = FALSE /\ pending = {} /\ interval = None
  /\ throttle = [l \in Lambdas |-> 0]
  /\ satisfied = [c \in Conditions |-> FALSE]
  /\ subscribed = TRUE /\ enabled = TRUE
  /\ times = << >> /\ last = None
  /\ checkTimer = CheckPeriod
  /\ stage = [r \in Readers |-> "idle"] /\ gap = [r \in Readers |-> None]
  /\ unread = [p \in Passes |-> {}]
  /\ isAlive = FALSE /\ isAutonomyAlive = FALSE
  /\ caller = "none"

\* The node's own callbacks come one at a time.
NodeFree ==
  interval = None /\ \A check \in Checks : stage[check] \in {"idle", "due"}

----------------------------------------------------------------------------
(* A message reaches the subscriptions one by one, in any order; the topic *)
(* sends at most one in a tick.                                            *)

Publish ==
  /\ NodeFree /\ pending = {} /\ ~sent
  /\ sent' = TRUE
  /\ pending' = (IF subscribed THEN {"hz"} ELSE {})
                  \cup ({Signal} \cap {"published"}) \cup listening
  /\ UNCHANGED <<interval, filterVars, rateVars, checkTimer, readerVars, verdictVars, caller>>

\* callback_hz: its lock keeps out no caller of start_monitoring.
HzReads ==
  /\ NodeFree /\ "hz" \in pending
  /\ pending' = pending \ {"hz"}
  /\ interval' = IF last = None THEN 0 ELSE Min({last, Long})
  /\ UNCHANGED <<sent, filterVars, rateVars, checkTimer, readerVars, verdictVars, caller>>

\* Mutant: the window grows.
RecordUnbounded(dt) == Append(times, dt)

\* The window drops its oldest interval.
Record(dt) ==
  IF Len(times) = Window THEN Append(Tail(times), dt) ELSE Append(times, dt)

HzRecords ==
  /\ interval # None
  /\ times' = IF interval = 0 THEN times ELSE Record(interval)
  /\ last' = 0 /\ interval' = None
  /\ UNCHANGED <<sent, pending, filterVars, subscribed, enabled, checkTimer, readerVars,
                 verdictVars, caller>>

\* start_monitoring came in between: the window to be shortened was cleared, or
\* last_msg_time forgotten before it was subtracted.
HzRaises ==
  /\ interval \notin {None, 0}
  /\ last = None \/ (caller = "forget" /\ times = << >>)
  /\ interval' = None
  /\ UNCHANGED <<sent, pending, filterVars, rateVars, checkTimer, readerVars, verdictVars,
                 caller>>

\* Mutant: an expression that fails leaves the condition as it was.
NowSatisfiedLatched(l, result) == satisfied[l] \/ result = "true"

\* An expression that raises leaves the condition as it was.
NowSatisfied(l, result) ==
  IF result = "error" THEN satisfied[l] ELSE result = "true"

\* result: what the expression makes of the message.
CallbackFilter(l, result) ==
  LET evaluates == throttle[l] % Throttle = 0 IN
  /\ NodeFree /\ l \in pending
  /\ pending' = pending \ {l}
  /\ throttle' = [throttle EXCEPT ![l] = IF evaluates THEN 1 ELSE @ + 1]
  /\ satisfied' = [satisfied EXCEPT ![l] = IF evaluates THEN NowSatisfied(l, result) ELSE @]
  /\ UNCHANGED <<sent, interval, listening, rateVars, checkTimer, readerVars, verdictVars,
                 caller>>

PublishedCb ==
  /\ NodeFree /\ "published" \in pending
  /\ pending' = pending \ {"published"}
  /\ satisfied' = [satisfied EXCEPT !["published"] = TRUE]
  /\ UNCHANGED <<sent, interval, listening, throttle, rateVars, checkTimer, readerVars,
                 verdictVars, caller>>

----------------------------------------------------------------------------
(* get_hz, which takes no lock: whoever measures the rate finds something  *)
(* to measure, then reads last_msg_time, then the intervals.  The meter    *)
(* may be filled or emptied before each.  What get_hz reads after the mean *)
(* decides nothing, and raises only where the mean would then have raised. *)

getHzOnly == <<wireVars, filterVars, rateVars, checkTimer, unread, verdictVars, caller>>

HasTimes == enabled /\ times # << >>

ReadLast(r) ==
  /\ stage[r] = "last" /\ last # None
  /\ gap' = [gap EXCEPT ![r] = last]
  /\ stage' = [stage EXCEPT ![r] = "mean"]
  /\ UNCHANGED getHzOnly

\* sum(times), counted tick by tick.
Total == Cardinality({tick \in (DOMAIN times) \X (1 .. Long) : tick[2] <= times[tick[1]]})

\* Mutant: a silent topic keeps its last rate.
RateOkUntilReplaced(silence) == Total <= MaxGap * Len(times)

\* Mutant: the rate must exceed the one asked for.
RateOkStrict(silence) ==
  Total < MaxGap * Len(times) /\ silence * Len(times) <= 2 * Total

\* The mean interval is short enough, and the silence at most twice the mean.
RateOk(silence) ==
  Total <= MaxGap * Len(times) /\ silence * Len(times) <= 2 * Total

\* The mean of no intervals would raise.
ReadsMean(r) == stage[r] = "mean" /\ times # << >>

\* The meter was emptied meanwhile: None is subtracted, or nothing averaged.
GetHzRaises(r) ==
  /\ \/ stage[r] = "last" /\ last = None
     \/ stage[r] = "mean" /\ times = << >>
  /\ stage' = [stage EXCEPT ![r] = IF r \in Checks THEN "idle" ELSE "done"]
  /\ gap' = [gap EXCEPT ![r] = None]
  /\ UNCHANGED getHzOnly

----------------------------------------------------------------------------
(* The timers of the node.                                                 *)

AllHold(critical) == \A c \in critical : satisfied[c]

\* What a check makes of the rate; noStats when get_hz returns None.
Conclude(check, rateOk, noStats) ==
  /\ isAlive' =
       IF check = "alive" THEN rateOk /\ AllHold(SafetyCritical) ELSE isAlive
  /\ isAutonomyAlive' =
       IF check = "autonomy" THEN rateOk /\ AllHold(AutonomyCritical)
                             ELSE isAutonomyAlive
  /\ satisfied' = IF check = "absence" /\ noStats
                    THEN [satisfied EXCEPT !["not published"] = TRUE]
                    ELSE satisfied

checkOnly == <<wireVars, listening, throttle, rateVars, checkTimer, unread, caller>>

BeginCheck(check) ==
  /\ NodeFree /\ stage[check] = "due"
  /\ \/ /\ HasTimes
        /\ stage' = [stage EXCEPT ![check] = "last"]
        /\ UNCHANGED <<satisfied, verdictVars>>
     \/ /\ ~HasTimes
        /\ stage' = [stage EXCEPT ![check] = "idle"]
        /\ Conclude(check, FALSE, TRUE)
  /\ UNCHANGED <<checkOnly, gap>>

\* No callback of the node changes a condition in between.
EndCheck(check) ==
  /\ ReadsMean(check)
  /\ stage' = [stage EXCEPT ![check] = "idle"]
  /\ gap' = [gap EXCEPT ![check] = None]
  /\ Conclude(check, RateOk(gap[check]), FALSE)
  /\ UNCHANGED checkOnly

----------------------------------------------------------------------------
(* The alive check of a pass, at most one of each SafetyMonitor in a tick: *)
(* it measures the rate, reads the conditions one by one as long as they   *)
(* hold, and writes what it has found.                                     *)

passOnly == <<wireVars, filterVars, rateVars, checkTimer, isAutonomyAlive, caller>>

PassBegins(p) ==
  /\ stage[p] = "idle"
  /\ stage' = [stage EXCEPT ![p] = IF HasTimes THEN "last" ELSE "dead"]
  /\ UNCHANGED <<passOnly, gap, unread, isAlive>>

PassMeasures(p) ==
  /\ ReadsMean(p)
  /\ gap' = [gap EXCEPT ![p] = None]
  /\ \/ /\ RateOk(gap[p])
        /\ stage' = [stage EXCEPT ![p] = "reading"]
        /\ unread' = [unread EXCEPT ![p] = SafetyCritical]
     \/ /\ ~RateOk(gap[p])
        /\ stage' = [stage EXCEPT ![p] = "dead"]
        /\ UNCHANGED unread
  /\ UNCHANGED <<passOnly, isAlive>>

PassReads(p, c) ==
  /\ stage[p] = "reading" /\ c \in unread[p]
  /\ \/ /\ satisfied[c]
        /\ unread' = [unread EXCEPT ![p] = @ \ {c}]
        /\ UNCHANGED stage
     \/ /\ ~satisfied[c]
        /\ unread' = [unread EXCEPT ![p] = {}]
        /\ stage' = [stage EXCEPT ![p] = "dead"]
  /\ UNCHANGED <<passOnly, gap, isAlive>>

PassWrites(p) ==
  /\ stage[p] \in {"reading", "dead"} /\ unread[p] = {}
  /\ isAlive' = (stage[p] = "reading")
  /\ stage' = [stage EXCEPT ![p] = "done"]
  /\ UNCHANGED <<passOnly, gap, unread>>

----------------------------------------------------------------------------
(* stop_monitoring and start_monitoring, statement by statement.           *)

callerOnly == <<sent, interval, filterVars, checkTimer, readerVars, verdictVars>>

\* A message that was taken before may still be called back.
StopMonitoring ==
  /\ caller = "none" /\ subscribed
  /\ subscribed' = FALSE
  /\ pending' \in {pending, pending \ {"hz"}}
  /\ caller' = "disable"
  /\ UNCHANGED <<callerOnly, enabled, times, last>>

StopDisables ==
  /\ caller = "disable"
  /\ enabled' = FALSE
  /\ caller' = "none"
  /\ UNCHANGED <<callerOnly, pending, subscribed, times, last>>

StartMonitoring ==
  /\ caller = "none" /\ ~subscribed
  /\ subscribed' = TRUE
  /\ caller' = "clear"
  /\ UNCHANGED <<callerOnly, pending, enabled, times, last>>

StartClears ==
  /\ caller = "clear"
  /\ times' = << >>
  /\ caller' = "forget"
  /\ UNCHANGED <<callerOnly, pending, subscribed, enabled, last>>

StartForgets ==
  /\ caller = "forget"
  /\ last' = None
  /\ caller' = "enable"
  /\ UNCHANGED <<callerOnly, pending, subscribed, enabled, times>>

StartEnables ==
  /\ caller = "enable"
  /\ enabled' = TRUE
  /\ caller' = "none"
  /\ UNCHANGED <<callerOnly, pending, subscribed, times, last>>

----------------------------------------------------------------------------

\* A tick ends when all that is due has been done; the checks share a period.
Tick ==
  /\ NodeFree /\ caller = "none" /\ pending = {}
  /\ \A r \in Readers : stage[r] \in {"idle", "done"}
  /\ last' = Older(last) /\ sent' = FALSE
  /\ checkTimer' = IF checkTimer = 1 THEN CheckPeriod ELSE checkTimer - 1
  /\ stage' = [r \in Readers |-> IF r \in Checks /\ checkTimer = 1 THEN "due" ELSE "idle"]
  /\ UNCHANGED <<pending, interval, filterVars, subscribed, enabled, times, gap, unread,
                 verdictVars, caller>>

Callback ==
  \/ HzReads \/ HzRecords \/ HzRaises
  \/ \E l \in Lambdas, result \in Results : CallbackFilter(l, result)
  \/ PublishedCb
  \/ \E check \in Checks : BeginCheck(check) \/ EndCheck(check)
  \/ \E r \in Readers : ReadLast(r) \/ GetHzRaises(r)

Pass(p) ==
  \/ PassBegins(p) \/ PassMeasures(p)
  \/ \E c \in SafetyCritical : PassReads(p, c)
  \/ PassWrites(p)

Caller ==
  \/ StopMonitoring \/ StopDisables
  \/ StartMonitoring \/ StartClears \/ StartForgets \/ StartEnables

Next ==
  \/ Publish
  \/ Callback
  \/ \E p \in Passes : Pass(p)
  \/ Caller
  \/ Tick

\* Time passes, and a tick waits for every callback that is due.
Fairness == []<><<Tick>>_vars

Spec == Init /\ [][Next]_vars /\ Fairness
=============================================================================
