----------------------------- MODULE GuardNodes ----------------------------
(***************************************************************************)
(* The three programs built on the C++ guard: lifecycle_guard_node.cpp,    *)
(* topic_guard_node.cpp and bt_condition_node.cpp.  Each is a process of   *)
(* one thread with a guard of its own; which of them runs is chosen at the *)
(* start.  Of the robot there is what a guard tells apart, the required    *)
(* state or another one and the mode, published at every change and once   *)
(* in every period of the clock, over two queues of Depth messages.        *)
(*                                                                         *)
(* A callback is one action, except the activation and deactivation of the *)
(* lifecycle guard: there the thread asks one node after the other and     *)
(* blocks for up to ServiceWait for a service that is not there, while     *)
(* messages wait in the queues.  Every thread that does not block serves   *)
(* all that is due before a period ends, in any order.                     *)
(***************************************************************************)
EXTENDS SentorGuard, Sequences

CONSTANTS
  Managed,      \* the managed nodes, in the order of the map of clients
  Flaky,        \* those whose service may go and come; the others' is always there
  ServiceWait,  \* time wait_for_service waits, in ticks
  Depth         \* depth of the subscription queues

ASSUME NodesAssumption ==
  /\ Managed \in Seq({Managed[i] : i \in DOMAIN Managed})
  /\ \A i, j \in DOMAIN Managed : Managed[i] = Managed[j] => i = j
  /\ Flaky \subseteq {Managed[i] : i \in DOMAIN Managed}
  /\ ServiceWait \in Nat \ {0} /\ Depth \in Nat \ {0}

VARIABLES
  program,          \* "lifecycle", "topic" or "tree"
  state, mode, up,  \* the robot: its state and mode, and whether its node runs
  stateWire,        \* robot_state on its way to the guard
  modeWire,         \* autonomous_mode on its way to the guard
  due,              \* what has still to be published or checked in this period
  currentlyActive,  \* currently_active_
  todo,             \* the nodes still to be asked by the switch in progress
  waited,           \* time waited for the service of the first of them
  serving,          \* the managed nodes whose service is there
  active,           \* the managed nodes that are active
  answer            \* what became of the last message or tick of this period

robotVars  == <<state, mode, up>>
wireVars   == <<stateWire, modeWire>>
switchVars == <<currentlyActive, todo, waited>>
nodeVars   == <<serving, active>>
vars == <<program, robotVars, wireVars, due, switchVars, nodeVars, answer, guardVars>>

Nodes  == {Managed[i] : i \in DOMAIN Managed}
States == {RequiredState, "other"}

QueueOf(values) == UNION {[1 .. n -> values] : n \in 0 .. Depth}

TypeOK ==
  /\ program \in {"lifecycle", "topic", "tree"}
  /\ state \in States /\ mode \in Modes /\ up \in BOOLEAN
  /\ stateWire \in QueueOf(States) /\ modeWire \in QueueOf(Modes)
  /\ due \subseteq {"state", "mode", "check"}
  /\ currentlyActive \in BOOLEAN
  /\ \E i \in 0 .. Len(Managed) : todo = SubSeq(Managed, i + 1, Len(Managed))
  /\ waited \in 0 .. ServiceWait
  /\ Nodes \ Flaky \subseteq serving /\ serving \subseteq Nodes /\ active \subseteq Nodes
  /\ answer \in {"none", "passed", "refused"}
  /\ seenState \in States \cup {"none"} /\ seenMode \in Modes \cup {"none"}
  /\ stateAge \in 0 .. UpdateTimeout + 1 /\ modeAge \in 0 .. UpdateTimeout + 1

Init ==
  /\ program \in {"lifecycle", "topic", "tree"}
  /\ state \in States /\ mode \in Modes /\ up = TRUE
  /\ stateWire = << >> /\ modeWire = << >> /\ due = {}
  /\ currentlyActive = FALSE /\ todo = << >> /\ waited = 0
  /\ serving \in {Nodes \ gone : gone \in SUBSET Flaky} /\ active = {}
  /\ answer = "none"
  /\ GuardInit

----------------------------------------------------------------------------
(* The robot and the managed nodes.                                        *)

\* Mutant: the queue is not bounded.
KeepAll(queue) == queue

KeepLast(queue) == IF Len(queue) > Depth THEN Tail(queue) ELSE queue

RobotChanges ==
  /\ up
  /\ state' \in States /\ mode' \in Modes
  /\ stateWire' = IF state' # state THEN KeepLast(Append(stateWire, state')) ELSE stateWire
  /\ modeWire' = IF mode' # mode THEN KeepLast(Append(modeWire, mode')) ELSE modeWire
  /\ UNCHANGED <<program, up, due, switchVars, nodeVars, answer, guardVars>>

Republish ==
  /\ \/ /\ "state" \in due
        /\ due' = due \ {"state"}
        /\ stateWire' = KeepLast(Append(stateWire, state)) /\ UNCHANGED modeWire
     \/ /\ "mode" \in due
        /\ due' = due \ {"mode"}
        /\ modeWire' = KeepLast(Append(modeWire, mode)) /\ UNCHANGED stateWire
  /\ UNCHANGED <<program, robotVars, switchVars, nodeVars, answer, guardVars>>

\* Nothing reads the state and mode of a robot that is down.
RobotCrash ==
  /\ up
  /\ up' = FALSE /\ due' = due \ {"state", "mode"}
  /\ state' = "other" /\ mode' = "manual"
  /\ UNCHANGED <<program, wireVars, switchVars, nodeVars, answer, guardVars>>

\* A new process begins in start-up, in the mode of its parameter, and says so; a
\* guard whose subscription it has not discovered yet misses either.
RobotRestart ==
  /\ ~up
  /\ up' = TRUE
  /\ state' = (IF RequiredState = "start-up" THEN RequiredState ELSE "other")
  /\ mode' \in Modes
  /\ stateWire' \in {stateWire, KeepLast(Append(stateWire, state'))}
  /\ modeWire' \in {modeWire, KeepLast(Append(modeWire, mode'))}
  /\ UNCHANGED <<program, due, switchVars, nodeVars, answer, guardVars>>

\* A node disappears with its process, or only from sight; it comes back as it is.
ServiceChanges(n) ==
  /\ program = "lifecycle" /\ n \in Flaky
  /\ \/ n \in serving /\ serving' = serving \ {n} /\ active' \in {active, active \ {n}}
     \/ n \notin serving /\ serving' = serving \cup {n} /\ UNCHANGED active
  /\ UNCHANGED <<program, robotVars, wireVars, due, switchVars, answer, guardVars>>

----------------------------------------------------------------------------
(* The guard's callbacks.                                                  *)

Idle == todo = << >>

DeliverState ==
  /\ Idle /\ stateWire # << >>
  /\ StateCallback(Head(stateWire))
  /\ stateWire' = Tail(stateWire)
  /\ UNCHANGED <<program, robotVars, modeWire, due, switchVars, nodeVars, answer>>

DeliverMode ==
  /\ Idle /\ modeWire # << >>
  /\ ModeCallback(Head(modeWire))
  /\ modeWire' = Tail(modeWire)
  /\ UNCHANGED <<program, robotVars, stateWire, due, switchVars, nodeVars, answer>>

----------------------------------------------------------------------------
(* The lifecycle guard.                                                    *)

Serves == todo # << >> /\ Head(todo) \in serving

\* The flag is set when the last node is done, whatever became of the requests.
SwitchOver(rest) == currentlyActive' = IF rest = << >> THEN ~currentlyActive ELSE currentlyActive

\* Mutant: the nodes are never deactivated.
CheckCallbackActivates ==
  /\ Idle /\ "check" \in due
  /\ due' = due \ {"check"}
  /\ IF Allowed /\ ~currentlyActive
     THEN todo' = Managed /\ SwitchOver(Managed)
     ELSE UNCHANGED <<todo, currentlyActive>>
  /\ UNCHANGED <<program, robotVars, wireVars, waited, nodeVars, answer, guardVars>>

\* Mutant: the nodes are activated only if they are active.
CheckCallbackDeactivates ==
  /\ Idle /\ "check" \in due
  /\ due' = due \ {"check"}
  /\ IF ~Allowed /\ currentlyActive
     THEN todo' = Managed /\ SwitchOver(Managed)
     ELSE UNCHANGED <<todo, currentlyActive>>
  /\ UNCHANGED <<program, robotVars, wireVars, waited, nodeVars, answer, guardVars>>

\* Between here and SwitchOver the flag tells the direction of the switch.
CheckCallback ==
  /\ Idle /\ "check" \in due
  /\ due' = due \ {"check"}
  /\ IF Allowed # currentlyActive
     THEN todo' = Managed /\ SwitchOver(Managed)
     ELSE UNCHANGED <<todo, currentlyActive>>
  /\ UNCHANGED <<program, robotVars, wireVars, waited, nodeVars, answer, guardVars>>

\* One turn of the loop of activateNodes or deactivateNodes.  The response is not
\* awaited: a flaky node may not obey.
Ask ==
  /\ Serves
  /\ LET n == Head(todo)
         obeyed == IF currentlyActive THEN active \ {n} ELSE active \cup {n}
     IN active' \in {obeyed} \cup IF n \in Flaky THEN {active} ELSE {}
  /\ todo' = Tail(todo) /\ waited' = 0
  /\ SwitchOver(Tail(todo))
  /\ UNCHANGED <<program, robotVars, wireVars, due, serving, answer, guardVars>>

\* The turn of a node whose service came too late or not at all.
GiveUp ==
  /\ ~Idle /\ waited = ServiceWait
  /\ todo' = Tail(todo) /\ waited' = 0
  /\ SwitchOver(Tail(todo))
  /\ UNCHANGED <<program, robotVars, wireVars, due, nodeVars, answer, guardVars>>

----------------------------------------------------------------------------
(* The topic guard and the behaviour-tree condition.                       *)

Answers == answer' = IF Allowed THEN "passed" ELSE "refused"

MessageCallback ==
  /\ program = "topic"
  /\ Answers
  /\ UNCHANGED <<program, robotVars, wireVars, due, switchVars, nodeVars, guardVars>>

\* The condition has no thread of its own: its guard lives in the node that owns the
\* tree, which is assumed to serve its messages within the period they arrive in.
BtTick ==
  /\ program = "tree"
  /\ Answers
  /\ UNCHANGED <<program, robotVars, wireVars, due, switchVars, nodeVars, guardVars>>

----------------------------------------------------------------------------
(* Time.                                                                   *)

Blocked == ~Idle /\ ~Serves /\ waited < ServiceWait

\* A thread that waits for a service takes its check and its messages late.  The
\* check is due as often as the publications, in the code ten times as often: a
\* guard that asks less often lags no less.
Tick ==
  /\ due \subseteq {"check"}
  /\ \/ Idle /\ due = {} /\ stateWire = << >> /\ modeWire = << >> /\ UNCHANGED waited
     \/ Blocked /\ waited' = waited + 1
  /\ due' = (IF up THEN {"state", "mode"} ELSE {}) \cup (IF program = "lifecycle" THEN {"check"} ELSE {})
  /\ answer' = "none"
  /\ GuardTick
  /\ UNCHANGED <<program, robotVars, wireVars, currentlyActive, todo, nodeVars>>

Untimed ==
  \/ RobotChanges \/ Republish \/ RobotCrash \/ RobotRestart
  \/ \E n \in Flaky : ServiceChanges(n)
  \/ DeliverState \/ DeliverMode
  \/ CheckCallback \/ Ask \/ GiveUp
  \/ MessageCallback \/ BtTick

Next == Untimed \/ Tick

\* A period ends only when everything due in it is done, so all that has to be
\* asked of the scheduling is that time passes.
TimePasses == []<><<Tick>>_vars

Spec == Init /\ [][Next]_vars
============================================================================
